---------------------------- MODULE MigrateProofs ----------------------------
(***************************************************************************)
(* Proofs about Migrate, for every set of processes, builds and versions:  *)
(* MigrateInv is inductive, and the safety properties follow from it.      *)
(***************************************************************************)
EXTENDS Migrate, TLAPS

-----------------------------------------------------------------------------
(* What a step of process p leaves alone. *)

Local(p) ==
    \A q \in Procs \ {p} : /\ pc'[q] = pc[q] /\ known'[q] = known[q]
                           /\ todo'[q] = todo[q] /\ cur'[q] = cur[q]

(* All of p's steps and faults. *)
Acts(p) == Step(p) \/ Crash(p)

(* Nothing a process does touches the local state of another. *)
LEMMA ActsLocal ==
    ASSUME TypeOK, NEW p \in Procs, Acts(p)
    PROVE  Local(p) /\ cmd' = cmd
<1> USE DEF TypeOK, Local, Goto, Return, Releases
<1>1. CASE Lock(p) \/ StartVersion(p) \/ EnsureTable(p) \/ CreateTable(p)
  BY <1>1 DEF Lock, StartVersion, EnsureTable, CreateTable
<1>2. CASE ReadApplied(p) \/ Version(p) \/ EndLoop(p)
  BY <1>2 DEF ReadApplied, Version, EndLoop
<1>3. CASE \E v \in Versions : StepUp(p, v) \/ StepDown(p, v)
  BY <1>3 DEF StepUp, StepDown, Apply
<1>4. CASE ExecBody(p) \/ Record(p) \/ Commit(p)
  BY <1>4 DEF ExecBody, Record, Commit
<1>5. CASE OrphanAbort(p) \/ OrphanCommit(p) \/ Crash(p)
  BY <1>5 DEF OrphanAbort, OrphanCommit, Crash
<1> QED BY <1>1, <1>2, <1>3, <1>4, <1>5 DEF Acts, Step

(* Versions are positive. *)
LEMMA VersionNumbers == \A v \in Versions : v \in Int /\ v > 0
BY MigrateAssumption

(* What LoadMigrations gives a process. *)
LEMMA Loaded ==
    ASSUME TypeOK, NEW p \in Procs
    PROVE  /\ cmd[p].op \in {"up", "down", "version"}
           /\ Migrations(p) \subseteq Versions
           /\ \A v \in Versions : Checksum(p, v) \in Sums \cup {NoSum}
           /\ \A v \in Migrations(p) : Checksum(p, v) # NoSum
<1>1. cmd[p] \in Commands
  BY DEF TypeOK
<1>2. cmd[p].build \in Builds /\ cmd[p].op \in {"up", "down", "version"}
  BY <1>1 DEF Commands
<1>3. Files[cmd[p].build] \in [Versions -> Sums \cup {NoSum}]
  BY <1>2, MigrateAssumption
<1> QED BY <1>2, <1>3 DEF Migrations, Checksum

(* Every variable keeps its type. *)
LEMMA TypeStep ==
    ASSUME TypeOK, LoopState, NEW p \in Procs, Acts(p)
    PROVE  TypeOK'
<1> USE DEF TypeOK, Goto, Return, Releases, Steps
<1>1. CASE Lock(p) \/ StartVersion(p) \/ EnsureTable(p) \/ CreateTable(p)
  BY <1>1 DEF Lock, StartVersion, EnsureTable, CreateTable, database
<1>2. CASE Version(p) \/ EndLoop(p)
  BY <1>2 DEF Version, EndLoop, database
<1>9. CASE ReadApplied(p)
  <2>1. known' \in [Procs -> [Versions -> Sums \cup {NoSum}]]
    BY <1>9 DEF ReadApplied
  <2>2. todo' \in [Procs -> SUBSET Versions]
    BY <1>9, Loaded DEF ReadApplied
  <2>3. pc' \in [Procs -> Steps]
    BY <1>9 DEF ReadApplied
  <2> QED BY <1>9, <2>1, <2>2, <2>3 DEF ReadApplied, database
<1>3. CASE \E v \in Versions : StepUp(p, v) \/ StepDown(p, v)
  <2> PICK v \in Versions : StepUp(p, v) \/ StepDown(p, v)
    BY <1>3
  <2>1. todo' \in [Procs -> SUBSET Versions]
    <3>1. {u \in todo[p] : u > v} \in SUBSET Versions /\ {u \in todo[p] : u < v} \in SUBSET Versions
      OBVIOUS
    <3> QED BY <3>1 DEF StepUp, StepDown
  <2>2. /\ cur' \in [Procs -> Versions \cup {0}]
        /\ pc' \in [Procs -> Steps]
        /\ result' \in [Procs -> {"none", "ok", "error"}]
        /\ holder' \in Procs \cup {Nobody}
    <3>1. Return(p, "error") \/ Apply(p, v)
      BY DEF StepUp, StepDown
    <3>2. CASE Return(p, "error")
      BY <3>2
    <3>3. CASE Apply(p, v)
      BY <3>3 DEF Apply
    <3> QED BY <3>1, <3>2, <3>3
  <2>3. UNCHANGED <<table, applied, schema, cmd, known, count, lost>>
    BY DEF StepUp, StepDown, database
  <2> QED BY <2>1, <2>2, <2>3
<1>4. CASE ExecBody(p) \/ Record(p)
  BY <1>4 DEF ExecBody, Record, database
<1>5. ASSUME Publish(p), pc[p] = "commit" PROVE applied' \in [Versions -> Sums \cup {NoSum}]
                                               /\ schema' \in [Versions -> Int]
                                               /\ table' = table
  <2>1. cur[p] \in Versions
    BY <1>5 DEF LoopState, LoopOf, InApply, Migrations
  <2>2. Recorded(p) \in Sums \cup {NoSum} /\ Effect(p) \in Int
    BY <2>1, Loaded DEF Recorded, Effect
  <2> QED BY <1>5, <2>1, <2>2 DEF Publish
<1>6. CASE Commit(p)
  BY <1>6, <1>5 DEF Commit, At
<1>7. CASE OrphanCommit(p)
  BY <1>7, <1>5 DEF OrphanCommit
<1>8. CASE OrphanAbort(p) \/ Crash(p)
  BY <1>8 DEF OrphanAbort, Crash, database
<1> QED BY <1>1, <1>2, <1>3, <1>4, <1>6, <1>7, <1>8, <1>9 DEF Acts, Step

(* The lock has one owner: the process that is past it. *)
LEMMA LockedStep ==
    ASSUME TypeOK, Locked, NEW p \in Procs, Acts(p)
    PROVE  Locked'
<1> USE MigrateAssumption DEF TypeOK, Locked, InLoop, Goto, Return, Releases, At
<1>1. CASE Lock(p) \/ StartVersion(p) \/ EnsureTable(p) \/ CreateTable(p)
  BY <1>1 DEF Lock, AdvisoryLock, StartVersion, EnsureTable, CreateTable
<1>2. CASE ReadApplied(p) \/ Version(p) \/ EndLoop(p)
  BY <1>2 DEF ReadApplied, Version, EndLoop
<1>3. CASE \E v \in Versions : StepUp(p, v) \/ StepDown(p, v)
  BY <1>3 DEF StepUp, StepDown, Apply
<1>4. CASE ExecBody(p) \/ Record(p) \/ Commit(p)
  BY <1>4 DEF ExecBody, Record, Commit
<1>5. CASE OrphanAbort(p) \/ OrphanCommit(p) \/ Crash(p)
  BY <1>5 DEF OrphanAbort, OrphanCommit, Crash
<1> QED BY <1>1, <1>2, <1>3, <1>4, <1>5 DEF Acts, Step

-----------------------------------------------------------------------------
(* schema_migrations changes in the COMMIT of applyOne only. *)
Writes(p) == pc[p] = "commit" /\ Publish(p)

(* Every other step of a process leaves the tables alone. *)
LEMMA WritesOnly ==
    ASSUME NEW p \in Procs, Acts(p)
    PROVE  Writes(p) \/ UNCHANGED <<applied, schema>>
<1> USE DEF database
<1>1. CASE Lock(p) \/ StartVersion(p) \/ EnsureTable(p) \/ CreateTable(p)
  BY <1>1 DEF Lock, StartVersion, EnsureTable, CreateTable
<1>2. CASE ReadApplied(p) \/ Version(p) \/ EndLoop(p)
  BY <1>2 DEF ReadApplied, Version, EndLoop
<1>3. CASE \E v \in Versions : StepUp(p, v) \/ StepDown(p, v)
  BY <1>3 DEF StepUp, StepDown
<1>4. CASE ExecBody(p) \/ Record(p) \/ Commit(p)
  BY <1>4 DEF ExecBody, Record, Commit, At, Writes
<1>5. CASE OrphanAbort(p) \/ OrphanCommit(p) \/ Crash(p)
  BY <1>5 DEF OrphanAbort, OrphanCommit, Crash, Writes
<1> QED BY <1>1, <1>2, <1>3, <1>4, <1>5 DEF Acts, Step

(* A migration that is committed was missing (Up) or there (Down), and it is
   the other thing afterwards. *)
LEMMA WrittenRow ==
    ASSUME MigrateInv, NEW p \in Procs, Writes(p)
    PROVE  /\ cur[p] \in Versions /\ cur[p] \in Migrations(p)
           /\ \A v \in Versions : v # cur[p] => applied'[v] = applied[v] /\ schema'[v] = schema[v]
           /\ \/ /\ cmd[p].op = "up"
                 /\ applied[cur[p]] = NoSum /\ applied'[cur[p]] = Checksum(p, cur[p])
                 /\ schema'[cur[p]] = schema[cur[p]] + 1
              \/ /\ cmd[p].op = "down"
                 /\ applied[cur[p]] # NoSum /\ applied'[cur[p]] = NoSum
                 /\ schema'[cur[p]] = schema[cur[p]] - 1
<1>1. LoopOf(p) /\ pc[p] \in InApply /\ cmd[p].op # "version"
  BY DEF MigrateInv, LoopState, Locked, Writes, InApply, InLoop
<1>2. cur[p] \in Migrations(p) /\ cur[p] \in Versions
  BY <1>1, Loaded DEF LoopOf, MigrateInv
<1>3. cmd[p].op = "up" \/ cmd[p].op = "down"
  BY <1>1, Loaded DEF MigrateInv
<1>4. /\ applied' = [applied EXCEPT ![cur[p]] = Recorded(p)]
      /\ schema' = [schema EXCEPT ![cur[p]] = @ + Effect(p)]
  BY DEF Writes, Publish
<1>5. applied \in [Versions -> Sums \cup {NoSum}] /\ schema \in [Versions -> Int]
  BY DEF MigrateInv, TypeOK
<1> QED BY <1>1, <1>2, <1>3, <1>4, <1>5 DEF LoopOf, Recorded, Effect

(* The bookkeeping follows the schema. *)
LEMMA RecordsStep ==
    ASSUME MigrateInv, NEW p \in Procs, Acts(p)
    PROVE  RecordsMatchSchema'
<1>1. CASE UNCHANGED <<applied, schema>>
  BY <1>1 DEF MigrateInv, RecordsMatchSchema
<1>2. CASE Writes(p)
  <2>1. \A v \in Migrations(p) : Checksum(p, v) # NoSum
    BY Loaded DEF MigrateInv
  <2> QED BY <1>2, <2>1, WrittenRow DEF MigrateInv, RecordsMatchSchema
<1> QED BY <1>1, <1>2, WritesOnly

(* Nobody else is in a loop while a migration is committed, so what the
   others know stays true. *)
LEMMA OthersKeep ==
    ASSUME MigrateInv, NEW p \in Procs, Acts(p), NEW q \in Procs, q # p
    PROVE  LoopOf(q)' /\ VisitedOf(q)'
<1>1. /\ pc'[q] = pc[q] /\ known'[q] = known[q] /\ todo'[q] = todo[q] /\ cur'[q] = cur[q]
      /\ cmd' = cmd
  BY ActsLocal DEF MigrateInv, Local
<1>2. LoopOf(q) /\ VisitedOf(q)
  BY DEF MigrateInv, LoopState, Visited
<1>3. CASE UNCHANGED <<applied, schema>>
  BY <1>1, <1>2, <1>3 DEF LoopOf, VisitedOf, Migrations, Checksum
<1>4. CASE Writes(p)
  <2>1. pc[q] \notin InLoop
    BY <1>4 DEF MigrateInv, Locked, Writes, InLoop
  <2> QED BY <1>1, <1>2, <2>1 DEF LoopOf, VisitedOf, InLoop, InApply
<1> QED BY <1>3, <1>4, WritesOnly

(* A process that is not in a loop afterwards. *)
LEMMA OutOfLoop ==
    ASSUME NEW p \in Procs, pc'[p] \notin InLoop, cur'[p] = 0
    PROVE  LoopOf(p)' /\ VisitedOf(p)'
BY DEF LoopOf, VisitedOf, InLoop, InApply

(* A return resets what applyOne was at. *)
LEMMA ReturnKeeps ==
    ASSUME TypeOK, NEW p \in Procs, NEW res, Return(p, res)
    PROVE  LoopOf(p)' /\ VisitedOf(p)'
<1>1. pc'[p] = "done" /\ cur'[p] = 0
  BY DEF Return, Goto, TypeOK
<1> QED BY <1>1, OutOfLoop DEF InLoop

(* The steps before the loop. *)
LEMMA BeforeLoop ==
    ASSUME MigrateInv, NEW p \in Procs,
           Lock(p) \/ StartVersion(p) \/ EnsureTable(p) \/ CreateTable(p) \/ Version(p)
    PROVE  LoopOf(p)' /\ VisitedOf(p)'
<1> USE DEF MigrateInv
<1>1. LoopOf(p)
  BY DEF LoopState
<1>2. CASE \E res \in {"ok", "error"} : Return(p, res)
  BY <1>2, ReturnKeeps
<1>3. CASE ~\E res \in {"ok", "error"} : Return(p, res)
  <2>1. pc'[p] \in {"ensure", "create", "read"} /\ pc[p] \notin InApply /\ cur' = cur
    BY <1>3 DEF Lock, StartVersion, EnsureTable, CreateTable, Version, Goto, At, TypeOK, InApply
  <2>2. cur'[p] = 0
    BY <1>1, <2>1 DEF LoopOf
  <2> QED BY <2>1, <2>2, OutOfLoop DEF InLoop
<1> QED BY <1>2, <1>3

(* appliedMigrations: everything is still to be visited. *)
LEMMA ReadKeeps ==
    ASSUME MigrateInv, NEW p \in Procs, ReadApplied(p)
    PROVE  LoopOf(p)' /\ VisitedOf(p)'
<1>1. LoopOf(p)
  BY DEF LoopState, MigrateInv
<1>2. /\ pc'[p] = "loop" /\ known'[p] = applied /\ todo'[p] = Migrations(p)
      /\ cur' = cur /\ cmd' = cmd /\ applied' = applied /\ cur[p] = 0
  BY <1>1 DEF ReadApplied, Goto, At, MigrateInv, TypeOK, database, LoopOf, InApply
<1> QED BY <1>2 DEF LoopOf, VisitedOf, Migrations, InApply

(* The loop of Up goes to the first version that is missing; those it passes
   over are applied as the files have them. *)
LEMMA UpKeeps ==
    ASSUME MigrateInv, NEW p \in Procs, NEW v \in Versions, StepUp(p, v)
    PROVE  LoopOf(p)' /\ VisitedOf(p)'
<1> USE DEF MigrateInv
<1>1. LoopOf(p) /\ VisitedOf(p) /\ pc[p] = "loop" /\ cmd[p].op = "up"
  BY DEF LoopState, Visited, StepUp, At
<1>2. /\ todo[p] \subseteq Migrations(p) /\ Migrations(p) \subseteq Versions
      /\ \A u \in todo[p] : known[p][u] = applied[u]
  BY <1>1, Loaded DEF LoopOf, InLoop
<1>3. CASE Return(p, "error")
  BY <1>3, ReturnKeeps
<1>4. CASE Apply(p, v) /\ ~Edited(p, v)
  <2>1. /\ pc'[p] = "exec" /\ cur'[p] = v /\ todo'[p] = {u \in todo[p] : u > v}
        /\ known' = known /\ applied' = applied /\ cmd' = cmd
    BY <1>4 DEF StepUp, Apply, Goto, TypeOK, database
  <2>2. v \in todo[p] /\ applied[v] = NoSum
    BY <1>2, <1>4 DEF StepUp, NextUp, UpStops
  <2>3. \A u \in todo[p] : u \in Int /\ v \in Int
    BY <1>2, VersionNumbers
  <2>4. \A u \in todo[p] : u < v => applied[u] = Checksum(p, u)
    BY <1>2, <2>3 DEF StepUp, NextUp, UpStops, Edited
  <2>5. \A u \in Migrations(p) \ todo[p] : u # 0 /\ applied[u] = Checksum(p, u)
    BY <1>1, <1>2, MigrateAssumption DEF LoopOf, VisitedOf, InLoop, InApply
  <2>6. LoopOf(p)'
    <3>1. Migrations(p)' = Migrations(p)
      BY <2>1 DEF Migrations
    <3>2. todo'[p] \subseteq todo[p] /\ v \in Migrations(p)
      BY <1>2, <2>1, <2>2
    <3>3. /\ todo'[p] \subseteq Migrations(p)
          /\ \A u \in todo'[p] : known'[p][u] = applied'[u]
      BY <1>2, <2>1, <3>2
    <3>4. \A u \in todo'[p] : cur'[p] < u
      BY <2>1, <2>3
    <3> QED BY <1>1, <2>1, <2>2, <3>1, <3>2, <3>3, <3>4 DEF LoopOf, InApply
  <2>7. VisitedOf(p)'
    BY <1>1, <1>2, <2>1, <2>3, <2>4, <2>5 DEF VisitedOf, InLoop, Migrations, Checksum
  <2> QED BY <2>6, <2>7
<1> QED BY <1>3, <1>4 DEF StepUp

(* The loop of Down goes to the last version that is there; those it passes
   over are not. *)
LEMMA DownKeeps ==
    ASSUME MigrateInv, NEW p \in Procs, NEW v \in Versions, StepDown(p, v)
    PROVE  LoopOf(p)' /\ VisitedOf(p)'
<1> USE DEF MigrateInv
<1>1. LoopOf(p) /\ VisitedOf(p) /\ pc[p] = "loop" /\ cmd[p].op = "down"
  BY DEF LoopState, Visited, StepDown, At
<1>2. /\ todo[p] \subseteq Migrations(p) /\ Migrations(p) \subseteq Versions
      /\ \A u \in todo[p] : known[p][u] = applied[u]
  BY <1>1, Loaded DEF LoopOf, InLoop
<1>3. CASE Return(p, "error")
  BY <1>3, ReturnKeeps
<1>4. CASE Apply(p, v)
  <2>1. /\ pc'[p] = "exec" /\ cur'[p] = v /\ todo'[p] = {u \in todo[p] : u < v}
        /\ known' = known /\ applied' = applied /\ cmd' = cmd
    BY <1>4 DEF StepDown, Apply, Goto, TypeOK, database
  <2>2. v \in todo[p] /\ applied[v] # NoSum
    BY <1>2 DEF StepDown, NextDown, DownStops
  <2>3. \A u \in todo[p] : u \in Int /\ v \in Int
    BY <1>2, VersionNumbers
  <2>4. \A u \in todo[p] : u > v => applied[u] = NoSum
    BY <1>2, <2>3 DEF StepDown, NextDown, DownStops
  <2>5. \A u \in Migrations(p) \ todo[p] : u # 0 /\ applied[u] = NoSum
    BY <1>1, <1>2, MigrateAssumption DEF LoopOf, VisitedOf, InLoop, InApply
  <2>6. LoopOf(p)'
    <3>1. Migrations(p)' = Migrations(p)
      BY <2>1 DEF Migrations
    <3>2. todo'[p] \subseteq todo[p] /\ v \in Migrations(p)
      BY <1>2, <2>1, <2>2
    <3>3. /\ todo'[p] \subseteq Migrations(p)
          /\ \A u \in todo'[p] : known'[p][u] = applied'[u]
      BY <1>2, <2>1, <3>2
    <3>4. \A u \in todo'[p] : u < cur'[p]
      BY <2>1, <2>3
    <3> QED BY <1>1, <2>1, <2>2, <3>1, <3>2, <3>3, <3>4 DEF LoopOf, InApply
  <2>7. VisitedOf(p)'
    BY <1>1, <1>2, <2>1, <2>3, <2>4, <2>5 DEF VisitedOf, InLoop, Migrations
  <2> QED BY <2>6, <2>7
<1> QED BY <1>3, <1>4 DEF StepDown

(* Inside applyOne, before the COMMIT. *)
LEMMA ApplyKeeps ==
    ASSUME MigrateInv, NEW p \in Procs, ExecBody(p) \/ Record(p)
    PROVE  LoopOf(p)' /\ VisitedOf(p)'
<1> USE DEF MigrateInv
<1>1. LoopOf(p) /\ VisitedOf(p)
  BY DEF LoopState, Visited
<1>2. CASE Return(p, "error")
  BY <1>2, ReturnKeeps
<1>3. CASE ~Return(p, "error")
  <2>1. /\ pc[p] \in InApply /\ pc'[p] \in InApply
        /\ known' = known /\ todo' = todo /\ cur' = cur
        /\ applied' = applied /\ cmd' = cmd
    BY <1>3 DEF ExecBody, Record, At, Goto, TypeOK, database, InApply
  <2> QED BY <1>1, <2>1 DEF LoopOf, VisitedOf, InApply, InLoop, Migrations, Checksum
<1> QED BY <1>2, <1>3

(* After the COMMIT the version in hand has been visited. *)
LEMMA CommitKeeps ==
    ASSUME MigrateInv, NEW p \in Procs, Commit(p)
    PROVE  LoopOf(p)' /\ VisitedOf(p)'
<1> USE DEF MigrateInv
<1>1. LoopOf(p) /\ VisitedOf(p) /\ Writes(p)
  BY DEF LoopState, Visited, Commit, At, Writes
<1>2. /\ pc'[p] = "loop" /\ cur'[p] = 0
      /\ known' = known /\ todo' = todo /\ cmd' = cmd
  BY DEF Commit, Goto, TypeOK
<1>3. /\ todo[p] \subseteq Migrations(p) /\ Migrations(p) \subseteq Versions
      /\ cur[p] \in Migrations(p) /\ cur[p] \in Int
      /\ cmd[p].op \in {"up", "down"}
      /\ \A u \in todo[p] : u \in Int
  BY <1>1, Loaded, WrittenRow, VersionNumbers DEF LoopOf, Writes, InLoop
<1>4. cur[p] \notin todo[p]
  BY <1>1, <1>3 DEF LoopOf, Writes, InApply
<1>5. Migrations(p)' = Migrations(p) /\ \A u \in Versions : Checksum(p, u)' = Checksum(p, u)
  BY <1>2 DEF Migrations, Checksum
<1>6. LoopOf(p)'
  <2>1. \A u \in todo[p] : known[p][u] = applied'[u]
    BY <1>1, <1>3, <1>4, WrittenRow DEF LoopOf, Writes, InLoop
  <2> QED BY <1>2, <1>3, <1>5, <2>1 DEF LoopOf, InApply
<1>7. VisitedOf(p)'
  <2>1. ASSUME NEW u \in Migrations(p) \ todo[p]
        PROVE  /\ cmd[p].op = "up" => applied'[u] = Checksum(p, u)
               /\ cmd[p].op = "down" => applied'[u] = NoSum
    <3>1. CASE u = cur[p]
      BY <1>1, <3>1, WrittenRow
    <3>2. CASE u # cur[p]
      <4>1. applied'[u] = applied[u]
        BY <1>1, <1>3, <3>2, WrittenRow
      <4> QED BY <1>1, <3>2, <4>1 DEF VisitedOf, Writes, InLoop
    <3> QED BY <3>1, <3>2
  <2> QED BY <1>2, <1>3, <1>5, <2>1 DEF VisitedOf
<1> QED BY <1>6, <1>7

(* A fault stops the process where it is. *)
LEMMA CrashKeeps ==
    ASSUME MigrateInv, NEW p \in Procs, Crash(p)
    PROVE  LoopOf(p)' /\ VisitedOf(p)'
<1>1. LoopOf(p) /\ VisitedOf(p)
  BY DEF MigrateInv, LoopState, Visited
<1> QED BY <1>1 DEF Crash, LoopOf, VisitedOf, Migrations, Checksum, database

(* Every step of a process leaves its own loop in order. *)
LEMMA OwnKeep ==
    ASSUME MigrateInv, NEW p \in Procs, Acts(p)
    PROVE  LoopOf(p)' /\ VisitedOf(p)'
<1>1. CASE Lock(p) \/ StartVersion(p) \/ EnsureTable(p) \/ CreateTable(p) \/ Version(p)
  BY <1>1, BeforeLoop
<1>2. CASE ReadApplied(p)
  BY <1>2, ReadKeeps
<1>3. CASE \E v \in Versions : StepUp(p, v) \/ StepDown(p, v)
  BY <1>3, UpKeeps, DownKeeps
<1>4. CASE EndLoop(p) \/ OrphanAbort(p) \/ OrphanCommit(p)
  BY <1>4, ReturnKeeps DEF EndLoop, OrphanAbort, OrphanCommit, MigrateInv
<1>5. CASE ExecBody(p) \/ Record(p)
  BY <1>5, ApplyKeeps
<1>6. CASE Commit(p) \/ Crash(p)
  BY <1>6, CommitKeeps, CrashKeeps
<1> QED BY <1>1, <1>2, <1>3, <1>4, <1>5, <1>6 DEF Acts, Step

-----------------------------------------------------------------------------
(* Before anything runs, what is applied was applied and recorded. *)
LEMMA InitHolds == Init => MigrateInv
<1> SUFFICES ASSUME Init PROVE MigrateInv
  OBVIOUS
<1>1. TypeOK
  <2>1. None \in [Versions -> Sums \cup {NoSum}]
    BY DEF None
  <2>2. /\ schema \in [Versions -> Int] /\ count \in [Procs -> Nat]
        /\ cur \in [Procs -> Versions \cup {0}]
    BY DEF Init
  <2>3. /\ pc \in [Procs -> Steps]
        /\ result \in [Procs -> {"none", "ok", "error"}]
    BY DEF Init, Steps
  <2>4. /\ table \in BOOLEAN /\ holder \in Procs \cup {Nobody}
        /\ cmd \in [Procs -> Commands] /\ lost \subseteq Procs
    BY DEF Init
  <2>5. /\ todo \in [Procs -> SUBSET Versions]
        /\ known \in [Procs -> [Versions -> Sums \cup {NoSum}]]
    BY <2>1 DEF Init
  <2>6. applied \in [Versions -> Sums \cup {NoSum}]
    <3>1. ASSUME NEW b \in Builds, NEW n \in Versions
          PROVE  MigratedTo(b, n) \in [Versions -> Sums \cup {NoSum}]
      <4>1. Files[b] \in [Versions -> Sums \cup {NoSum}]
        BY MigrateAssumption
      <4> QED BY <4>1 DEF MigratedTo
    <3> QED BY <2>1, <3>1 DEF Init
  <2> QED BY <2>2, <2>3, <2>4, <2>5, <2>6 DEF TypeOK
<1>2. Locked /\ LoopState /\ Visited
  BY DEF Init, Locked, LoopState, LoopOf, Visited, VisitedOf, InLoop, InApply
<1>3. RecordsMatchSchema
  BY DEF Init, RecordsMatchSchema
<1> QED BY <1>1, <1>2, <1>3 DEF MigrateInv

(* A step of a process keeps the invariant. *)
LEMMA StepKeeps ==
    ASSUME MigrateInv, NEW p \in Procs, Acts(p)
    PROVE  MigrateInv'
<1>1. TypeOK'
  BY TypeStep DEF MigrateInv
<1>2. Locked'
  BY LockedStep DEF MigrateInv
<1>3. LoopState' /\ Visited'
  BY OwnKeep, OthersKeep DEF LoopState, Visited
<1>4. RecordsMatchSchema'
  BY RecordsStep
<1> QED BY <1>1, <1>2, <1>3, <1>4 DEF MigrateInv

(* A step that changes nothing keeps it. *)
LEMMA StutterKeeps ==
    ASSUME MigrateInv, UNCHANGED vars
    PROVE  MigrateInv'
BY DEF MigrateInv, vars, database, TypeOK, Locked, LoopState, LoopOf, Visited, VisitedOf,
       RecordsMatchSchema, Migrations, Checksum

(* The invariant is inductive. *)
LEMMA NextKeeps == MigrateInv /\ [Next]_vars => MigrateInv'
BY StepKeeps, StutterKeeps DEF Next, Acts, Finished

(* Between any two statements of any processes the lock has one owner, what
   the owner read is still true and the bookkeeping is the schema. *)
THEOREM MigrateInvariance == Spec => []MigrateInv
BY InitHolds, NextKeeps, PTL DEF Spec

(* No migration is ever applied twice, rolled back twice or in effect without
   its row, whatever the builds, the interleaving and the crashes. *)
THEOREM SchemaRecorded == Spec => []RecordsMatchSchema
<1>1. MigrateInv => RecordsMatchSchema
  BY DEF MigrateInv
<1> QED BY <1>1, MigrateInvariance, PTL

(* Up commits a migration only on top of its own build's earlier ones. *)
THEOREM UpOrdered == Spec => UpBuildsOnItsOwn
<1> DEFINE A == \A v \in Versions, p \in Procs :
            applied[v] = NoSum /\ applied'[v] # NoSum /\ cur[p] = v /\ pc[p] = "commit"
                => \A u \in Migrations(p) : u < v => applied[u] = Checksum(p, u)
<1>1. MigrateInv /\ [Next]_vars => [A]_vars
  <2> SUFFICES ASSUME MigrateInv, Next,
                      NEW v \in Versions, NEW p \in Procs,
                      applied[v] = NoSum, applied'[v] # NoSum, cur[p] = v, pc[p] = "commit",
                      NEW u \in Migrations(p), u < v
               PROVE  applied[u] = Checksum(p, u)
    OBVIOUS
  <2>1. LoopOf(p) /\ VisitedOf(p) /\ cmd[p].op = "up"
    <3>1. LoopOf(p) /\ VisitedOf(p) /\ cmd[p].op \in {"up", "down"}
      BY Loaded DEF MigrateInv, LoopState, Visited, Locked, InLoop
    <3> QED BY <3>1 DEF LoopOf, InApply
  <2>2. u \notin todo[p] /\ u # cur[p]
    BY <2>1, Loaded, VersionNumbers DEF LoopOf, InApply, MigrateInv
  <2> QED BY <2>1, <2>2 DEF VisitedOf, InLoop
<1> QED BY <1>1, MigrateInvariance, PTL DEF Spec, UpBuildsOnItsOwn

(* Down removes the newest applied migration that its build knows. *)
THEOREM DownOrdered == Spec => DownTakesNewestKnown
<1> DEFINE A == \A p \in Procs, v \in Versions :
            RollsBack(p, v) => \A u \in Migrations(p) : u > v => applied[u] = NoSum
<1>1. MigrateInv /\ [Next]_vars => [A]_vars
  <2> SUFFICES ASSUME MigrateInv, Next,
                      NEW p \in Procs, NEW v \in Versions, RollsBack(p, v),
                      NEW u \in Migrations(p), u > v
               PROVE  applied[u] = NoSum
    OBVIOUS
  <2>1. pc[p] = "commit" /\ cur[p] = v /\ applied[v] # NoSum
    BY DEF RollsBack
  <2>2. LoopOf(p) /\ VisitedOf(p) /\ cmd[p].op = "down"
    <3>1. LoopOf(p) /\ VisitedOf(p) /\ cmd[p].op \in {"up", "down"}
      BY <2>1, Loaded DEF MigrateInv, LoopState, Visited, Locked, InLoop
    <3> QED BY <2>1, <3>1 DEF LoopOf, InApply
  <2>3. u \notin todo[p] /\ u # cur[p]
    BY <2>1, <2>2, Loaded, VersionNumbers DEF LoopOf, InApply, MigrateInv
  <2> QED BY <2>1, <2>2, <2>3 DEF VisitedOf, InLoop
<1> QED BY <1>1, MigrateInvariance, PTL DEF Spec, DownTakesNewestKnown

(* An Up that returns without an error has met no process that undid or
   preceded any of its work: its build's migrations are all in place. *)
THEOREM UpComplete == Spec => UpLeavesNothingPending
<1> DEFINE A == \A p \in Procs :
            cmd[p].op = "up" /\ result[p] = "none" /\ result'[p] = "ok"
                => \A v \in Migrations(p) : applied[v] = Checksum(p, v)
<1>1. MigrateInv /\ [Next]_vars => [A]_vars
  <2> SUFFICES ASSUME MigrateInv, Next, NEW p \in Procs, cmd[p].op = "up",
                      result[p] = "none", result'[p] = "ok", NEW v \in Migrations(p)
               PROVE  applied[v] = Checksum(p, v)
    OBVIOUS
  <2>1. EndLoop(p)
    <3>1. PICK q \in Procs : Acts(q)
      BY DEF Next, Finished, Acts, vars
    <3>2. result \in [Procs -> {"none", "ok", "error"}]
      BY DEF MigrateInv, TypeOK
    <3> USE DEF Return, Apply
    <3>3. CASE Lock(q) \/ StartVersion(q) \/ EnsureTable(q) \/ CreateTable(q)
      BY <3>2, <3>3 DEF Lock, StartVersion, EnsureTable, CreateTable
    <3>4. CASE ReadApplied(q) \/ Version(q) \/ EndLoop(q)
      BY <3>2, <3>4 DEF ReadApplied, Version, EndLoop
    <3>5. CASE \E w \in Versions : StepUp(q, w) \/ StepDown(q, w)
      BY <3>2, <3>5 DEF StepUp, StepDown
    <3>6. CASE ExecBody(q) \/ Record(q) \/ Commit(q)
      BY <3>2, <3>6 DEF ExecBody, Record, Commit
    <3>7. CASE OrphanAbort(q) \/ OrphanCommit(q) \/ Crash(q)
      BY <3>2, <3>7 DEF OrphanAbort, OrphanCommit, Crash
    <3> QED BY <3>1, <3>3, <3>4, <3>5, <3>6, <3>7 DEF Acts, Step
  <2>2. LoopOf(p) /\ VisitedOf(p) /\ pc[p] = "loop" /\ UpStops(p) = {}
    BY <2>1 DEF MigrateInv, LoopState, Visited, EndLoop, At
  <2>3. CASE v \in todo[p]
    BY <2>2, <2>3 DEF LoopOf, InLoop, UpStops, Edited
  <2>4. CASE v \notin todo[p]
    <3>1. v # cur[p]
      BY <2>2, Loaded, VersionNumbers DEF LoopOf, InApply, MigrateInv
    <3> QED BY <2>2, <2>4, <3>1 DEF VisitedOf, InLoop
  <2> QED BY <2>3, <2>4
<1> QED BY <1>1, MigrateInvariance, PTL DEF Spec, UpLeavesNothingPending
=============================================================================
