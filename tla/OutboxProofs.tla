---------------------------- MODULE OutboxProofs ----------------------------
(***************************************************************************)
(* Proofs about Outbox, for every set of events, relays, replays and       *)
(* readers, any batch size, any number of attempts and any number of       *)
(* faults: OutboxInv is inductive, and the safety properties follow.       *)
(***************************************************************************)
EXTENDS Outbox, WellFoundedInduction, TLAPS

(* The session of x is left alone, and so is that of every worker but w. *)
Keeps(x) ==
    /\ pc'[x] = pc[x] /\ scan'[x] = scan[x] /\ batch'[x] = batch[x]
    /\ result'[x] = result[x] /\ settled'[x] = settled[x] /\ locked'[x] = locked[x]
    /\ x \in lost' <=> x \in lost

OthersKeep(w) == \A x \in Workers \ {w} : Keeps(x)

(* The rows a session holds are events, whatever is claimed in them. *)
LEMMA HeldRows ==
    ASSUME OutboxInv, NEW w \in Workers, w \notin lost
    PROVE  /\ \A i \in DOMAIN batch[w] : batch[w][i].id \in locked[w]
           /\ \A o \in settled[w] : o.id \in locked[w]
           /\ locked[w] \subseteq Events
  BY DEF OutboxInv, SessionOK, LocksWhatItClaimed, Claimed, Attempted, TypeOK

(* A session that a step leaves alone stays sound, as long as the step touches
   no row the session holds. *)
LEMMA SessionKept ==
    ASSUME OutboxInv, NEW x \in Workers, Keeps(x), accepted \subseteq accepted',
           \A e \in locked[x] : attempts'[e] = attempts[e] /\ status'[e] = status[e]
    PROVE  SessionOK(x)'
<1>1. SessionOK(x)
  BY DEF OutboxInv
<1>2. /\ pc'[x] = pc[x] /\ scan'[x] = scan[x] /\ batch'[x] = batch[x]
      /\ result'[x] = result[x] /\ settled'[x] = settled[x] /\ locked'[x] = locked[x]
      /\ x \in lost' <=> x \in lost
  BY DEF Keeps
<1>3. Located(x)'
  BY <1>1, <1>2 DEF SessionOK, Located
<1>4. LocksWhatItClaimed(x)'
  BY <1>1, <1>2 DEF SessionOK, LocksWhatItClaimed, Claimed, Attempted
<1>5. ClaimsOnce(x)'
  BY <1>1, <1>2 DEF SessionOK, ClaimsOnce, Claimed, Attempted
<1>6. ReadIsCurrent(x)'
  <2>1. x \in lost => settled[x] = {}
    BY <1>1 DEF SessionOK, LocksWhatItClaimed
  <2>2. ReadIsCurrent(x)
    BY <1>1 DEF SessionOK
  <2> QED BY <1>2, <2>1, <2>2, HeldRows DEF ReadIsCurrent
<1>7. SuccessIsReal(x)'
  BY <1>1, <1>2 DEF SessionOK, SuccessIsReal, Current
<1> QED BY <1>3, <1>4, <1>5, <1>6, <1>7 DEF SessionOK

(* So do the sessions of the workers that did not take the step. *)
LEMMA OthersSound ==
    ASSUME OutboxInv, NEW w \in Workers, OthersKeep(w),
           accepted \subseteq accepted',
           \A x \in Workers \ {w} : \A e \in locked[x] :
                attempts'[e] = attempts[e] /\ status'[e] = status[e]
    PROVE  \A x \in Workers \ {w} : SessionOK(x)'
  BY SessionKept DEF OthersKeep

(* The tables do not change: what is left to show is the worker's own part. *)
LEMMA QuietStep ==
    ASSUME OutboxInv, NEW w \in Workers, OthersKeep(w),
           UNCHANGED <<tables, view>>, accepted \subseteq accepted',
           TypeOK', SessionOK(w)',
           \A x \in Workers \ {w} : locked'[w] \cap locked[x] = {}
    PROVE  OutboxInv'
<1>1. \A x \in Workers : SessionOK(x)'
  BY OthersSound DEF tables
<1>2. RowsExclusive'
  BY DEF OutboxInv, RowsExclusive, OthersKeep, Keeps
<1>3. NothingLost' /\ HistoryExplainsStatus' /\ HistoryNeedsEvent' /\ ViewsBehind'
  BY DEF OutboxInv, NothingLost, HistoryExplainsStatus, HistoryNeedsEvent, ViewsBehind, tables
<1> QED BY <1>1, <1>2, <1>3 DEF OutboxInv

-----------------------------------------------------------------------------
(* Claiming. *)

(* A session without rows is sound wherever it is. *)
LEMMA EmptySession ==
    ASSUME NEW w \in Workers,
           pc'[w] \in {"idle", "begin", "scan", "select", "done"},
           w \in Replayers => pc'[w] \notin {"begin", "scan"},
           w \in Relays => pc'[w] # "select",
           batch'[w] = <<>>, settled'[w] = {}, locked'[w] = {}, w \notin lost'
    PROVE  SessionOK(w)'
<1>1. DOMAIN batch'[w] = {} /\ Claimed(w)' = {} /\ Attempted(w)' = {}
  BY DEF Claimed, Attempted
<1>2. Located(w)' /\ LocksWhatItClaimed(w)'
  BY <1>1 DEF Located, LocksWhatItClaimed
<1>3. ClaimsOnce(w)' /\ ReadIsCurrent(w)' /\ SuccessIsReal(w)'
  BY <1>1 DEF ClaimsOnce, ReadIsCurrent, SuccessIsReal
<1> QED BY <1>2, <1>3 DEF SessionOK

(* That is where a session is before it has claimed anything. *)
LEMMA NothingHeld ==
    ASSUME OutboxInv, NEW w \in Workers,
           pc[w] \in {"idle", "begin", "select", "done"} \/ (pc[w] = "scan" /\ batch[w] = <<>>)
    PROVE  batch[w] = <<>> /\ settled[w] = {} /\ locked[w] = {} /\ w \notin lost
  BY DEF OutboxInv, SessionOK, Located, LocksWhatItClaimed, Claimed, Attempted

(* The ticker fires: the relay has nothing in hand. *)
LEMMA TickStep ==
    ASSUME OutboxInv, NEW w \in Workers, Tick(w)
    PROVE  OutboxInv'
<1>1. /\ pc[w] = "idle" /\ pc' = [pc EXCEPT ![w] = "begin"] /\ w \in Relays
      /\ UNCHANGED <<tables, accepted, scan, batch, result, settled, locked, lost, view, faults>>
  BY DEF Tick, Goto
<1>2. TypeOK'
  BY <1>1 DEF OutboxInv, TypeOK, Steps, tables
<1>3. SessionOK(w)'
  BY <1>1, NothingHeld, EmptySession, OutboxAssumption DEF OutboxInv, TypeOK
<1> QED BY <1>1, <1>2, <1>3, QuietStep DEF OthersKeep, Keeps, OutboxInv, TypeOK, RowsExclusive

(* BEGIN and the snapshot. *)
LEMMA StartBatchStep ==
    ASSUME OutboxInv, NEW w \in Workers, StartBatch(w)
    PROVE  OutboxInv'
<1>1. /\ pc[w] = "begin" /\ pc' = [pc EXCEPT ![w] = "scan"]
      /\ scan' = [scan EXCEPT ![w] = {e \in Events : Eligible(e)}]
      /\ UNCHANGED <<tables, accepted, batch, result, settled, locked, lost, view, faults>>
  BY DEF StartBatch, Goto
<1>2. TypeOK'
  BY <1>1 DEF OutboxInv, TypeOK, Steps, tables
<1>3. SessionOK(w)'
  <2>1. w \notin Replayers
    BY <1>1 DEF OutboxInv, SessionOK, Located
  <2> QED BY <1>1, <2>1, NothingHeld, EmptySession DEF OutboxInv, TypeOK
<1> QED BY <1>1, <1>2, <1>3, QuietStep DEF OthersKeep, Keeps, OutboxInv, TypeOK, RowsExclusive

(* What Append does to the rows of a batch. *)
LEMMA AppendedRow ==
    ASSUME NEW S, NEW b \in Seq(S), NEW r \in S
    PROVE  /\ DOMAIN Append(b, r) = DOMAIN b \cup {Len(b) + 1}
           /\ Len(b) + 1 \notin DOMAIN b
           /\ \A i \in DOMAIN b : Append(b, r)[i] = b[i]
           /\ Append(b, r)[Len(b) + 1] = r
           /\ Append(b, r) # <<>>
  OBVIOUS

(* SKIP LOCKED: a row is claimed when it is free and still pending in its
   current version, and is then held. *)
LEMMA ScanRowStep ==
    ASSUME OutboxInv, NEW w \in Workers, ScanRow(w)
    PROVE  OutboxInv'
<1>1. PICK e \in scan[w] :
        /\ scan' = [scan EXCEPT ![w] = @ \ {e}]
        /\ IF StillClaimable(w, e)
           THEN /\ batch' = [batch EXCEPT ![w] = Append(@, Row(e))]
                /\ locked' = [locked EXCEPT ![w] = @ \cup {e}]
           ELSE UNCHANGED <<batch, locked>>
  BY DEF ScanRow
<1>2. /\ pc[w] = "scan"
      /\ UNCHANGED <<tables, accepted, pc, result, settled, lost, view, faults>>
  BY DEF ScanRow
<1>3. /\ e \in Events /\ Row(e) \in [id : Events, attempts : Nat]
      /\ batch[w] \in Seq([id : Events, attempts : Nat])
      /\ SessionOK(w) /\ w \notin lost /\ settled[w] = {} /\ locked[w] = Claimed(w)
  <2>1. e \in Events
    BY <1>1 DEF OutboxInv, TypeOK
  <2>2. attempts[e] \in Nat
    BY <2>1 DEF OutboxInv, TypeOK
  <2>3. SessionOK(w) /\ batch[w] \in Seq([id : Events, attempts : Nat])
    BY DEF OutboxInv, TypeOK
  <2>4. w \notin lost /\ settled[w] = {}
    BY <1>2, <2>3 DEF SessionOK, Located
  <2>5. locked[w] = Claimed(w)
    BY <2>3, <2>4 DEF SessionOK, LocksWhatItClaimed, Attempted
  <2> QED BY <2>1, <2>2, <2>3, <2>4, <2>5 DEF Row
<1>4. CASE StillClaimable(w, e)
  <2>1. TypeOK'
    <3>1. batch' \in [Workers -> Seq([id : Events, attempts : Nat])]
      <4>1. Append(batch[w], Row(e)) \in Seq([id : Events, attempts : Nat])
        BY <1>3
      <4> QED BY <1>1, <1>4, <4>1 DEF OutboxInv, TypeOK
    <3>2. scan' \in [Workers -> SUBSET Events]
      BY <1>1 DEF OutboxInv, TypeOK
    <3>3. locked' \in [Workers -> SUBSET Events]
      <4>1. locked[w] \cup {e} \in SUBSET Events
        BY <1>3 DEF OutboxInv, TypeOK
      <4> QED BY <1>1, <1>4, <4>1 DEF OutboxInv, TypeOK
    <3> QED BY <1>2, <3>1, <3>2, <3>3 DEF OutboxInv, TypeOK, tables
  <2>2. \A x \in Workers \ {w} : locked'[w] \cap locked[x] = {}
    BY <1>1, <1>4 DEF StillClaimable, Unlocked, OutboxInv, RowsExclusive, TypeOK
  <2>3. OthersKeep(w)
    BY <1>1, <1>2, <1>4 DEF OthersKeep, Keeps, OutboxInv, TypeOK
  <2>4. /\ DOMAIN batch'[w] = DOMAIN batch[w] \cup {Len(batch[w]) + 1}
        /\ Len(batch[w]) + 1 \notin DOMAIN batch[w]
        /\ \A i \in DOMAIN batch[w] : batch'[w][i] = batch[w][i]
        /\ batch'[w][Len(batch[w]) + 1] = Row(e)
        /\ batch'[w] # <<>>
    <3>1. batch'[w] = Append(batch[w], Row(e))
      BY <1>1, <1>4 DEF OutboxInv, TypeOK
    <3> QED BY <1>3, <3>1, AppendedRow
  <2>5. Claimed(w)' = Claimed(w) \cup {e}
    BY <2>4 DEF Claimed, Row
  <2>6. Located(w)'
    BY <1>2, <1>3 DEF SessionOK, Located
  <2>7. LocksWhatItClaimed(w)'
    BY <1>1, <1>2, <1>3, <1>4, <2>5 DEF LocksWhatItClaimed, Attempted, OutboxInv, TypeOK
  <2>8. e \notin Claimed(w) /\ (\A i \in DOMAIN batch[w] : batch[w][i].id # e)
    BY <1>2, <1>3 DEF SessionOK, ClaimsOnce, Claimed
  <2>9. ClaimsOnce(w)'
    <3>1. \A i, j \in DOMAIN batch'[w] : batch'[w][i].id = batch'[w][j].id => i = j
      BY <1>3, <2>4, <2>8 DEF SessionOK, ClaimsOnce, Row
    <3>2. Claimed(w)' \cap scan'[w] = {}
      BY <1>1, <1>2, <1>3, <2>5 DEF SessionOK, ClaimsOnce, OutboxInv, TypeOK
    <3> QED BY <1>2, <1>3, <3>1, <3>2 DEF ClaimsOnce, Attempted
  <2>10. ReadIsCurrent(w)'
    <3>1. status[e] = "pending"
      BY <1>4 DEF StillClaimable, Eligible
    <3>2. locked'[w] = locked[w] \cup {e}
      BY <1>1, <1>4 DEF OutboxInv, TypeOK
    <3>3. Row(e).id = e /\ Row(e).attempts = attempts[e]
      BY DEF Row
    <3> QED BY <1>2, <1>3, <2>4, <3>1, <3>2, <3>3 DEF SessionOK, ReadIsCurrent, tables
  <2>11. SuccessIsReal(w)'
    BY <1>2, <1>3 DEF SuccessIsReal
  <2> QED BY <1>2, <2>1, <2>2, <2>3, <2>6, <2>7, <2>9, <2>10, <2>11, QuietStep DEF SessionOK
<1>5. CASE ~StillClaimable(w, e)
  <2>1. TypeOK'
    BY <1>1, <1>2, <1>5 DEF OutboxInv, TypeOK, tables
  <2>2. SessionOK(w)'
    <3>1. Claimed(w)' = Claimed(w) /\ Attempted(w)' = Attempted(w) /\ scan'[w] \subseteq scan[w]
      BY <1>1, <1>2, <1>5 DEF Claimed, Attempted, OutboxInv, TypeOK
    <3>2. Located(w)' /\ LocksWhatItClaimed(w)' /\ ClaimsOnce(w)'
      BY <1>1, <1>2, <1>3, <1>5, <3>1 DEF SessionOK, Located, LocksWhatItClaimed, ClaimsOnce
    <3>3. ReadIsCurrent(w)' /\ SuccessIsReal(w)'
      BY <1>1, <1>2, <1>3, <1>5 DEF SessionOK, ReadIsCurrent, SuccessIsReal, tables
    <3> QED BY <3>2, <3>3 DEF SessionOK
  <2> QED BY <1>1, <1>2, <1>5, <2>1, <2>2, QuietStep DEF OthersKeep, Keeps, OutboxInv, TypeOK, RowsExclusive
<1> QED BY <1>4, <1>5

(* The batch is read. *)
LEMMA EndScanStep ==
    ASSUME OutboxInv, NEW w \in Workers, EndScan(w)
    PROVE  OutboxInv'
<1>1. /\ pc[w] = "scan"
      /\ pc' = [pc EXCEPT ![w] = IF batch[w] = <<>> THEN "idle" ELSE "publish"]
      /\ scan' = [scan EXCEPT ![w] = {}]
      /\ UNCHANGED <<tables, accepted, batch, result, settled, locked, lost, view, faults>>
  BY DEF EndScan, Goto
<1>2. TypeOK'
  BY <1>1 DEF OutboxInv, TypeOK, Steps, tables
<1>3. SessionOK(w)'
  <2>1. CASE batch[w] = <<>>
    BY <1>1, <2>1, NothingHeld, EmptySession DEF OutboxInv, TypeOK
  <2>2. CASE batch[w] # <<>>
    <3>1. SessionOK(w) /\ pc'[w] = "publish" /\ Claimed(w)' = Claimed(w) /\ Attempted(w)' = Attempted(w)
      BY <1>1, <2>2 DEF OutboxInv, TypeOK, Claimed, Attempted
    <3>2. settled[w] = {} /\ w \notin lost
      BY <1>1 DEF OutboxInv, SessionOK, Located
    <3>3. Located(w)' /\ LocksWhatItClaimed(w)' /\ ClaimsOnce(w)'
      BY <1>1, <2>2, <3>1 DEF SessionOK, Located, LocksWhatItClaimed, ClaimsOnce
    <3>4. ReadIsCurrent(w)' /\ SuccessIsReal(w)'
      BY <1>1, <3>1, <3>2 DEF SessionOK, ReadIsCurrent, SuccessIsReal, tables
    <3> QED BY <3>3, <3>4 DEF SessionOK
  <2> QED BY <2>1, <2>2
<1> QED BY <1>1, <1>2, <1>3, QuietStep DEF OthersKeep, Keeps, OutboxInv, TypeOK, RowsExclusive

(* A replay request arrives. *)
LEMMA ReplayStep ==
    ASSUME OutboxInv, NEW w \in Workers, NEW e \in Events, Replay(w, e)
    PROVE  OutboxInv'
<1>1. /\ w \in Replayers /\ pc[w] = "idle" /\ pc' = [pc EXCEPT ![w] = "select"]
      /\ scan' = [scan EXCEPT ![w] = {e}]
      /\ UNCHANGED <<tables, accepted, batch, result, settled, locked, lost, view, faults>>
  BY DEF Replay, Goto
<1>2. TypeOK'
  BY <1>1 DEF OutboxInv, TypeOK, Steps, tables
<1>3. SessionOK(w)'
  BY <1>1, NothingHeld, EmptySession, OutboxAssumption DEF OutboxInv, TypeOK
<1> QED BY <1>1, <1>2, <1>3, QuietStep DEF OthersKeep, Keeps, OutboxInv, TypeOK, RowsExclusive

(* SELECT ... FOR UPDATE has waited for the row, whatever its status. *)
LEMMA SelectForReplayStep ==
    ASSUME OutboxInv, NEW w \in Workers, SelectForReplay(w)
    PROVE  OutboxInv'
<1>1. PICK e \in scan[w] :
        /\ Unlocked(w, e)
        /\ IF status[e] = "absent"
           THEN Goto(w, "done") /\ UNCHANGED <<batch, locked>>
           ELSE /\ batch' = [batch EXCEPT ![w] = <<Row(e)>>]
                /\ locked' = [locked EXCEPT ![w] = {e}]
                /\ Goto(w, "publish")
  BY DEF SelectForReplay
<1>2. /\ pc[w] = "select" /\ scan' = [scan EXCEPT ![w] = {}]
      /\ UNCHANGED <<tables, accepted, result, settled, lost, view, faults>>
  BY DEF SelectForReplay
<1>3. batch[w] = <<>> /\ settled[w] = {} /\ locked[w] = {} /\ w \notin lost
  BY <1>2, NothingHeld
<1>4. e \in Events /\ scan' \in [Workers -> SUBSET Events]
  BY <1>1, <1>2 DEF OutboxInv, TypeOK
<1>5. CASE status[e] = "absent"
  <2>1. pc' = [pc EXCEPT ![w] = "done"] /\ UNCHANGED <<batch, locked>>
    BY <1>1, <1>5 DEF Goto
  <2>2. TypeOK'
    BY <1>2, <1>4, <2>1 DEF OutboxInv, TypeOK, tables, Steps
  <2>3. SessionOK(w)'
    BY <1>2, <1>3, <2>1, EmptySession DEF OutboxInv, TypeOK
  <2> QED BY <1>2, <1>3, <2>1, <2>2, <2>3, QuietStep DEF OthersKeep, Keeps, OutboxInv, TypeOK
<1>6. CASE status[e] # "absent"
  <2>1. /\ pc' = [pc EXCEPT ![w] = "publish"] /\ batch' = [batch EXCEPT ![w] = <<Row(e)>>]
        /\ locked' = [locked EXCEPT ![w] = {e}]
    BY <1>1, <1>6 DEF Goto
  <2>2. pc'[w] = "publish" /\ batch'[w] = <<Row(e)>> /\ locked'[w] = {e}
    BY <2>1 DEF OutboxInv, TypeOK
  <2>3. TypeOK'
    <3>1. Row(e) \in [id : Events, attempts : Nat]
      BY <1>4 DEF Row, OutboxInv, TypeOK
    <3>2. batch' \in [Workers -> Seq([id : Events, attempts : Nat])]
      <4>1. <<Row(e)>> \in Seq([id : Events, attempts : Nat])
        BY <3>1
      <4> QED BY <2>1, <4>1 DEF OutboxInv, TypeOK
    <3>3. locked' \in [Workers -> SUBSET Events] /\ pc' \in [Workers -> Steps]
      BY <1>4, <2>1 DEF OutboxInv, TypeOK, Steps
    <3> QED BY <1>2, <1>4, <3>2, <3>3 DEF OutboxInv, TypeOK, tables
  <2>4. DOMAIN batch'[w] = {1} /\ batch'[w][1] = Row(e) /\ batch'[w] # <<>>
    BY <2>2
  <2>5. Row(e).id = e /\ Row(e).attempts = attempts[e]
    BY DEF Row
  <2>6. Claimed(w)' = {e} /\ Attempted(w)' = {}
    BY <1>2, <1>3, <2>4, <2>5 DEF Claimed, Attempted
  <2>7. w \notin Relays
    BY <1>2 DEF OutboxInv, SessionOK, Located
  <2>8. Located(w)' /\ LocksWhatItClaimed(w)'
    BY <1>2, <1>3, <2>2, <2>4, <2>6 DEF Located, LocksWhatItClaimed
  <2>9. ClaimsOnce(w)'
    BY <1>2, <1>3, <2>2, <2>4, <2>6 DEF ClaimsOnce
  <2>10. ReadIsCurrent(w)' /\ SuccessIsReal(w)'
    BY <1>2, <1>3, <1>6, <2>2, <2>4, <2>5, <2>7 DEF ReadIsCurrent, SuccessIsReal, tables
  <2>11. SessionOK(w)'
    BY <2>8, <2>9, <2>10 DEF SessionOK
  <2>12. \A x \in Workers \ {w} : locked'[w] \cap locked[x] = {}
    BY <1>1, <2>2 DEF Unlocked
  <2> QED BY <1>2, <2>1, <2>3, <2>11, <2>12, QuietStep DEF OthersKeep, Keeps, OutboxInv, TypeOK
<1> QED BY <1>5, <1>6

-----------------------------------------------------------------------------
(* Publishing and settling. *)

(* The row a worker is at is one it has claimed. *)
LEMMA CurrentRow ==
    ASSUME OutboxInv, NEW w \in Workers, pc[w] \in {"publish", "settle"}
    PROVE  /\ batch[w] \in Seq([id : Events, attempts : Nat]) /\ batch[w] # <<>>
           /\ 1 \in DOMAIN batch[w] /\ Head(batch[w]) = batch[w][1]
           /\ Head(batch[w]) \in [id : Events, attempts : Nat]
           /\ Current(w) \in Events /\ Current(w) = batch[w][1].id
<1>1. batch[w] \in Seq([id : Events, attempts : Nat]) /\ batch[w] # <<>>
  BY DEF OutboxInv, TypeOK, SessionOK, Located
<1>2. 1 \in DOMAIN batch[w] /\ Head(batch[w]) = batch[w][1]
  BY <1>1
<1>3. Head(batch[w]) \in [id : Events, attempts : Nat]
  <2>1. ASSUME NEW S, NEW b \in Seq(S), b # <<>> PROVE Head(b) \in S
    <3>1. Len(b) \in Nat /\ Len(b) # 0 /\ b \in [1..Len(b) -> S]
      BY <2>1
    <3>2. b[1] \in S
      BY <3>1
    <3> QED BY <2>1, <3>2
  <2> QED BY <1>1, <2>1
<1> QED BY <1>1, <1>2, <1>3 DEF Current

(* Publish returns: only a success that the broker has seen is a success. *)
LEMMA PublishStep ==
    ASSUME OutboxInv, NEW w \in Workers, Publish(w)
    PROVE  OutboxInv'
<1>1. PICK ok \in BOOLEAN, taken \in BOOLEAN :
        /\ ok => taken
        /\ result' = [result EXCEPT ![w] = ok]
        /\ accepted' = IF taken THEN accepted \cup {Current(w)} ELSE accepted
  BY DEF Publish
<1>2. /\ pc[w] = "publish" /\ pc' = [pc EXCEPT ![w] = "settle"]
      /\ UNCHANGED <<tables, scan, batch, settled, locked, lost, view, faults>>
  BY DEF Publish, Goto
<1>3. Current(w) \in Events /\ batch[w] # <<>> /\ SessionOK(w)
  BY <1>2, CurrentRow DEF OutboxInv
<1>4. TypeOK'
  <2>1. accepted' \subseteq Events /\ result' \in [Workers -> BOOLEAN]
    BY <1>1, <1>3 DEF OutboxInv, TypeOK
  <2> QED BY <1>2, <2>1 DEF OutboxInv, TypeOK, tables, Steps
<1>5. pc'[w] = "settle" /\ Current(w)' = Current(w) /\ accepted \subseteq accepted'
  BY <1>1, <1>2 DEF OutboxInv, TypeOK, Current
<1>6. result'[w] => Current(w) \in accepted'
  BY <1>1 DEF OutboxInv, TypeOK
<1>7. SessionOK(w)'
  <2>1. Claimed(w)' = Claimed(w) /\ Attempted(w)' = Attempted(w)
    BY <1>2 DEF Claimed, Attempted
  <2>2. Located(w)' /\ LocksWhatItClaimed(w)' /\ ClaimsOnce(w)'
    BY <1>2, <1>3, <1>5, <2>1 DEF SessionOK, Located, LocksWhatItClaimed, ClaimsOnce
  <2>3. ReadIsCurrent(w)'
    BY <1>2, <1>3 DEF SessionOK, ReadIsCurrent, tables
  <2>4. SuccessIsReal(w)'
    BY <1>2, <1>3, <1>5, <1>6 DEF SessionOK, SuccessIsReal
  <2> QED BY <2>2, <2>3, <2>4 DEF SessionOK
<1> QED BY <1>1, <1>2, <1>4, <1>5, <1>7, QuietStep DEF OthersKeep, Keeps, OutboxInv, TypeOK, RowsExclusive

(* What Tail does to the rows of a batch. *)
LEMMA TailRows ==
    ASSUME NEW S, NEW b \in Seq(S), b # <<>>
    PROVE  /\ Tail(b) \in Seq(S)
           /\ \A i \in DOMAIN Tail(b) : i + 1 \in DOMAIN b /\ i + 1 # 1 /\ Tail(b)[i] = b[i + 1]
           /\ \A i \in DOMAIN b : i # 1 => i - 1 \in DOMAIN Tail(b) /\ Tail(b)[i - 1] = b[i]
           /\ Len(b) = 1 <=> Tail(b) = <<>>
           /\ \A i \in DOMAIN Tail(b) : i \in Int
<1>1. Len(b) \in Nat \ {0} /\ DOMAIN b = 1..Len(b)
  OBVIOUS
<1>2. Tail(b) \in Seq(S) /\ Len(Tail(b)) = Len(b) - 1 /\ DOMAIN Tail(b) = 1..(Len(b) - 1)
  BY <1>1
<1>3. \A i \in 1..(Len(b) - 1) : Tail(b)[i] = b[i + 1]
  OBVIOUS
<1>4. Len(b) = 1 <=> Tail(b) = <<>>
  <2>1. \A t \in Seq(S) : t = <<>> <=> Len(t) = 0
    OBVIOUS
  <2>2. Tail(b) = <<>> <=> Len(Tail(b)) = 0
    BY <1>2, <2>1
  <2> QED BY <1>1, <1>2, <2>2
<1> QED BY <1>1, <1>2, <1>3, <1>4

(* The attempt is settled: the row stays held, as an attempt to be recorded. *)
LEMMA SettleAttemptStep ==
    ASSUME OutboxInv, NEW w \in Workers, SettleAttempt(w)
    PROVE  OutboxInv'
<1> DEFINE b == batch[w]
<1> DEFINE o == Outcome(w)
<1>1. /\ pc[w] = "settle" /\ w \notin lost
      /\ settled' = [settled EXCEPT ![w] = @ \cup {o}]
      /\ batch' = [batch EXCEPT ![w] = Tail(@)]
      /\ pc' = [pc EXCEPT ![w] = IF Len(b) = 1 THEN "commit" ELSE "publish"]
      /\ UNCHANGED <<tables, accepted, scan, result, locked, lost, view, faults>>
  BY DEF SettleAttempt, Goto
<1>2. /\ b \in Seq([id : Events, attempts : Nat]) /\ b # <<>>
      /\ 1 \in DOMAIN b /\ Head(b) = b[1]
      /\ b[1] \in [id : Events, attempts : Nat] /\ Current(w) = b[1].id
  BY <1>1, CurrentRow
<1>3. /\ Tail(b) \in Seq([id : Events, attempts : Nat])
      /\ \A i \in DOMAIN Tail(b) : i + 1 \in DOMAIN b /\ i + 1 # 1 /\ Tail(b)[i] = b[i + 1]
      /\ \A i \in DOMAIN b : i # 1 => i - 1 \in DOMAIN Tail(b) /\ Tail(b)[i - 1] = b[i]
      /\ Len(b) = 1 <=> Tail(b) = <<>>
      /\ \A i \in DOMAIN Tail(b) : i \in Int
  BY <1>2, TailRows
<1>4. /\ o.id = b[1].id /\ o.attempts = b[1].attempts + 1 /\ o.ok = result[w]
      /\ o \in [id : Events, attempts : Nat, ok : BOOLEAN]
  BY <1>2 DEF Outcome, OutboxInv, TypeOK
<1>5. /\ batch'[w] = Tail(b) /\ settled'[w] = settled[w] \cup {o}
      /\ pc'[w] = IF Len(b) = 1 THEN "commit" ELSE "publish"
  BY <1>1 DEF OutboxInv, TypeOK
<1> HIDE DEF o, b
<1>6. TypeOK'
  <2>1. batch' \in [Workers -> Seq([id : Events, attempts : Nat])]
    BY <1>1, <1>3 DEF OutboxInv, TypeOK, b
  <2>2. settled' \in [Workers -> SUBSET [id : Events, attempts : Nat, ok : BOOLEAN]]
    <3>1. settled[w] \cup {o} \in SUBSET [id : Events, attempts : Nat, ok : BOOLEAN]
      BY <1>4 DEF OutboxInv, TypeOK
    <3> QED BY <1>1, <3>1 DEF OutboxInv, TypeOK
  <2>3. pc' \in [Workers -> Steps]
    BY <1>1 DEF OutboxInv, TypeOK, Steps
  <2> QED BY <1>1, <2>1, <2>2, <2>3 DEF OutboxInv, TypeOK, tables
<1>7. SessionOK(w) /\ w \notin lost
  BY <1>1 DEF OutboxInv
<1>8. Claimed(w) = Claimed(w)' \cup {o.id}
  <2>1. Claimed(w) = {b[i].id : i \in DOMAIN b} /\ Claimed(w)' = {Tail(b)[i].id : i \in DOMAIN Tail(b)}
    BY <1>5 DEF Claimed, b
  <2>2. \A i \in DOMAIN b : b[i].id = o.id \/ b[i].id \in Claimed(w)'
    BY <1>3, <1>4, <2>1
  <2>3. \A i \in DOMAIN Tail(b) : Tail(b)[i].id \in Claimed(w)
    BY <1>3, <2>1
  <2>4. o.id \in Claimed(w)
    BY <1>2, <1>4, <2>1
  <2> QED BY <2>1, <2>2, <2>3, <2>4
<1>9. o.id \notin Claimed(w)'
  <2>1. \A i, j \in DOMAIN b : b[i].id = b[j].id => i = j
    BY <1>7 DEF SessionOK, ClaimsOnce, b
  <2>2. Claimed(w)' = {Tail(b)[i].id : i \in DOMAIN Tail(b)}
    BY <1>5 DEF Claimed
  <2> QED BY <1>2, <1>3, <1>4, <2>1, <2>2
<1>10. Attempted(w)' = Attempted(w) \cup {o.id}
  BY <1>5 DEF Attempted
<1>11. Located(w)'
  BY <1>1, <1>3, <1>5, <1>7 DEF SessionOK, Located
<1>12. LocksWhatItClaimed(w)'
  BY <1>1, <1>7, <1>8, <1>10 DEF SessionOK, LocksWhatItClaimed
<1>13. ClaimsOnce(w)'
  <2>1. \A i, j \in DOMAIN batch'[w] : batch'[w][i].id = batch'[w][j].id => i = j
    <3>1. \A i, j \in DOMAIN b : b[i].id = b[j].id => i = j
      BY <1>7 DEF SessionOK, ClaimsOnce, b
    <3> QED BY <1>3, <1>5, <3>1
  <2>2. \A p, q \in settled'[w] : p.id = q.id => p = q
    <3>1. o.id \notin Attempted(w)
      BY <1>7, <1>8 DEF SessionOK, ClaimsOnce
    <3>2. \A p, q \in settled[w] : p.id = q.id => p = q
      BY <1>7 DEF SessionOK, ClaimsOnce
    <3> QED BY <1>5, <3>1, <3>2 DEF Attempted
  <2>3. Claimed(w)' \cap Attempted(w)' = {}
    BY <1>7, <1>8, <1>9, <1>10 DEF SessionOK, ClaimsOnce
  <2>4. pc'[w] # "scan"
    BY <1>5
  <2> QED BY <2>1, <2>2, <2>3, <2>4 DEF ClaimsOnce
<1>14. ReadIsCurrent(w)'
  <2>1. \A i \in DOMAIN b : b[i].attempts = attempts[b[i].id]
    BY <1>7 DEF SessionOK, ReadIsCurrent, b
  <2>2. \A i \in DOMAIN batch'[w] : batch'[w][i].attempts = attempts[batch'[w][i].id]
    BY <1>3, <1>5, <2>1
  <2>3. \A p \in settled'[w] : p.attempts = attempts[p.id] + 1
    BY <1>2, <1>4, <1>5, <1>7, <2>1 DEF SessionOK, ReadIsCurrent
  <2> QED BY <1>1, <1>7, <2>2, <2>3 DEF SessionOK, ReadIsCurrent, tables
<1>15. SuccessIsReal(w)'
  <2>1. o.ok => o.id \in accepted
    BY <1>1, <1>2, <1>4, <1>7 DEF SessionOK, SuccessIsReal
  <2> QED BY <1>1, <1>5, <1>7, <2>1 DEF SessionOK, SuccessIsReal
<1>16. SessionOK(w)'
  BY <1>11, <1>12, <1>13, <1>14, <1>15 DEF SessionOK
<1> QED BY <1>1, <1>6, <1>16, QuietStep DEF OthersKeep, Keeps, OutboxInv, TypeOK, RowsExclusive

-----------------------------------------------------------------------------
(* The end of a session. *)

(* Where a session has ended, its worker holds nothing. *)
LEMMA EndedSession ==
    ASSUME OutboxInv, NEW w \in Workers, EndSession(w),
           NEW p, p \in {"idle", "begin", "done"}, w \in Replayers => p # "begin", Goto(w, p),
           UNCHANGED <<result>>
    PROVE  /\ SessionOK(w)' /\ OthersKeep(w) /\ locked'[w] = {}
           /\ pc' \in [Workers -> Steps] /\ scan' \in [Workers -> SUBSET Events]
           /\ batch' \in [Workers -> Seq([id : Events, attempts : Nat])]
           /\ settled' \in [Workers -> SUBSET [id : Events, attempts : Nat, ok : BOOLEAN]]
           /\ locked' \in [Workers -> SUBSET Events]
           /\ lost' \subseteq Workers
<1>1. /\ pc' = [pc EXCEPT ![w] = p] /\ scan' = [scan EXCEPT ![w] = {}]
      /\ batch' = [batch EXCEPT ![w] = <<>>] /\ settled' = [settled EXCEPT ![w] = {}]
      /\ locked' = [locked EXCEPT ![w] = {}] /\ lost' = lost \ {w}
  BY DEF EndSession, Goto
<1>2. /\ pc'[w] = p /\ batch'[w] = <<>> /\ settled'[w] = {} /\ locked'[w] = {}
      /\ w \notin lost'
  BY <1>1 DEF OutboxInv, TypeOK
<1>3. SessionOK(w)'
  BY <1>2, EmptySession
<1>4. OthersKeep(w)
  BY <1>1 DEF OthersKeep, Keeps, OutboxInv, TypeOK
<1>5. pc' \in [Workers -> Steps] /\ lost' \subseteq Workers
  BY <1>1 DEF OutboxInv, TypeOK, Steps
<1>6. scan' \in [Workers -> SUBSET Events] /\ locked' \in [Workers -> SUBSET Events]
  BY <1>1 DEF OutboxInv, TypeOK
<1>7. settled' \in [Workers -> SUBSET [id : Events, attempts : Nat, ok : BOOLEAN]]
  BY <1>1 DEF OutboxInv, TypeOK
<1>8. batch' \in [Workers -> Seq([id : Events, attempts : Nat])]
  <2>1. <<>> \in Seq([id : Events, attempts : Nat])
    OBVIOUS
  <2> QED BY <1>1, <2>1 DEF OutboxInv, TypeOK
<1> QED BY <1>2, <1>3, <1>4, <1>5, <1>6, <1>7, <1>8

(* The deferred Rollback: the tables are as they were. *)
LEMMA RollbackStep ==
    ASSUME OutboxInv, NEW w \in Workers, Rollback(w), faults' \in 0..MaxFaults
    PROVE  OutboxInv'
<1>1. /\ Goto(w, Returns(w)) /\ EndSession(w) /\ UNCHANGED result
      /\ UNCHANGED <<tables, accepted, view>>
  BY DEF Rollback
<1>2. Returns(w) \in {"idle", "begin", "done"} /\ Returns(w) # "begin"
  BY DEF Returns
<1>3. /\ SessionOK(w)' /\ OthersKeep(w) /\ locked'[w] = {}
      /\ pc' \in [Workers -> Steps] /\ scan' \in [Workers -> SUBSET Events]
      /\ batch' \in [Workers -> Seq([id : Events, attempts : Nat])]
      /\ settled' \in [Workers -> SUBSET [id : Events, attempts : Nat, ok : BOOLEAN]]
      /\ locked' \in [Workers -> SUBSET Events]
      /\ lost' \subseteq Workers
  BY <1>1, <1>2, EndedSession
<1>4. TypeOK'
  BY <1>1, <1>3 DEF OutboxInv, TypeOK, tables
<1> QED BY <1>1, <1>3, <1>4, QuietStep

(* What the COMMIT of an attempt on e writes. *)
LEMMA RecordedOutcome ==
    ASSUME OutboxInv, NEW w \in Workers, w \notin lost, NEW e \in Events, Settles(w, e)
    PROVE  /\ e \in locked[w]
           /\ OutcomeOf(w, e).id = e
           /\ OutcomeOf(w, e).attempts = attempts[e] + 1
           /\ OutcomeOf(w, e).ok \in BOOLEAN
           /\ OutcomeOf(w, e).ok => e \in accepted
<1> DEFINE o == OutcomeOf(w, e)
<1>1. o \in settled[w] /\ o.id = e
  BY DEF Settles, OutcomeOf
<1>2. o \in [id : Events, attempts : Nat, ok : BOOLEAN]
  BY <1>1 DEF OutboxInv, TypeOK
<1>3. ReadIsCurrent(w) /\ SuccessIsReal(w)
  BY DEF OutboxInv, SessionOK
<1>4. o.attempts = attempts[o.id] + 1 /\ (o.ok => o.id \in accepted)
  BY <1>1, <1>3 DEF ReadIsCurrent, SuccessIsReal
<1>5. o.id \in locked[w]
  BY <1>1, HeldRows
<1> QED BY <1>1, <1>2, <1>4, <1>5

(* The tables after the COMMIT, event by event. *)
LEMMA RecordedRow ==
    ASSUME OutboxInv, NEW w \in Workers, w \notin lost, Record(w), NEW e \in Events,
           UNCHANGED accepted
    PROVE  /\ attempts'[e] \in Nat /\ attempts'[e] >= attempts[e]
           /\ status'[e] \in Statuses /\ due'[e] \in BOOLEAN
           /\ deliveries'[e] \in Seq(DeliveryRows)
           /\ attempts'[e] = Len(deliveries'[e])
           /\ status'[e] = "published" => e \in accepted'
           /\ status'[e] = "published" <=> deliveries'[e] # <<>> /\ Last(deliveries'[e]).ok
           /\ status'[e] = "failed" <=>
                deliveries'[e] # <<>> /\ ~Last(deliveries'[e]).ok /\ attempts'[e] >= MaxAttempts
           /\ status'[e] = "absent" => deliveries'[e] = <<>>
           /\ e \notin locked[w] => attempts'[e] = attempts[e] /\ status'[e] = status[e]
<1>1. /\ attempts[e] \in Nat /\ status[e] \in Statuses /\ due[e] \in BOOLEAN
      /\ deliveries[e] \in Seq(DeliveryRows)
      /\ status[e] = "published" => e \in accepted
      /\ status[e] = "absent" => deliveries[e] = <<>>
  BY DEF OutboxInv, TypeOK, NothingLost, HistoryNeedsEvent
<1>2. /\ attempts[e] = Len(deliveries[e])
      /\ status[e] = "published" <=> deliveries[e] # <<>> /\ Last(deliveries[e]).ok
      /\ status[e] = "failed" <=>
            deliveries[e] # <<>> /\ ~Last(deliveries[e]).ok /\ attempts[e] >= MaxAttempts
  BY DEF OutboxInv, HistoryExplainsStatus
<1>3. CASE ~Settles(w, e)
  <2>1. /\ status'[e] = status[e] /\ attempts'[e] = attempts[e]
        /\ due'[e] = due[e] /\ deliveries'[e] = deliveries[e]
    BY <1>1, <1>3 DEF Record
  <2>2. attempts'[e] >= attempts[e]
    BY <1>1, <2>1
  <2> QED BY <1>1, <1>2, <2>1, <2>2
<1>4. CASE Settles(w, e)
  <2> DEFINE o == OutcomeOf(w, e)
  <2> DEFINE d == [ok |-> o.ok, trigger |-> Trigger(w)]
  <2>1. /\ e \in locked[w] /\ o.id = e /\ o.attempts = attempts[e] + 1
        /\ o.ok \in BOOLEAN /\ (o.ok => e \in accepted)
    BY <1>4, RecordedOutcome
  <2>2. /\ status'[e] = StatusAfter(o) /\ attempts'[e] = o.attempts
        /\ due'[e] = (due[e] /\ o.ok) /\ deliveries'[e] = Append(deliveries[e], d)
    BY <1>4, <2>1 DEF Record, Delivered
  <2>3. d \in DeliveryRows /\ d.ok = o.ok
    BY <2>1 DEF DeliveryRows, Trigger
  <2> HIDE DEF o, d
  <2>4. /\ deliveries'[e] \in Seq(DeliveryRows) /\ deliveries'[e] # <<>>
        /\ Len(deliveries'[e]) = Len(deliveries[e]) + 1
        /\ Last(deliveries'[e]) = d
    BY <1>1, <2>2, <2>3 DEF Last
  <2>5. attempts'[e] = attempts[e] + 1 /\ attempts'[e] = Len(deliveries'[e])
    BY <1>1, <1>2, <2>1, <2>2, <2>4
  <2>6. attempts'[e] \in Nat /\ attempts'[e] >= attempts[e]
    BY <1>1, <2>5
  <2>7. /\ status'[e] \in Statuses /\ status'[e] # "absent"
        /\ status'[e] = "published" <=> o.ok
        /\ status'[e] = "failed" <=> ~o.ok /\ attempts'[e] >= MaxAttempts
    BY <2>2 DEF StatusAfter, Statuses
  <2>8. due'[e] \in BOOLEAN
    BY <2>2
  <2> QED BY <2>1, <2>3, <2>4, <2>5, <2>6, <2>7, <2>8
<1> QED BY <1>3, <1>4

(* What a reader has seen is not overtaken by attempts that only grow. *)
LEMMA ViewsStayBehind ==
    ASSUME OutboxInv, UNCHANGED view,
           \A e \in Events : attempts'[e] \in Nat /\ attempts'[e] >= attempts[e]
    PROVE  ViewsBehind'
<1> SUFFICES ASSUME NEW v \in Readers
             PROVE  /\ Len(view[v]) \in {0, 2, 3}
                    /\ Len(view[v]) = 2 => view[v][1] \in Events /\ view[v][2] <= attempts'[view[v][1]]
                    /\ Len(view[v]) = 3 => view[v][2] <= view[v][3]
  BY DEF ViewsBehind
<1>1. /\ Len(view[v]) \in {0, 2, 3}
      /\ Len(view[v]) = 2 => view[v][1] \in Events /\ view[v][2] <= attempts[view[v][1]]
      /\ Len(view[v]) = 3 => view[v][2] <= view[v][3]
  BY DEF OutboxInv, ViewsBehind
<1>2. Len(view[v]) = 2 => view[v][2] \in Int
  <2>1. view[v] \in Seq(Int)
    BY DEF OutboxInv, TypeOK
  <2> QED BY <2>1
<1>3. \A e \in Events : attempts[e] \in Nat
  BY DEF OutboxInv, TypeOK
<1> QED BY <1>1, <1>2, <1>3

(* The COMMIT of a batch or of a replay: the attempts of the rows it held are
   recorded once, and no other session had anything to do with them. *)
LEMMA RecordStep ==
    ASSUME OutboxInv, NEW w \in Workers, w \notin lost, Record(w), EndSession(w),
           NEW p, p \in {"idle", "begin", "done"}, w \in Replayers => p # "begin", Goto(w, p),
           UNCHANGED <<accepted, result, view>>, faults' \in 0..MaxFaults
    PROVE  OutboxInv'
<1>1. /\ SessionOK(w)' /\ OthersKeep(w) /\ locked'[w] = {}
      /\ pc' \in [Workers -> Steps] /\ scan' \in [Workers -> SUBSET Events]
      /\ batch' \in [Workers -> Seq([id : Events, attempts : Nat])]
      /\ settled' \in [Workers -> SUBSET [id : Events, attempts : Nat, ok : BOOLEAN]]
      /\ locked' \in [Workers -> SUBSET Events]
      /\ lost' \subseteq Workers
  BY EndedSession
<1>2. \A e \in Events :
           /\ attempts'[e] \in Nat /\ attempts'[e] >= attempts[e]
           /\ status'[e] \in Statuses /\ due'[e] \in BOOLEAN
           /\ deliveries'[e] \in Seq(DeliveryRows)
  BY RecordedRow
<1>3. TypeOK'
  <2>1. /\ status' \in [Events -> Statuses] /\ attempts' \in [Events -> Nat]
        /\ due' \in [Events -> BOOLEAN] /\ deliveries' \in [Events -> Seq(DeliveryRows)]
    <3>1. /\ status' = [e \in Events |-> status'[e]] /\ attempts' = [e \in Events |-> attempts'[e]]
          /\ due' = [e \in Events |-> due'[e]] /\ deliveries' = [e \in Events |-> deliveries'[e]]
      BY DEF Record
    <3> QED BY <1>2, <3>1
  <2> QED BY <1>1, <2>1 DEF OutboxInv, TypeOK
<1>4. \A x \in Workers \ {w} : SessionOK(x)'
  <2>1. \A x \in Workers \ {w} : \A e \in locked[x] : e \in Events /\ e \notin locked[w]
    BY DEF OutboxInv, TypeOK, RowsExclusive
  <2>2. \A e \in Events : e \notin locked[w] => attempts'[e] = attempts[e] /\ status'[e] = status[e]
    BY RecordedRow
  <2> QED BY <1>1, <2>1, <2>2, OthersSound
<1>5. RowsExclusive'
  BY <1>1 DEF OutboxInv, RowsExclusive, OthersKeep, Keeps
<1>6. NothingLost' /\ HistoryNeedsEvent'
  BY RecordedRow DEF NothingLost, HistoryNeedsEvent
<1>7. HistoryExplainsStatus'
  BY RecordedRow DEF HistoryExplainsStatus, Last
<1>8. ViewsBehind'
  BY <1>2, ViewsStayBehind
<1> QED BY <1>1, <1>3, <1>4, <1>5, <1>6, <1>7, <1>8 DEF OutboxInv

(* A commit, acknowledged. *)
LEMMA CommitStep ==
    ASSUME OutboxInv, NEW w \in Workers, Commit(w)
    PROVE  OutboxInv'
<1> DEFINE p == IF w \in Relays /\ Cardinality(settled[w]) = BatchSize THEN "begin" ELSE Returns(w)
<1>1. /\ w \notin lost /\ Record(w) /\ Goto(w, p) /\ EndSession(w)
      /\ UNCHANGED <<accepted, result, view>> /\ faults' = faults
  BY DEF Commit
<1>2. p \in {"idle", "begin", "done"} /\ (w \in Replayers => p # "begin")
  BY OutboxAssumption DEF Returns
<1>3. faults' \in 0..MaxFaults
  BY <1>1 DEF OutboxInv, TypeOK
<1> HIDE DEF p
<1> QED BY <1>1, <1>2, <1>3, RecordStep

(* The faults are counted. *)
LEMMA FaultCounted ==
    ASSUME OutboxInv, Fault
    PROVE  faults' \in 0..MaxFaults
  BY OutboxAssumption DEF OutboxInv, TypeOK, Fault

(* Its acknowledgement is lost. *)
LEMMA CommitUnacknowledgedStep ==
    ASSUME OutboxInv, NEW w \in Workers, CommitUnacknowledged(w)
    PROVE  OutboxInv'
<1>1. /\ w \notin lost /\ Record(w) /\ Goto(w, Returns(w)) /\ EndSession(w) /\ Fault
      /\ UNCHANGED <<accepted, result, view>>
  BY DEF CommitUnacknowledged
<1>2. Returns(w) \in {"idle", "begin", "done"} /\ Returns(w) # "begin"
  BY DEF Returns
<1> QED BY <1>1, <1>2, FaultCounted, RecordStep

(* The session dies under a publish: the worker keeps its list of rows, the
   database keeps neither its locks nor what it had settled. *)
LEMMA SessionLostStep ==
    ASSUME OutboxInv, NEW w \in Workers, SessionLost(w)
    PROVE  OutboxInv'
<1>1. /\ pc[w] = "publish" /\ w \notin lost /\ lost' = lost \cup {w} /\ Fault
      /\ settled' = [settled EXCEPT ![w] = {}] /\ locked' = [locked EXCEPT ![w] = {}]
      /\ UNCHANGED <<tables, accepted, pc, scan, batch, result, view>>
  BY DEF SessionLost
<1>2. settled'[w] = {} /\ locked'[w] = {} /\ w \in lost'
  BY <1>1 DEF OutboxInv, TypeOK
<1>3. TypeOK'
  <2>1. faults' \in 0..MaxFaults /\ lost' \subseteq Workers
    BY <1>1, FaultCounted DEF OutboxInv, TypeOK
  <2>2. locked' \in [Workers -> SUBSET Events]
    BY <1>1 DEF OutboxInv, TypeOK
  <2>3. settled' \in [Workers -> SUBSET [id : Events, attempts : Nat, ok : BOOLEAN]]
    BY <1>1 DEF OutboxInv, TypeOK
  <2> QED BY <1>1, <2>1, <2>2, <2>3 DEF OutboxInv, TypeOK, tables
<1>4. SessionOK(w)'
  <2>1. SessionOK(w) /\ Claimed(w)' = Claimed(w) /\ Attempted(w)' = {}
    BY <1>1, <1>2 DEF OutboxInv, Claimed, Attempted
  <2>2. Located(w)' /\ LocksWhatItClaimed(w)' /\ ClaimsOnce(w)'
    BY <1>1, <1>2, <2>1 DEF SessionOK, Located, LocksWhatItClaimed, ClaimsOnce
  <2>3. ReadIsCurrent(w)' /\ SuccessIsReal(w)'
    BY <1>1, <1>2, <2>1 DEF SessionOK, ReadIsCurrent, SuccessIsReal
  <2> QED BY <2>2, <2>3 DEF SessionOK
<1> QED BY <1>1, <1>2, <1>3, <1>4, QuietStep DEF OthersKeep, Keeps, OutboxInv, TypeOK

-----------------------------------------------------------------------------
(* The steps of nobody's session. *)

(* A transfer commits its event; no session can have held it. *)
LEMMA InsertEventStep ==
    ASSUME OutboxInv, NEW e \in Events, InsertEvent(e)
    PROVE  OutboxInv'
<1>1. /\ status[e] = "absent" /\ status' = [status EXCEPT ![e] = "pending"]
      /\ due' = [due EXCEPT ![e] = TRUE]
      /\ UNCHANGED <<attempts, deliveries, accepted, session, view, faults>>
  BY DEF InsertEvent
<1>2. TypeOK'
  BY <1>1 DEF OutboxInv, TypeOK, Statuses, session
<1>3. status'[e] = "pending" /\ \A x \in Events \ {e} : status'[x] = status[x]
  BY <1>1 DEF OutboxInv, TypeOK
<1>4. \A x \in Workers : SessionOK(x)'
  <2>1. \A x \in Workers : Keeps(x)
    BY <1>1 DEF Keeps, session
  <2>2. \A x \in Workers : locked[x] \subseteq Events /\ e \notin locked[x]
    BY <1>1 DEF OutboxInv, TypeOK, SessionOK, ReadIsCurrent
  <2>3. \A x \in Workers : \A r \in locked[x] : attempts'[r] = attempts[r] /\ status'[r] = status[r]
    BY <1>1, <1>3, <2>2
  <2> QED BY <1>1, <2>1, <2>3, SessionKept
<1>5. RowsExclusive'
  BY <1>1 DEF OutboxInv, RowsExclusive, session
<1>6. NothingLost' /\ HistoryNeedsEvent'
  BY <1>1, <1>3 DEF OutboxInv, NothingLost, HistoryNeedsEvent
<1>7. HistoryExplainsStatus'
  <2>1. deliveries[e] = <<>>
    BY <1>1 DEF OutboxInv, HistoryNeedsEvent
  <2> QED BY <1>1, <1>3, <2>1 DEF OutboxInv, HistoryExplainsStatus, Last
<1>8. ViewsBehind'
  BY <1>1 DEF OutboxInv, ViewsBehind
<1> QED BY <1>2, <1>4, <1>5, <1>6, <1>7, <1>8 DEF OutboxInv

(* A step that leaves the sessions and the rows alone but for available_at. *)
LEMMA IdleStep ==
    ASSUME OutboxInv, UNCHANGED <<status, attempts, deliveries, accepted, session>>, TypeOK', ViewsBehind'
    PROVE  OutboxInv'
<1>1. \A x \in Workers : SessionOK(x)'
  BY SessionKept DEF Keeps, session
<1>2. RowsExclusive' /\ NothingLost' /\ HistoryNeedsEvent'
  BY DEF OutboxInv, RowsExclusive, session, NothingLost, HistoryNeedsEvent
<1>3. HistoryExplainsStatus'
  BY DEF OutboxInv, HistoryExplainsStatus, Last
<1> QED BY <1>1, <1>2, <1>3 DEF OutboxInv

(* A backoff runs out. *)
LEMMA BackoffElapsesStep ==
    ASSUME OutboxInv, NEW e \in Events, BackoffElapses(e)
    PROVE  OutboxInv'
<1>1. /\ due' = [due EXCEPT ![e] = TRUE]
      /\ UNCHANGED <<status, attempts, deliveries, accepted, session, view, faults>>
  BY DEF BackoffElapses
<1>2. TypeOK'
  BY <1>1 DEF OutboxInv, TypeOK, session
<1>3. ViewsBehind'
  BY <1>1 DEF OutboxInv, ViewsBehind
<1> QED BY <1>1, <1>2, <1>3, IdleStep

(* The first statement of GET /events/{id}. *)
LEMMA ReadEventStep ==
    ASSUME OutboxInv, NEW v \in Readers, NEW e \in Events, ReadEvent(v, e)
    PROVE  OutboxInv'
<1>1. /\ view' = [view EXCEPT ![v] = <<e, attempts[e]>>]
      /\ UNCHANGED <<tables, accepted, session, faults>>
  BY DEF ReadEvent
<1>2. e \in Int /\ attempts[e] \in Nat
  BY OutboxAssumption DEF OutboxInv, TypeOK
<1>3. TypeOK'
  <2>1. <<e, attempts[e]>> \in Seq(Int)
    BY <1>2
  <2>2. view' \in [Readers -> Seq(Int)]
    BY <1>1, <2>1 DEF OutboxInv, TypeOK
  <2> QED BY <1>1, <2>2 DEF OutboxInv, TypeOK, session, tables
<1>4. ViewsBehind'
  <2>1. view'[v] = <<e, attempts[e]>> /\ \A u \in Readers \ {v} : view'[u] = view[u]
    BY <1>1 DEF OutboxInv, TypeOK
  <2>2. /\ Len(view'[v]) \in {0, 2, 3} /\ Len(view'[v]) # 3 /\ view'[v][1] = e
        /\ view'[v][2] <= attempts[e]
    BY <1>2, <2>1
  <2> QED BY <1>1, <2>1, <2>2 DEF OutboxInv, ViewsBehind, tables
<1> QED BY <1>1, <1>3, <1>4, IdleStep DEF tables

(* The second: it finds at least the attempts the first one showed. *)
LEMMA ReadDeliveriesStep ==
    ASSUME OutboxInv, NEW v \in Readers, ReadDeliveries(v)
    PROVE  OutboxInv'
<1> DEFINE n == Len(deliveries[view[v][1]])
<1>1. /\ Len(view[v]) = 2 /\ view' = [view EXCEPT ![v] = Append(@, n)]
      /\ UNCHANGED <<tables, accepted, session, faults>>
  BY DEF ReadDeliveries
<1>2. view[v][1] \in Events /\ view[v][2] <= attempts[view[v][1]] /\ view[v] \in Seq(Int)
  BY <1>1 DEF OutboxInv, ViewsBehind, TypeOK
<1>3. n \in Nat /\ n = attempts[view[v][1]]
  BY <1>2 DEF OutboxInv, TypeOK, HistoryExplainsStatus
<1> HIDE DEF n
<1>4. /\ Append(view[v], n) \in Seq(Int) /\ Len(Append(view[v], n)) = 3
      /\ Append(view[v], n)[2] = view[v][2] /\ Append(view[v], n)[3] = n
  <2>1. ASSUME NEW s \in Seq(Int), NEW k \in Int, Len(s) = 2
        PROVE  /\ Append(s, k) \in Seq(Int) /\ Len(Append(s, k)) = 3
               /\ Append(s, k)[2] = s[2] /\ Append(s, k)[3] = k
    <3>1. Append(s, k) \in Seq(Int)
      OBVIOUS
    <3>2. Len(Append(s, k)) = Len(s) + 1
      OBVIOUS
    <3>3. DOMAIN s = 1..2
      BY <2>1
    <3> QED BY <2>1, <3>1, <3>2, <3>3, AppendedRow
  <2> QED BY <1>1, <1>2, <1>3, <2>1
<1>5. TypeOK'
  <2>1. view' \in [Readers -> Seq(Int)]
    BY <1>1, <1>4 DEF OutboxInv, TypeOK
  <2> QED BY <1>1, <2>1 DEF OutboxInv, TypeOK, session, tables
<1>6. ViewsBehind'
  <2>1. view'[v] = Append(view[v], n) /\ \A u \in Readers \ {v} : view'[u] = view[u]
    BY <1>1 DEF OutboxInv, TypeOK
  <2>2. Len(view'[v]) = 3 /\ view'[v][2] <= view'[v][3]
    BY <1>2, <1>3, <1>4, <2>1
  <2> QED BY <1>1, <2>1, <2>2 DEF OutboxInv, ViewsBehind, tables
<1> QED BY <1>1, <1>5, <1>6, IdleStep DEF tables

-----------------------------------------------------------------------------
(* The steps together, by whoever takes them. *)

(* A step of a worker's own code keeps the invariant. *)
LEMMA WorkStep ==
    ASSUME OutboxInv, NEW w \in Workers, Work(w)
    PROVE  OutboxInv'
<1>1. CASE SettleFails(w)
  <2>1. Rollback(w) /\ faults' \in 0..MaxFaults
    BY <1>1 DEF SettleFails, OutboxInv, TypeOK
  <2> QED BY <2>1, RollbackStep
<1> QED BY <1>1, TickStep, StartBatchStep, ScanRowStep, EndScanStep, SelectForReplayStep,
           PublishStep, SettleAttemptStep, CommitStep DEF Work

(* A fault of a worker keeps it. *)
LEMMA FailsStep ==
    ASSUME OutboxInv, NEW w \in Workers, Fails(w)
    PROVE  OutboxInv'
<1>1. CASE StatementFails(w)
  BY <1>1, FaultCounted, RollbackStep DEF StatementFails
<1> QED BY <1>1, CommitUnacknowledgedStep, SessionLostStep DEF Fails

(* An empty outbox. *)
LEMMA OutboxInit ==
    ASSUME Init
    PROVE  OutboxInv
<1>1. TypeOK
  BY OutboxAssumption DEF Init, TypeOK, Statuses, Steps
<1>2. \A w \in Workers : SessionOK(w)
  <2> SUFFICES ASSUME NEW w \in Workers PROVE SessionOK(w)
    OBVIOUS
  <2>1. /\ pc[w] = "idle" /\ batch[w] = <<>> /\ settled[w] = {} /\ locked[w] = {} /\ lost = {}
    BY DEF Init
  <2>2. DOMAIN batch[w] = {} /\ Claimed(w) = {} /\ Attempted(w) = {}
    BY <2>1 DEF Claimed, Attempted
  <2>3. Located(w) /\ LocksWhatItClaimed(w)
    BY <2>1, <2>2 DEF Located, LocksWhatItClaimed
  <2>4. ClaimsOnce(w) /\ ReadIsCurrent(w) /\ SuccessIsReal(w)
    BY <2>1, <2>2 DEF ClaimsOnce, ReadIsCurrent, SuccessIsReal
  <2> QED BY <2>3, <2>4 DEF SessionOK
<1>3. RowsExclusive /\ NothingLost /\ HistoryNeedsEvent
  BY DEF Init, RowsExclusive, NothingLost, HistoryNeedsEvent
<1>4. HistoryExplainsStatus
  BY DEF Init, HistoryExplainsStatus
<1>5. ViewsBehind
  BY DEF Init, ViewsBehind
<1> QED BY <1>1, <1>2, <1>3, <1>4, <1>5 DEF OutboxInv

(* Nothing happens. *)
LEMMA OutboxStutter ==
    ASSUME OutboxInv, UNCHANGED vars
    PROVE  OutboxInv'
<1>1. TypeOK' /\ ViewsBehind'
  BY DEF OutboxInv, TypeOK, ViewsBehind, vars, tables, session
<1> QED BY <1>1, IdleStep DEF vars, tables

(* The invariant is inductive. *)
LEMMA OutboxInductive ==
    ASSUME OutboxInv, [Next]_vars
    PROVE  OutboxInv'
<1>1. ASSUME NEW w \in Replayers, NEW e \in Events, Replay(w, e) PROVE OutboxInv'
  BY <1>1, ReplayStep DEF Workers
<1>2. ASSUME NEW v \in Readers, ReadDeliveries(v) \/ \E e \in Events : ReadEvent(v, e)
      PROVE  OutboxInv'
  BY <1>2, ReadDeliveriesStep, ReadEventStep
<1> QED BY <1>1, <1>2, InsertEventStep, BackoffElapsesStep, WorkStep, FailsStep, OutboxStutter DEF Next

-----------------------------------------------------------------------------
(* The theorems. *)

(* OutboxInv holds throughout, whatever relays, replays, readers and faults
   do. *)
THEOREM OutboxInvariance == Spec => []OutboxInv
<1>1. Init => OutboxInv
  BY OutboxInit
<1>2. OutboxInv /\ [Next]_vars => OutboxInv'
  BY OutboxInductive
<1> QED BY <1>1, <1>2, PTL DEF Spec

(* Type correctness of the outbox. *)
THEOREM OutboxTyped == Spec => []TypeOK
<1>1. OutboxInv => TypeOK
  BY DEF OutboxInv
<1> QED BY <1>1, OutboxInvariance, PTL

(* At least once: no event is marked published that the broker has not taken
   (DispatchBatch publishes inside the transaction). *)
THEOREM NoEventLost == Spec => []NothingLost
<1>1. OutboxInv => NothingLost
  BY DEF OutboxInv
<1> QED BY <1>1, OutboxInvariance, PTL

(* Status and attempts of an event are what its delivery history says, however
   relays and replays race for it (settleAttempt, recordDelivery). *)
THEOREM StatusExplained == Spec => []HistoryExplainsStatus
<1>1. OutboxInv => HistoryExplainsStatus
  BY DEF OutboxInv
<1> QED BY <1>1, OutboxInvariance, PTL

(* A session that is publishing an event holds its row, unless it is dead. *)
LEMMA PublishingHolds ==
    ASSUME OutboxInv, NEW w \in Workers, NEW e, Publishing(w, e), w \notin lost
    PROVE  e \in locked[w]
<1>1. 1 \in DOMAIN batch[w] /\ e = batch[w][1].id
  BY CurrentRow DEF Publishing
<1> QED BY <1>1, HeldRows

(* The row locks of DispatchBatch and ReplayEvent keep two live sessions from
   publishing the same event at the same time. *)
THEOREM DeliveryExclusive == Spec => []NoConcurrentDelivery
<1>1. OutboxInv => NoConcurrentDelivery
  <2> SUFFICES ASSUME OutboxInv, NEW w \in Workers, NEW x \in Workers, NEW e \in Events,
                      w # x, Publishing(w, e), Publishing(x, e), w \notin lost, x \notin lost
               PROVE  FALSE
    BY DEF NoConcurrentDelivery
  <2>1. e \in locked[w] /\ e \in locked[x]
    BY PublishingHolds
  <2> QED BY <2>1 DEF OutboxInv, RowsExclusive
<1> QED BY <1>1, OutboxInvariance, PTL

(* GET /events/{id} shows no attempt without its delivery row. *)
THEOREM ReadsComplete == Spec => []ViewsComplete
<1>1. OutboxInv => ViewsComplete
  BY DEF OutboxInv, ViewsBehind, ViewsComplete
<1> QED BY <1>1, OutboxInvariance, PTL

(* What a step may do to the delivery history of an event. *)
LEMMA HistoryStep ==
    ASSUME OutboxInv, [Next]_vars, NEW e \in Events
    PROVE  \/ deliveries'[e] = deliveries[e] /\ (status[e] # "absent" => status'[e] # "absent")
           \/ \E w \in Workers :
                /\ e \in locked[w] /\ status'[e] # "absent"
                /\ \E ok \in BOOLEAN :
                    deliveries'[e] = Append(deliveries[e], [ok |-> ok, trigger |-> Trigger(w)])
<1>1. CASE \E w \in Workers : Record(w) /\ w \notin lost
  <2>1. PICK w \in Workers : Record(w) /\ w \notin lost
    BY <1>1
  <2>2. CASE Settles(w, e)
    <3>1. e \in locked[w] /\ OutcomeOf(w, e).id = e /\ OutcomeOf(w, e).ok \in BOOLEAN
      BY <2>1, <2>2, RecordedOutcome
    <3>2. /\ status'[e] = StatusAfter(OutcomeOf(w, e))
          /\ deliveries'[e] = Append(deliveries[e], [ok |-> OutcomeOf(w, e).ok, trigger |-> Trigger(w)])
      BY <2>1, <2>2, <3>1 DEF Record, Delivered
    <3>3. status'[e] # "absent"
      BY <3>2 DEF StatusAfter
    <3> QED BY <3>1, <3>2, <3>3
  <2>3. CASE ~Settles(w, e)
    BY <2>1, <2>3 DEF Record
  <2> QED BY <2>2, <2>3
<1>2. CASE \E r \in Events : InsertEvent(r)
  <2>1. PICK r \in Events : InsertEvent(r)
    BY <1>2
  <2>2. deliveries' = deliveries /\ status' = [status EXCEPT ![r] = "pending"]
    BY <2>1 DEF InsertEvent
  <2> QED BY <2>2 DEF OutboxInv, TypeOK
<1>3. CASE deliveries' = deliveries /\ status' = status
  BY <1>3
<1>4. \/ \E w \in Workers : Record(w) /\ w \notin lost
      \/ \E r \in Events : InsertEvent(r)
      \/ deliveries' = deliveries /\ status' = status
  <2>1. ASSUME NEW w \in Workers, Work(w) \/ Fails(w)
        PROVE  (Record(w) /\ w \notin lost) \/ (deliveries' = deliveries /\ status' = status)
    BY <2>1 DEF Work, Fails, Tick, StartBatch, ScanRow, EndScan, SelectForReplay, Publish,
        SettleAttempt, SettleFails, Commit, StatementFails, CommitUnacknowledged, SessionLost,
        Rollback, tables
  <2> QED BY <2>1 DEF Next, BackoffElapses, Replay, ReadDeliveries, ReadEvent, vars, tables
<1> QED BY <1>1, <1>2, <1>3, <1>4

(* What the relay records was made on an event that was still pending. *)
THEOREM RelayOnlyPending == Spec => RelayTakesPendingOnly
<1>1. OutboxInv /\ [Next]_vars =>
        [\A e \in Events :
            deliveries'[e] # deliveries[e] /\ Last(deliveries'[e]).trigger = "relay"
                => status[e] = "pending"]_vars
  <2> SUFFICES ASSUME OutboxInv, [Next]_vars, NEW e \in Events,
                      deliveries'[e] # deliveries[e], Last(deliveries'[e]).trigger = "relay"
               PROVE  status[e] = "pending"
    OBVIOUS
  <2>1. PICK w \in Workers :
            /\ e \in locked[w]
            /\ \E ok \in BOOLEAN :
                deliveries'[e] = Append(deliveries[e], [ok |-> ok, trigger |-> Trigger(w)])
    BY HistoryStep
  <2>2. PICK ok \in BOOLEAN :
            deliveries'[e] = Append(deliveries[e], [ok |-> ok, trigger |-> Trigger(w)])
    BY <2>1
  <2>3. [ok |-> ok, trigger |-> Trigger(w)] \in DeliveryRows /\ deliveries[e] \in Seq(DeliveryRows)
    BY DEF DeliveryRows, Trigger, OutboxInv, TypeOK
  <2>4. Last(deliveries'[e]) = [ok |-> ok, trigger |-> Trigger(w)]
    BY <2>2, <2>3 DEF Last
  <2>5. w \in Relays
    BY <2>4 DEF Trigger
  <2> QED BY <2>1, <2>5 DEF OutboxInv, SessionOK, ReadIsCurrent
<1> QED BY <1>1, OutboxInvariance, PTL DEF Spec, RelayTakesPendingOnly

(* The delivery history only grows, and no event is withdrawn. *)
THEOREM HistoryKept == Spec => DeliveriesAppendOnly
<1>1. OutboxInv /\ [Next]_vars =>
        [\A e \in Events :
            /\ Len(deliveries'[e]) >= Len(deliveries[e])
            /\ SubSeq(deliveries'[e], 1, Len(deliveries[e])) = deliveries[e]
            /\ status[e] # "absent" => status'[e] # "absent"]_vars
  <2> SUFFICES ASSUME OutboxInv, [Next]_vars, NEW e \in Events
               PROVE  /\ Len(deliveries'[e]) >= Len(deliveries[e])
                      /\ SubSeq(deliveries'[e], 1, Len(deliveries[e])) = deliveries[e]
                      /\ status[e] # "absent" => status'[e] # "absent"
    OBVIOUS
  <2>1. deliveries[e] \in Seq(DeliveryRows)
    BY DEF OutboxInv, TypeOK
  <2>2. ASSUME NEW S, NEW h \in Seq(S), NEW d \in S
        PROVE  /\ Len(h) >= Len(h) /\ SubSeq(h, 1, Len(h)) = h
               /\ Len(Append(h, d)) >= Len(h) /\ SubSeq(Append(h, d), 1, Len(h)) = h
    OBVIOUS
  <2>3. \A ok \in BOOLEAN, w \in Workers : [ok |-> ok, trigger |-> Trigger(w)] \in DeliveryRows
    BY DEF DeliveryRows, Trigger
  <2>4. CASE deliveries'[e] = deliveries[e] /\ (status[e] # "absent" => status'[e] # "absent")
    BY <2>1, <2>2, <2>3, <2>4
  <2>5. CASE \E w \in Workers :
                /\ e \in locked[w] /\ status'[e] # "absent"
                /\ \E ok \in BOOLEAN :
                    deliveries'[e] = Append(deliveries[e], [ok |-> ok, trigger |-> Trigger(w)])
    <3>1. PICK d \in DeliveryRows : deliveries'[e] = Append(deliveries[e], d)
      BY <2>3, <2>5
    <3> QED BY <2>1, <2>2, <2>5, <3>1
  <2> QED BY <2>4, <2>5, HistoryStep
<1> QED BY <1>1, OutboxInvariance, PTL DEF Spec, DeliveriesAppendOnly

(* The elements of a sequence. *)
LEMMA ElementOfSeq ==
    ASSUME NEW S, NEW q \in Seq(S), NEW j \in DOMAIN q
    PROVE  q[j] \in S
OBVIOUS

(* What a worker claims is an event that is there, and stays there. *)
LEMMA ClaimsMove ==
    ASSUME OutboxInv, ReportsExist, [Next]_vars, NEW w \in Workers, NEW i \in DOMAIN batch'[w]
    PROVE  batch'[w][i].id \in Events /\ status[batch'[w][i].id] # "absent"
<1>1. /\ batch \in [Workers -> Seq([id : Events, attempts : Nat])]
      /\ attempts \in [Events -> Nat] /\ scan \in [Workers -> SUBSET Events]
  BY DEF OutboxInv, TypeOK
<1> DEFINE There(row) == row.id \in Events /\ status[row.id] # "absent"
<1>2. ASSUME NEW x \in Workers, NEW j \in DOMAIN batch[x]
      PROVE  There(batch[x][j])
  <2>1. batch[x] \in Seq([id : Events, attempts : Nat])
    BY <1>1
  <2>2. batch[x][j] \in [id : Events, attempts : Nat]
    BY <2>1, ElementOfSeq, Zenon
  <2>3. status[batch[x][j].id] # "absent"
    BY DEF ReportsExist
  <2> QED BY <2>2, <2>3
<1>3. \/ batch' = batch
      \/ \E x \in Workers, e \in Events : status[e] # "absent" /\ batch' = [batch EXCEPT ![x] = Append(@, Row(e))]
      \/ \E x \in Workers, e \in Events : status[e] # "absent" /\ batch' = [batch EXCEPT ![x] = <<Row(e)>>]
      \/ \E x \in Workers : pc[x] = "settle" /\ batch' = [batch EXCEPT ![x] = Tail(@)]
      \/ \E x \in Workers : batch' = [batch EXCEPT ![x] = <<>>]
  <2>1. ASSUME NEW x \in Workers, ScanRow(x)
        PROVE  \/ batch' = batch
               \/ \E e \in Events : status[e] # "absent" /\ batch' = [batch EXCEPT ![x] = Append(@, Row(e))]
    BY <1>1, <2>1 DEF ScanRow, StillClaimable, Eligible
  <2>2. ASSUME NEW x \in Workers, SelectForReplay(x)
        PROVE  \/ batch' = batch
               \/ \E e \in Events : status[e] # "absent" /\ batch' = [batch EXCEPT ![x] = <<Row(e)>>]
    BY <1>1, <2>2 DEF SelectForReplay
  <2>3. ASSUME NEW x \in Workers, Work(x) \/ Fails(x), ~ScanRow(x), ~SelectForReplay(x)
        PROVE  \/ batch' = batch
               \/ pc[x] = "settle" /\ batch' = [batch EXCEPT ![x] = Tail(@)]
               \/ batch' = [batch EXCEPT ![x] = <<>>]
    BY <2>3 DEF Work, Fails, Tick, StartBatch, EndScan, Publish, SettleAttempt, SettleFails, Commit,
                StatementFails, CommitUnacknowledged, SessionLost, Rollback, EndSession
  <2>4. CASE ~\E x \in Workers : Work(x) \/ Fails(x)
    BY <2>4 DEF Next, InsertEvent, BackoffElapses, Replay, ReadDeliveries, ReadEvent, vars, session
  <2> QED BY <2>1, <2>2, <2>3, <2>4
<1>4. ASSUME NEW x \in Workers, NEW e \in Events, status[e] # "absent",
             batch' = [batch EXCEPT ![x] = Append(@, Row(e))]
      PROVE  There(batch'[w][i])
  <2>1. Row(e) \in [id : Events, attempts : Nat] /\ Row(e).id = e /\ There(Row(e))
    BY <1>1, <1>4 DEF Row
  <2>2. CASE x = w
    <3>1. batch'[w] = Append(batch[w], Row(e)) /\ batch[w] \in Seq([id : Events, attempts : Nat])
      BY <1>1, <1>4, <2>2
    <3>2. batch'[w][i] = Row(e) \/ (i \in DOMAIN batch[w] /\ batch'[w][i] = batch[w][i])
      BY <2>1, <3>1
    <3> QED BY <1>2, <2>1, <3>2
  <2>3. CASE x # w
    BY <1>1, <1>2, <1>4, <2>3
  <2> QED BY <2>2, <2>3
<1>5. ASSUME NEW x \in Workers, NEW e \in Events, status[e] # "absent",
             batch' = [batch EXCEPT ![x] = <<Row(e)>>]
      PROVE  There(batch'[w][i])
  BY <1>1, <1>2, <1>5 DEF Row
<1>6. ASSUME NEW x \in Workers, pc[x] = "settle", batch' = [batch EXCEPT ![x] = Tail(@)]
      PROVE  There(batch'[w][i])
  <2>1. batch[x] # <<>>
    BY <1>6 DEF OutboxInv, SessionOK, Located
  <2>2. CASE x = w
    <3>1. batch'[w] = Tail(batch[w]) /\ batch[w] \in Seq([id : Events, attempts : Nat]) /\ batch[w] # <<>>
      BY <1>1, <1>6, <2>1, <2>2
    <3>2. i + 1 \in DOMAIN batch[w] /\ batch'[w][i] = batch[w][i + 1]
      BY <3>1
    <3> QED BY <1>2, <3>2
  <2>3. CASE x # w
    BY <1>1, <1>2, <1>6, <2>3
  <2> QED BY <2>2, <2>3
<1>7. ASSUME NEW x \in Workers, batch' = [batch EXCEPT ![x] = <<>>]
      PROVE  There(batch'[w][i])
  BY <1>1, <1>2, <1>7
<1>8. CASE batch' = batch
  BY <1>2, <1>8
<1>9. There(batch'[w][i])
  BY <1>3, <1>4, <1>5, <1>6, <1>7, <1>8
<1> QED BY <1>9

(* The steps other than the arrival of an event. *)
Handling ==
    \/ \E e \in Events : BackoffElapses(e)
    \/ \E w \in Workers : Work(w) \/ Fails(w)
    \/ \E w \in Replayers, e \in Events : Replay(w, e)
    \/ \E v \in Readers : ReadDeliveries(v) \/ \E e \in Events : ReadEvent(v, e)

(* What such a step means to the listeners: the broker is told of one event,
   outcomes are written down, or neither. *)
LEMMA OutcomesMove ==
    ASSUME OutboxInv, ReportsExist, Handling
    PROVE  \/ status' = status /\ accepted' = accepted
           \/ \E e \in Events : status[e] # "absent" /\ status' = status /\ accepted' = accepted \cup {e}
           \/ /\ accepted' = accepted
              /\ \A e \in Events : status'[e] # status[e] => status[e] # "absent" /\ status'[e] # "absent"
<1>1. ASSUME NEW w \in Workers, Publish(w)
      PROVE  \/ status' = status /\ accepted' = accepted
             \/ \E e \in Events : status[e] # "absent" /\ status' = status /\ accepted' = accepted \cup {e}
  <2>1. 1 \in DOMAIN batch[w] /\ Current(w) = batch[w][1].id /\ Current(w) \in Events
    BY <1>1, CurrentRow DEF Publish
  <2>2. status[Current(w)] # "absent"
    BY <2>1 DEF ReportsExist
  <2> QED BY <1>1, <2>1, <2>2 DEF Publish, tables
<1>2. ASSUME NEW w \in Workers, Record(w), w \notin lost, NEW e \in Events, status'[e] # status[e]
      PROVE  status[e] # "absent" /\ status'[e] # "absent"
  <2>1. Settles(w, e) /\ status'[e] = StatusAfter(OutcomeOf(w, e))
    BY <1>2 DEF Record
  <2>2. e \in locked[w]
    BY <1>2, <2>1, RecordedOutcome
  <2>3. status'[e] # "absent"
    BY <2>1 DEF StatusAfter
  <2> QED BY <2>2, <2>3 DEF OutboxInv, SessionOK, ReadIsCurrent
<1>3. ASSUME NEW w \in Workers, Commit(w) \/ CommitUnacknowledged(w)
      PROVE  Record(w) /\ w \notin lost /\ accepted' = accepted
  BY <1>3 DEF Commit, CommitUnacknowledged
<1>4. ASSUME NEW w \in Workers, Work(w) \/ Fails(w), ~Publish(w), ~Commit(w), ~CommitUnacknowledged(w)
      PROVE  status' = status /\ accepted' = accepted
  BY <1>4 DEF Work, Fails, Tick, StartBatch, ScanRow, EndScan, SelectForReplay, SettleAttempt, SettleFails,
              StatementFails, SessionLost, Rollback, tables
<1>5. CASE ~\E w \in Workers : Work(w) \/ Fails(w)
  BY <1>5 DEF Handling, BackoffElapses, Replay, ReadDeliveries, ReadEvent, tables
<1> QED BY <1>1, <1>2, <1>3, <1>4, <1>5

(* Nothing is claimed or published that is not there. *)
LEMMA ReportsStep ==
    ASSUME OutboxInv, ReportsExist, [Next]_vars
    PROVE  ReportsExist'
<1>1. \A e \in Events : status[e] # "absent" => status'[e] # "absent"
  BY HistoryStep
<1>2. \A w \in Workers : \A i \in DOMAIN batch'[w] : status'[batch'[w][i].id] # "absent"
  BY <1>1, ClaimsMove
<1>3. accepted \subseteq Events
  BY DEF OutboxInv, TypeOK
<1>4. \A e \in accepted' : status'[e] # "absent"
  <2>1. CASE \E e \in Events : InsertEvent(e)
    BY <1>1, <1>3, <2>1 DEF InsertEvent, ReportsExist
  <2>2. CASE Handling
    BY <1>1, <1>3, <2>2, OutcomesMove DEF ReportsExist
  <2>3. CASE UNCHANGED vars
    BY <1>1, <1>3, <2>3 DEF vars, ReportsExist
  <2> QED BY <2>1, <2>2, <2>3 DEF Next, Handling
<1> QED BY <1>2, <1>4 DEF ReportsExist

(* The broker is never told of an event that is not there, so of no transfer
   that did not commit, also by a worker whose session has died under it
   (DispatchBatch, ReplayEvent). *)
THEOREM NothingInvented == Spec => []ReportsExist
<1>1. Init => OutboxInv /\ ReportsExist
  BY OutboxInit DEF Init, ReportsExist
<1>2. OutboxInv /\ ReportsExist /\ [Next]_vars => (OutboxInv /\ ReportsExist)'
  BY OutboxInductive, ReportsStep
<1> QED BY <1>1, <1>2, PTL DEF Spec

-----------------------------------------------------------------------------
(* The arithmetic of Backoff.                                               *)

(* A set of natural numbers has a smallest one. *)
LEMMA SmallestNumber ==
    ASSUME NEW B, B \subseteq Nat, B # {}
    PROVE  \E m \in B : \A k \in B : m <= k
<1>1. PICK m \in B : \A k \in B : ~ <<k, m>> \in OpToRel(<, Nat)
  BY WFMin, NatLessThanWellFounded
<1>2. ASSUME NEW k \in B PROVE ~(k < m)
  BY <1>1 DEF OpToRel
<1> QED BY <1>2

(* f is the shift, for shifts by up to n. *)
Shifts(f, n) == f[0] = Seconds(1) /\ \A k \in 1..n : f[k] = Twice(f[k - 1])

(* There is one for each n. *)
LEMMA ShiftExists == \A n \in Nat : \E f : Shifts(f, n)
<1> DEFINE B == {n \in Nat : ~ \E f : Shifts(f, n)}
<1> SUFFICES ASSUME B # {} PROVE FALSE
  OBVIOUS
<1>1. PICK m \in B : \A k \in B : m <= k
  <2>1. B \subseteq Nat
    OBVIOUS
  <2> HIDE DEF B
  <2> QED BY <2>1, SmallestNumber
<1>2. Shifts([k \in {0} |-> Seconds(1)], 0)
  BY DEF Shifts
<1>3. m \in Nat /\ m # 0 /\ m - 1 \notin B
  BY <1>1, <1>2
<1>4. PICK f : Shifts(f, m - 1)
  BY <1>3
<1> DEFINE g == [k \in 0..m |-> IF k = m THEN Twice(f[m - 1]) ELSE f[k]]
<1>5. g[0] = Seconds(1)
  BY <1>3, <1>4 DEF Shifts
<1>6. ASSUME NEW k \in 1..m PROVE g[k] = Twice(g[k - 1])
  BY <1>3, <1>4 DEF Shifts
<1>7. Shifts(g, m)
  <2> HIDE DEF g
  <2> QED BY <1>5, <1>6 DEF Shifts
<1> QED BY <1>1, <1>7

(* And only one. *)
LEMMA ShiftUnique ==
    ASSUME NEW f, NEW g, NEW n \in Nat, NEW l \in Nat, Shifts(f, n), Shifts(g, l)
    PROVE  \A k \in Nat : k <= n /\ k <= l => f[k] = g[k]
<1> DEFINE B == {k \in Nat : k <= n /\ k <= l /\ f[k] # g[k]}
<1> SUFFICES ASSUME B # {} PROVE FALSE
  OBVIOUS
<1>1. PICK m \in B : \A k \in B : m <= k
  <2>1. B \subseteq Nat
    OBVIOUS
  <2> HIDE DEF B
  <2> QED BY <2>1, SmallestNumber
<1>2. m \in Nat /\ m <= n /\ m <= l /\ m # 0 /\ m - 1 \notin B
  BY <1>1 DEF Shifts
<1>3. f[m - 1] = g[m - 1]
  BY <1>2
<1> QED BY <1>1, <1>2, <1>3 DEF Shifts

(* The recursion of Shifted has a solution, so Shifted is one. *)
LEMMA ShiftedUnfolds ==
    /\ Shifted[0] = Seconds(1)
    /\ \A n \in Nat : n # 0 => Shifted[n] = Twice(Shifted[n - 1])
<1> DEFINE F(n) == CHOOSE f : Shifts(f, n)
           h == [n \in Nat |-> F(n)[n]]
           Solves(s) == s = [n \in Nat |-> IF n = 0 THEN Seconds(1) ELSE Twice(s[n - 1])]
<1>1. ASSUME NEW n \in Nat PROVE Shifts(F(n), n)
  BY ShiftExists
<1> HIDE DEF F
<1>2. h[0] = Seconds(1)
  BY <1>1 DEF Shifts
<1>3. ASSUME NEW n \in Nat, n # 0 PROVE h[n] = Twice(h[n - 1])
  <2>1. n - 1 \in Nat /\ Shifts(F(n), n) /\ Shifts(F(n - 1), n - 1)
    BY <1>1, <1>3
  <2>2. F(n)[n - 1] = F(n - 1)[n - 1]
    BY <2>1, ShiftUnique
  <2>3. F(n)[n] = Twice(F(n)[n - 1])
    BY <1>3, <2>1 DEF Shifts
  <2> QED BY <2>1, <2>2, <2>3
<1>4. Solves(h)
  <2>1. h = [n \in Nat |-> h[n]]
    OBVIOUS
  <2> HIDE DEF h
  <2> QED BY <1>2, <1>3, <2>1
<1>5. Solves(CHOOSE s : Solves(s))
  <2> HIDE DEF h, Solves
  <2> QED BY <1>4
<1>6. Shifted = CHOOSE s : Solves(s)
  BY DEF Shifted
<1>7. Solves(Shifted)
  <2> HIDE DEF Solves
  <2> QED BY <1>5, <1>6
<1> QED BY <1>7

(* The doubling, one step at a time. *)
LEMMA DoublingUnfolds ==
    \A n \in Nat : Doubling[n] =
        IF n <= 1 THEN 1
        ELSE IF 2 * Doubling[n - 1] > 300 THEN 300 ELSE 2 * Doubling[n - 1]
<1> DEFINE h == [n \in Nat |-> IF n <= 1 THEN 1 ELSE IF n = 2 THEN 2 ELSE IF n = 3 THEN 4
                               ELSE IF n = 4 THEN 8 ELSE IF n = 5 THEN 16 ELSE IF n = 6 THEN 32
                               ELSE IF n = 7 THEN 64 ELSE IF n = 8 THEN 128
                               ELSE IF n = 9 THEN 256 ELSE 300]
           Step(d, n) == IF n <= 1 THEN 1 ELSE IF 2 * d[n - 1] > 300 THEN 300 ELSE 2 * d[n - 1]
           Solves(d) == d = [n \in Nat |-> Step(d, n)]
<1>1. ASSUME NEW n \in Nat PROVE h[n] = Step(h, n)
  BY SMT
<1>2. Solves(h)
  <2>1. h = [n \in Nat |-> h[n]]
    OBVIOUS
  <2> HIDE DEF h, Step
  <2> QED BY <1>1, <2>1
<1>3. Solves(CHOOSE d : Solves(d))
  <2> HIDE DEF h, Solves
  <2> QED BY <1>2
<1>4. Doubling = CHOOSE d : Solves(d)
  BY DEF Doubling
<1>5. Solves(Doubling)
  <2> HIDE DEF Solves
  <2> QED BY <1>3, <1>4
<1> QED BY <1>5

(* The doubling reaches the cap with the tenth attempt. *)
LEMMA DoublingCapped == \A n \in Nat : n >= 10 => Doubling[n] = 300
<1> DEFINE B == {n \in Nat : n >= 10 /\ Doubling[n] # 300}
<1> SUFFICES ASSUME B # {} PROVE FALSE
  OBVIOUS
<1>1. PICK m \in B : \A k \in B : m <= k
  <2>1. B \subseteq Nat
    OBVIOUS
  <2> HIDE DEF B
  <2> QED BY <2>1, SmallestNumber
<1>2. Doubling[9] = 256
  BY DoublingUnfolds, SMTT(30)
<1>3. m \in Nat /\ m >= 10 /\ (m = 10 \/ Doubling[m - 1] = 300)
  BY <1>1
<1>4. Doubling[m] = 300
  BY <1>2, <1>3, DoublingUnfolds, SMT
<1> QED BY <1>1, <1>4

(* The shifts up to the one at which Backoff stops shifting, as words. *)
LEMMA ShiftedValues ==
    /\ Shifted[0] = <<0, 1953125>> /\ Shifted[1] = <<0, 3906250>>
    /\ Shifted[2] = <<0, 7812500>> /\ Shifted[3] = <<0, 15625000>>
    /\ Shifted[4] = <<0, 31250000>> /\ Shifted[5] = <<0, 62500000>>
    /\ Shifted[6] = <<0, 125000000>> /\ Shifted[7] = <<0, 250000000>>
    /\ Shifted[8] = <<1, 231564544>> /\ Shifted[9] = <<3, 194693632>>
    /\ Shifted[10] = <<7, 120951808>> /\ Shifted[11] = <<14, 241903616>>
    /\ Shifted[12] = <<29, 215371776>> /\ Shifted[13] = <<59, 162308096>>
    /\ Shifted[14] = <<119, 56180736>> /\ Shifted[15] = <<238, 112361472>>
    /\ Shifted[16] = <<476, 224722944>> /\ Shifted[17] = <<953, 181010432>>
    /\ Shifted[18] = <<1907, 93585408>> /\ Shifted[19] = <<3814, 187170816>>
<1>0. Shifted[0] = <<0, 1953125>>
  BY ShiftedUnfolds, SMT DEF Seconds, Word
<1>1. Shifted[1] = <<0, 3906250>>
  BY <1>0, ShiftedUnfolds, SMT DEF Twice
<1>2. Shifted[2] = <<0, 7812500>>
  BY <1>1, ShiftedUnfolds, SMT DEF Twice
<1>3. Shifted[3] = <<0, 15625000>>
  BY <1>2, ShiftedUnfolds, SMT DEF Twice
<1>4. Shifted[4] = <<0, 31250000>>
  BY <1>3, ShiftedUnfolds, SMT DEF Twice
<1>5. Shifted[5] = <<0, 62500000>>
  BY <1>4, ShiftedUnfolds, SMT DEF Twice
<1>6. Shifted[6] = <<0, 125000000>>
  BY <1>5, ShiftedUnfolds, SMT DEF Twice
<1>7. Shifted[7] = <<0, 250000000>>
  BY <1>6, ShiftedUnfolds, SMT DEF Twice
<1>8. Shifted[8] = <<1, 231564544>>
  BY <1>7, ShiftedUnfolds, SMT DEF Twice
<1>9. Shifted[9] = <<3, 194693632>>
  BY <1>8, ShiftedUnfolds, SMT DEF Twice
<1>10. Shifted[10] = <<7, 120951808>>
  BY <1>9, ShiftedUnfolds, SMT DEF Twice
<1>11. Shifted[11] = <<14, 241903616>>
  BY <1>10, ShiftedUnfolds, SMT DEF Twice
<1>12. Shifted[12] = <<29, 215371776>>
  BY <1>11, ShiftedUnfolds, SMT DEF Twice
<1>13. Shifted[13] = <<59, 162308096>>
  BY <1>12, ShiftedUnfolds, SMT DEF Twice
<1>14. Shifted[14] = <<119, 56180736>>
  BY <1>13, ShiftedUnfolds, SMT DEF Twice
<1>15. Shifted[15] = <<238, 112361472>>
  BY <1>14, ShiftedUnfolds, SMT DEF Twice
<1>16. Shifted[16] = <<476, 224722944>>
  BY <1>15, ShiftedUnfolds, SMT DEF Twice
<1>17. Shifted[17] = <<953, 181010432>>
  BY <1>16, ShiftedUnfolds, SMT DEF Twice
<1>18. Shifted[18] = <<1907, 93585408>>
  BY <1>17, ShiftedUnfolds, SMT DEF Twice
<1>19. Shifted[19] = <<3814, 187170816>>
  BY <1>18, ShiftedUnfolds, SMT DEF Twice
<1> QED BY <1>0, <1>1, <1>2, <1>3, <1>4, <1>5, <1>6, <1>7, <1>8, <1>9, <1>10, <1>11, <1>12, <1>13, <1>14, <1>15, <1>16, <1>17, <1>18, <1>19, SMT

(* Backoff is the doubling with its cap, for every number of attempts: no
   wait of any length wraps around, because the shift stops at 20. *)
THEOREM BackoffIsDoubling == \A n \in Nat : Backoff(n) = Seconds(Doubling[n])
<1> SUFFICES ASSUME NEW n \in Nat PROVE Backoff(n) = Seconds(Doubling[n])
  OBVIOUS
<1>1. CASE n >= 10
  <2>1. Doubling[n] = 300
    BY <1>1, DoublingCapped
  <2>2. n <= 20 => Exceeds(Shifted[n - 1], MaxBackoff)
    BY <1>1, ShiftedValues, SMTT(30) DEF Exceeds, Negative, MaxBackoff, Seconds, Word
  <2> QED BY <1>1, <2>1, <2>2 DEF Backoff, MaxBackoff
<1>2. CASE n < 10
  <2> DEFINE d == Shifted[(IF n < 1 THEN 1 ELSE n) - 1]
  <2>1. ~Exceeds(d, MaxBackoff)
    BY <1>2, ShiftedValues, SMTT(30) DEF Exceeds, Negative, MaxBackoff, Seconds, Word
  <2>2. d = Seconds(Doubling[n])
    <3>1. /\ Doubling[0] = 1 /\ Doubling[1] = 1 /\ Doubling[2] = 2 /\ Doubling[3] = 4
          /\ Doubling[4] = 8 /\ Doubling[5] = 16
      BY DoublingUnfolds, SMTT(30)
    <3>2. Doubling[6] = 32 /\ Doubling[7] = 64 /\ Doubling[8] = 128 /\ Doubling[9] = 256
      BY <3>1, DoublingUnfolds, SMTT(30)
    <3> QED BY <1>2, <3>1, <3>2, ShiftedValues, SMTT(30) DEF Seconds, Word
  <2> QED BY <1>2, <2>1, <2>2 DEF Backoff
<1> QED BY <1>1, <1>2

(* However often an event has been tried and replayed, its next wait is the
   doubling one up to the cap (Backoff, settleAttempt). *)
THEOREM BackoffDoubles == Spec => []BackoffDoublesToCap
<1>1. TypeOK => BackoffDoublesToCap
  <2> SUFFICES ASSUME TypeOK, NEW e \in Events, NEW n \in attempts[e]..66 PROVE n \in Doubled
    BY DEF BackoffDoublesToCap
  <2>1. attempts[e] \in Nat
    BY DEF TypeOK
  <2>2. n \in 0..66 /\ n \in Nat
    BY <2>1
  <2> QED BY <2>2, BackoffIsDoubling DEF Doubled
<1> QED BY <1>1, OutboxTyped, PTL
=============================================================================
