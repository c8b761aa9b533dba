---------------------------- MODULE Caches_proofs ----------------------------
(***************************************************************************)
(* Proofs about the background caches.  The version cache and the          *)
(* executive summary: a status that says running has a sweep at work on    *)
(* it, and no sweep, however it overlaps with the others or fails, takes   *)
(* away data that were served.  The pending cache: no sweep puts older     *)
(* entries in the place of newer ones.                                     *)
(***************************************************************************)
EXTENDS SweepCache, ExecutiveSummary, FleetCaches, FiniteSetTheorems, TLAPS

-----------------------------------------------------------------------------
(* The version cache: type correctness                                     *)

LEMMA Constants == PendingStore \in Store /\ IdleThread.result \in Versions
BY SweepAssumption DEF PendingStore, Store, Nothing, Versions, IdleThread

LEMMA ThreadTypes ==
    ASSUME SweepTypeOK, NEW t \in Sweeper
    PROVE  /\ thread[t].todo \subseteq CachedAdom
           /\ thread[t].result \in Versions
           /\ thread[t].snapshot \in Store
           /\ ProcOf[t] \in Proc
BY SweepAssumption DEF SweepTypeOK

Points == {"idle", "check", "claim", "mark", "adoms", "fetch", "publish", "persist", "error", "clear"}
Threads == [Sweeper -> [pc : Points, todo : SUBSET CachedAdom, result : Versions, snapshot : Store]]

LEMMA PointType ==
    ASSUME SweepTypeOK, NEW t \in Sweeper, NEW x \in Points
    PROVE  [thread EXCEPT ![t].pc = x] \in Threads
<1>1. thread \in Threads
  BY DEF SweepTypeOK, Threads, Points
<1>2. [thread[t] EXCEPT !.pc = x] \in [pc : Points, todo : SUBSET CachedAdom, result : Versions, snapshot : Store]
  BY <1>1 DEF Threads
<1>3. QED
  BY <1>1, <1>2 DEF Threads

LEMMA SweepTypeInit == SweepInit => SweepTypeOK
BY SweepAssumption, Constants DEF SweepInit, SweepTypeOK, IdleThread, Versions

LEMMA SweepTypeStep == SweepTypeOK /\ [SweepNext]_sweepVars => SweepTypeOK'
<1> SUFFICES ASSUME SweepTypeOK, [SweepNext]_sweepVars
             PROVE  SweepTypeOK'
  OBVIOUS
<1> USE SweepAssumption DEF SweepTypeOK
<1>1. ASSUME NEW t \in Sweeper, TriggerSweep(t) \/ CheckRunning(t) \/ ClaimRunning(t) \/ ClearRun(t)
      PROVE  SweepTypeOK'
  <2>0. \E x \in Points : thread' = [thread EXCEPT ![t].pc = x]
    BY <1>1 DEF TriggerSweep, CheckRunning, ClaimRunning, ClearRun, ThreadTo, Points
  <2>1. thread' \in Threads
    <3>1. PICK x \in Points : thread' = [thread EXCEPT ![t].pc = x]
      BY <2>0
    <3>2. [thread EXCEPT ![t].pc = x] \in Threads
      BY PointType
    <3>3. QED
      BY <3>1, <3>2
  <2>2. /\ sweeping' \in [Proc -> BOOLEAN]
        /\ refreshes' \in 0..MaxRefresh
    <3>1. sweeping' = sweeping \/ \E b \in BOOLEAN : sweeping' = [sweeping EXCEPT ![ProcOf[t]] = b]
      BY <1>1 DEF TriggerSweep, CheckRunning, ClaimRunning, ClearRun
    <3>2. refreshes' = refreshes \/ (refreshes < MaxRefresh /\ refreshes' = refreshes + 1)
      BY <1>1 DEF TriggerSweep, CheckRunning, ClaimRunning, ClearRun
    <3>3. QED
      BY <3>1, <3>2
  <2>3. UNCHANGED <<store, row, truth, sweepCrashes, sweepFaults>>
    BY <1>1 DEF TriggerSweep, CheckRunning, ClaimRunning, ClearRun
  <2>4. QED
    BY <2>1, <2>2, <2>3 DEF Threads, Points
<1>2. ASSUME NEW t \in Sweeper, MarkStore(t)
      PROVE  SweepTypeOK'
  <2>1. thread' \in Threads
    BY <1>2, PointType DEF MarkStore, ThreadTo, Points
  <2>2. store' \in [Proc -> Store]
    BY <1>2 DEF MarkStore, Store
  <2>3. QED
    BY <1>2, <2>1, <2>2 DEF MarkStore, Threads, Points
<1>3. ASSUME NEW t \in Sweeper, NEW ok \in BOOLEAN, ListAdoms(t, ok)
      PROVE  SweepTypeOK'
  BY <1>3, Constants DEF ListAdoms, SweepFault, IdleThread
<1>4. ASSUME NEW t \in Sweeper, NEW a \in CachedAdom, NEW ok \in BOOLEAN, FetchCachedAdom(t, a, ok)
      PROVE  SweepTypeOK'
  <2>1. [thread[t].result EXCEPT ![a] = IF ok THEN truth[a] ELSE 0] \in Versions
    BY ThreadTypes DEF Versions
  <2>2. thread[t].todo \ {a} \subseteq CachedAdom
    BY ThreadTypes
  <2>3. QED
    BY <1>4, <2>1, <2>2, Constants DEF FetchCachedAdom, SweepFault
<1>5. ASSUME NEW t \in Sweeper, PublishStore(t)
      PROVE  SweepTypeOK'
  <2>1. [devices |-> thread[t].result, status |-> "ok"] \in Store
    BY ThreadTypes DEF Store
  <2>2. QED
    BY <1>5, <2>1, Constants DEF PublishStore, IdleThread
<1>6. ASSUME NEW t \in Sweeper, NEW ok \in BOOLEAN, write_snapshot(t, ok)
      PROVE  SweepTypeOK'
  BY <1>6, ThreadTypes, Constants DEF write_snapshot, SweepFault, IdleThread
<1>7. ASSUME NEW t \in Sweeper, FailRun(t)
      PROVE  SweepTypeOK'
  BY <1>7, ThreadTypes, Constants DEF FailRun, IdleThread, Store
<1>8. ASSUME NEW a \in CachedAdom, ChangeAdom(a)
      PROVE  SweepTypeOK'
  BY <1>8 DEF ChangeAdom, Versions
<1>9. ASSUME NEW p \in Proc, RestartProc(p)
      PROVE  SweepTypeOK'
  BY <1>9, Constants DEF RestartProc, IdleThread
<1>10. CASE UNCHANGED sweepVars
  BY <1>10 DEF sweepVars
<1>11. QED
  BY <1>1, <1>2, <1>3, <1>4, <1>5, <1>6, <1>7, <1>8, <1>9, <1>10 DEF SweepNext, SweepRunStep

(* The type invariant of the version cache: among others, whatever is      *)
(* served or persisted is a complete store.                                *)
THEOREM SweepTypeCorrect == SweepSpec => []SweepTypeOK
BY SweepTypeInit, SweepTypeStep, PTL DEF SweepSpec

-----------------------------------------------------------------------------
(* The status.  The sweep that marked the store last leaves its working    *)
(* points only by writing another status, so the invariant is inductive.   *)

Working(t) == thread[t].pc \in {"adoms", "fetch", "publish", "error"}

LEMMA StatusStep ==
    SweepTypeOK /\ RunningMeansSweeping /\ [SweepNext]_sweepVars => RunningMeansSweeping'
<1> SUFFICES ASSUME SweepTypeOK, RunningMeansSweeping, [SweepNext]_sweepVars,
                    NEW p \in Proc, store'[p].status = "running"
             PROVE  \E t \in Sweeper : ProcOf[t] = p /\ Working(t)'
  BY DEF RunningMeansSweeping, Working
<1>0. store[p].status = "running" => \E t \in Sweeper : ProcOf[t] = p /\ Working(t)
  BY DEF RunningMeansSweeping, Working
<1> USE SweepAssumption DEF SweepTypeOK, Working
<1>1. ASSUME NEW t \in Sweeper, TriggerSweep(t) \/ CheckRunning(t) \/ ClaimRunning(t) \/ ClearRun(t)
      PROVE  \E u \in Sweeper : ProcOf[u] = p /\ Working(u)'
  BY <1>0, <1>1 DEF TriggerSweep, CheckRunning, ClaimRunning, ClearRun, ThreadAt, ThreadTo
<1>2. ASSUME NEW t \in Sweeper, MarkStore(t)
      PROVE  \E u \in Sweeper : ProcOf[u] = p /\ Working(u)'
  <2>1. CASE p = ProcOf[t]
    BY <1>2, <2>1 DEF MarkStore, ThreadTo
  <2>2. CASE p # ProcOf[t]
    BY <1>0, <1>2, <2>2 DEF MarkStore, ThreadAt, ThreadTo
  <2>3. QED
    BY <2>1, <2>2
<1>3. ASSUME NEW t \in Sweeper, NEW ok \in BOOLEAN, ListAdoms(t, ok) \/ write_snapshot(t, ok)
      PROVE  \E u \in Sweeper : ProcOf[u] = p /\ Working(u)'
  BY <1>0, <1>3 DEF ListAdoms, write_snapshot, ThreadAt
<1>4. ASSUME NEW t \in Sweeper, NEW a \in CachedAdom, NEW ok \in BOOLEAN, FetchCachedAdom(t, a, ok)
      PROVE  \E u \in Sweeper : ProcOf[u] = p /\ Working(u)'
  BY <1>0, <1>4 DEF FetchCachedAdom, ThreadAt
<1>5. ASSUME NEW t \in Sweeper, PublishStore(t) \/ FailRun(t)
      PROVE  \E u \in Sweeper : ProcOf[u] = p /\ Working(u)'
  <2>1. store'[ProcOf[t]].status # "running"
    BY <1>5 DEF PublishStore, FailRun, Store
  <2>2. p # ProcOf[t] /\ store'[p] = store[p]
    BY <1>5, <2>1 DEF PublishStore, FailRun
  <2>3. QED
    BY <1>0, <1>5, <2>2 DEF PublishStore, FailRun
<1>6. ASSUME NEW q \in Proc, RestartProc(q)
      PROVE  \E u \in Sweeper : ProcOf[u] = p /\ Working(u)'
  <2>1. p # q
    BY <1>6 DEF RestartProc, PendingStore
  <2>2. QED
    BY <1>0, <1>6, <2>1 DEF RestartProc
<1>7. CASE UNCHANGED <<store, thread>>
  BY <1>0, <1>7
<1>8. QED
  BY <1>1, <1>2, <1>3, <1>4, <1>5, <1>6, <1>7 DEF SweepNext, SweepRunStep, ChangeAdom, sweepVars

(* RunningMeansSweeping, for any number of processes and of sweeps in each *)
(* of them: _running is no lock, but the status it leads to is true.       *)
THEOREM StatusIsTrue == SweepSpec => []RunningMeansSweeping
<1>1. SweepInit => RunningMeansSweeping
  BY DEF SweepInit, RunningMeansSweeping, PendingStore
<1>2. QED
  BY <1>1, SweepTypeInit, SweepTypeStep, StatusStep, PTL DEF SweepSpec

-----------------------------------------------------------------------------
(* The executive summary.  The inductive invariant: a row is only written  *)
(* from collected data.                                                    *)

SweepPoint == {"idle", "claim", "mark", "fetch", "persist", "clear"}
SweepState == [pc : SweepPoint, todo : SUBSET FleetAdom, seen : SUBSET Firewall]

RowsAreCollected ==
    \A t \in SummarySweeper : sweep[t].pc = "persist" => summary[KindOf(t)] # NoData

RowsHaveData == \A k \in SweepKind : snapshot[k] # NoData => snapshot[k].fields # NoData

SummaryIInv == SummaryTypeOK /\ RowsAreCollected /\ RowsHaveData

LEMMA KindIsOne == \A t \in SummarySweeper : KindOf(t) \in SweepKind /\ StatusOf(KindOf(t)) \in
                       {"device_sweep_status", "hygiene_sweep_status"}
BY DEF KindOf, SweepKind, StatusOf

LEMMA Counts == \A s \in SUBSET Firewall : Cardinality(s) \in Nat
BY SummaryAssumption, FS_Subset, FS_CardinalityType

LEMMA Resting == IdleSweep \in SweepState
BY DEF IdleSweep, SweepState, SweepPoint

LEMMA MovedTo ==
    ASSUME SummaryTypeOK, NEW t \in SummarySweeper, NEW x \in SweepPoint
    PROVE  [sweep EXCEPT ![t].pc = x] \in [SummarySweeper -> SweepState]
<1>1. sweep \in [SummarySweeper -> SweepState]
  BY DEF SummaryTypeOK, SweepState, SweepPoint
<1>2. [sweep[t] EXCEPT !.pc = x] \in SweepState
  BY <1>1 DEF SweepState
<1>3. QED
  BY <1>1, <1>2

LEMMA SummaryInvInit == SummaryInit => SummaryIInv
<1> SUFFICES ASSUME SummaryInit PROVE SummaryIInv
  OBVIOUS
<1>1. SummaryTypeOK
  <2>1. sweep \in [SummarySweeper -> SweepState]
    BY Resting DEF SummaryInit
  <2>2. QED
    BY <2>1 DEF SummaryInit, SummaryTypeOK, NoSummary, SummaryStatus, SweepState, SweepPoint
<1>2. RowsAreCollected /\ RowsHaveData
  BY DEF SummaryInit, RowsAreCollected, RowsHaveData, IdleSweep
<1>3. QED
  BY <1>1, <1>2 DEF SummaryIInv

LEMMA SummaryTypeStep == SummaryIInv /\ [SummaryNext]_summaryVars => SummaryTypeOK'
<1> SUFFICES ASSUME SummaryIInv, [SummaryNext]_summaryVars
             PROVE  SummaryTypeOK'
  OBVIOUS
<1>0. SummaryTypeOK /\ sweep \in [SummarySweeper -> SweepState]
  BY DEF SummaryIInv, SummaryTypeOK, SweepState, SweepPoint
<1>a. ASSUME UNCHANGED <<summary, snapshot>>, sweep' \in [SummarySweeper -> SweepState], claimed' \subseteq SweepKind
      PROVE  SummaryTypeOK'
  BY <1>0, <1>a DEF SummaryTypeOK, SweepState, SweepPoint
<1>1. ASSUME NEW t \in SummarySweeper, _run_sweep(t) \/ ClaimSweep(t)
      PROVE  SummaryTypeOK'
  <2>1. \E x \in SweepPoint : sweep' = [sweep EXCEPT ![t].pc = x]
    BY <1>1 DEF _run_sweep, ClaimSweep, SweepTo, SweepPoint
  <2>2. sweep' \in [SummarySweeper -> SweepState]
    BY <1>0, <2>1, MovedTo
  <2>3. claimed' \subseteq SweepKind
    BY <1>0, <1>1, KindIsOne DEF _run_sweep, ClaimSweep, SummaryTypeOK
  <2>4. QED
    BY <1>1, <1>a, <2>2, <2>3 DEF _run_sweep, ClaimSweep
<1>2. ASSUME NEW t \in SummarySweeper, MarkRunning(t) \/ FailSweep(t)
      PROVE  SummaryTypeOK'
  <2>1. sweep' \in [SummarySweeper -> SweepState]
    BY <1>0, <1>2 DEF MarkRunning, FailSweep, SweepState, SweepPoint
  <2>2. QED
    BY <1>0, <1>2, <2>1, KindIsOne DEF MarkRunning, FailSweep, SummaryTypeOK, SummaryStatus, SweepState, SweepPoint
<1>3. ASSUME NEW t \in SummarySweeper, FetchFleetAdom(t)
      PROVE  SummaryTypeOK'
  <2>1. PICK a \in sweep[t].todo, found \in SUBSET Firewall :
             sweep' = [sweep EXCEPT ![t].todo = @ \ {a}, ![t].seen = @ \cup found]
    BY <1>3 DEF FetchFleetAdom
  <2>2. [sweep[t] EXCEPT !.todo = @ \ {a}, !.seen = @ \cup found] \in SweepState
    BY <1>0, <2>1 DEF SweepState
  <2>3. sweep' = [sweep EXCEPT ![t] = [sweep[t] EXCEPT !.todo = @ \ {a}, !.seen = @ \cup found]]
    BY <1>0, <2>1 DEF SweepState
  <2>4. sweep' \in [SummarySweeper -> SweepState]
    BY <1>0, <2>2, <2>3
  <2>5. QED
    BY <1>0, <1>3, <1>a, <2>4 DEF FetchFleetAdom, SummaryTypeOK
<1>4. ASSUME NEW t \in SummarySweeper, PublishDevice(t) \/ PublishHygiene(t)
      PROVE  SummaryTypeOK'
  <2>1. sweep[t].seen \in SUBSET Firewall
    BY <1>0 DEF SweepState
  <2>2. DeviceFields(sweep[t].seen) \in DeviceResults /\ Cardinality(sweep[t].seen) \in Nat
    BY <2>1, Counts DEF DeviceResults
  <2>3. sweep' \in [SummarySweeper -> SweepState]
    BY <1>0, <1>4 DEF PublishDevice, PublishHygiene, SweepState, SweepPoint
  <2>4. summary' = [summary EXCEPT !.device = DeviceFields(sweep[t].seen),
                                   !.device_sweep_status = "ok", !.status = "ok"]
        \/ summary' = [summary EXCEPT !.hygiene = Cardinality(sweep[t].seen),
                                      !.hygiene_sweep_status = "ok", !.status = "ok"]
    BY <1>4 DEF PublishDevice, PublishHygiene
  <2>5. UNCHANGED <<claimed, snapshot>>
    BY <1>4 DEF PublishDevice, PublishHygiene
  <2>6. QED
    BY <1>0, <2>2, <2>3, <2>4, <2>5 DEF SummaryTypeOK, SummaryStatus, SweepState, SweepPoint
<1>5. ASSUME NEW t \in SummarySweeper, write_summary_snapshot(t)
      PROVE  SummaryTypeOK'
  <2>1. sweep' \in [SummarySweeper -> SweepState]
    BY <1>0, <1>5, MovedTo DEF write_summary_snapshot, SweepTo, SweepPoint
  <2>2. summary[KindOf(t)] \in DeviceResults \cup Nat
    <3>1. summary[KindOf(t)] # NoData
      BY <1>5 DEF SummaryIInv, RowsAreCollected, write_summary_snapshot, SweepAt
    <3>2. KindOf(t) = "device" \/ KindOf(t) = "hygiene"
      BY DEF KindOf
    <3>3. summary["device"] \in DeviceResults \cup {NoData} /\ summary["hygiene"] \in Nat \cup {NoData}
      BY <1>0 DEF SummaryTypeOK
    <3>4. QED
      BY <3>1, <3>2, <3>3
  <2>3. summary.status \in SummaryStatus /\ "pending" \in SummaryStatus
    BY <1>0 DEF SummaryTypeOK, SummaryStatus
  <2>4. [fields |-> summary[KindOf(t)], status |-> IF KindOf(t) = "device" THEN summary.status ELSE "pending"]
           \in SummaryRow
    BY <2>2, <2>3 DEF SummaryRow
  <2>5. snapshot' \in [SweepKind -> SummaryRow \cup {NoData}]
    BY <1>0, <1>5, <2>4 DEF write_summary_snapshot, SummaryTypeOK
  <2>6. QED
    BY <1>0, <1>5, <2>1, <2>5 DEF write_summary_snapshot, SummaryTypeOK, SweepState, SweepPoint
<1>6. ASSUME NEW t \in SummarySweeper, ClearSweep(t)
      PROVE  SummaryTypeOK'
  BY <1>0, <1>6, <1>a, Resting DEF ClearSweep, SummaryTypeOK
<1>7. CASE RestartCollector
  <2>1. sweep' \in [SummarySweeper -> SweepState]
    BY <1>7, Resting DEF RestartCollector
  <2>2. QED
    BY <1>0, <1>7, <2>1 DEF RestartCollector, SummaryTypeOK, NoSummary, SummaryStatus, SweepState, SweepPoint
<1>8. CASE UNCHANGED summaryVars
  BY <1>0, <1>8 DEF summaryVars, SummaryTypeOK
<1>9. QED
  BY <1>1, <1>2, <1>3, <1>4, <1>5, <1>6, <1>7, <1>8 DEF SummaryNext, SweepStep

-----------------------------------------------------------------------------
(* What is collected stays, but for a restart.                             *)

LEMMA CollectedStays ==
    SummaryIInv /\ [SummaryNext]_summaryVars =>
        \A k \in SweepKind : summary[k] # NoData => summary'[k] # NoData \/ RestartCollector
<1> SUFFICES ASSUME SummaryIInv, [SummaryNext]_summaryVars, NEW k \in SweepKind, summary[k] # NoData
             PROVE  summary'[k] # NoData \/ RestartCollector
  OBVIOUS
<1>0. SummaryTypeOK /\ (k = "device" \/ k = "hygiene")
  BY DEF SummaryIInv, SweepKind
<1>1. ASSUME NEW t \in SummarySweeper, MarkRunning(t) \/ FailSweep(t)
      PROVE  summary'[k] = summary[k]
  BY <1>0, <1>1, KindIsOne DEF MarkRunning, FailSweep, SummaryTypeOK
<1>2. ASSUME NEW t \in SummarySweeper, PublishDevice(t) \/ PublishHygiene(t)
      PROVE  summary'[k] # NoData
  <2>1. sweep[t].seen \in SUBSET Firewall
    BY <1>0 DEF SummaryTypeOK
  <2>2. DeviceFields(sweep[t].seen) # NoData /\ Cardinality(sweep[t].seen) # NoData
    BY <2>1, Counts, NoDataAssumption DEF DeviceResults
  <2>3. summary' = [summary EXCEPT !.device = DeviceFields(sweep[t].seen),
                                   !.device_sweep_status = "ok", !.status = "ok"]
        \/ summary' = [summary EXCEPT !.hygiene = Cardinality(sweep[t].seen),
                                      !.hygiene_sweep_status = "ok", !.status = "ok"]
    BY <1>2 DEF PublishDevice, PublishHygiene
  <2>4. QED
    BY <1>0, <2>2, <2>3 DEF SummaryTypeOK
<1>3. CASE UNCHANGED summary
  BY <1>3
<1>4. QED
  BY <1>1, <1>2, <1>3 DEF SummaryNext, SweepStep, _run_sweep, ClaimSweep, FetchFleetAdom,
                                write_summary_snapshot, ClearSweep, summaryVars

LEMMA RowsStep == SummaryIInv /\ [SummaryNext]_summaryVars => (RowsAreCollected /\ RowsHaveData)'
<1> SUFFICES ASSUME SummaryIInv, [SummaryNext]_summaryVars
             PROVE  RowsAreCollected' /\ RowsHaveData'
  OBVIOUS
<1>0. SummaryTypeOK /\ SummaryTypeOK' /\ RowsAreCollected /\ RowsHaveData
  BY SummaryTypeStep DEF SummaryIInv
<1>1. RowsAreCollected'
  <2> SUFFICES ASSUME NEW t \in SummarySweeper, sweep'[t].pc = "persist"
               PROVE  summary'[KindOf(t)] # NoData
    BY DEF RowsAreCollected
  <2>1. CASE sweep[t].pc = "persist"
    <3>1. summary[KindOf(t)] # NoData
      BY <1>0, <2>1 DEF RowsAreCollected
    <3>2. ~RestartCollector
      BY DEF RestartCollector, IdleSweep
    <3>3. QED
      BY <3>1, <3>2, CollectedStays, KindIsOne
  <2>2. CASE sweep[t].pc # "persist"
    <3>1. PublishDevice(t) \/ PublishHygiene(t)
      <4>1. ASSUME NEW u \in SummarySweeper, PublishDevice(u) \/ PublishHygiene(u)
            PROVE  u = t
        BY <1>0, <2>2, <4>1 DEF SummaryTypeOK, PublishDevice, PublishHygiene
      <4>2. ASSUME NEW u \in SummarySweeper, _run_sweep(u) \/ ClaimSweep(u) \/ write_summary_snapshot(u)
            PROVE  FALSE
        BY <1>0, <2>2, <4>2 DEF SummaryTypeOK, _run_sweep, ClaimSweep, write_summary_snapshot, SweepTo
      <4>3. ASSUME NEW u \in SummarySweeper, MarkRunning(u) \/ FailSweep(u) \/ ClearSweep(u)
            PROVE  FALSE
        BY <1>0, <2>2, <4>3 DEF SummaryTypeOK, MarkRunning, FailSweep, ClearSweep, IdleSweep
      <4>4. ASSUME NEW u \in SummarySweeper, FetchFleetAdom(u)
            PROVE  FALSE
        BY <1>0, <2>2, <4>4 DEF SummaryTypeOK, FetchFleetAdom, SweepAt
      <4>5. ~RestartCollector /\ ~UNCHANGED sweep
        BY <2>2 DEF RestartCollector, IdleSweep
      <4>6. QED
        BY <4>1, <4>2, <4>3, <4>4, <4>5 DEF SummaryNext, SweepStep, summaryVars
    <3>2. sweep[t].seen \in SUBSET Firewall
      BY <1>0 DEF SummaryTypeOK
    <3>3. DeviceFields(sweep[t].seen) # NoData /\ Cardinality(sweep[t].seen) # NoData
      BY <3>2, Counts, NoDataAssumption DEF DeviceResults
    <3>4. CASE PublishDevice(t)
      BY <1>0, <3>3, <3>4 DEF PublishDevice, KindOf, SummaryTypeOK
    <3>5. CASE PublishHygiene(t)
      <4>1. KindOf(t) = "hygiene"
        BY <3>5, SummaryAssumption DEF PublishHygiene, KindOf
      <4>2. QED
        BY <1>0, <3>3, <3>5, <4>1 DEF PublishHygiene, SummaryTypeOK
    <3>6. QED
      BY <3>1, <3>4, <3>5
  <2>3. QED
    BY <2>1, <2>2
<1>2. RowsHaveData'
  <2>1. \A k \in SweepKind : snapshot'[k] # NoData => snapshot'[k].fields \in DeviceResults \cup Nat
    BY <1>0 DEF SummaryTypeOK, SummaryRow
  <2>2. QED
    BY <2>1, NoDataAssumption DEF RowsHaveData
<1>3. QED
  BY <1>1, <1>2

LEMMA SummaryInvStep == SummaryIInv /\ [SummaryNext]_summaryVars => SummaryIInv'
BY SummaryTypeStep, RowsStep DEF SummaryIInv

(* The type invariant of the summary: a persisted row always holds data    *)
(* that were collected.                                                    *)
THEOREM SummaryTypeCorrect == SummarySpec => []SummaryTypeOK
<1>1. SummaryIInv => SummaryTypeOK
  BY DEF SummaryIInv
<1>2. QED
  BY <1>1, SummaryInvInit, SummaryInvStep, PTL DEF SummarySpec

-----------------------------------------------------------------------------
(* What is served                                                          *)

LEMMA RowsStay ==
    SummaryIInv /\ SummaryIInv' /\ [SummaryNext]_summaryVars =>
        \A k \in SweepKind : snapshot[k] # NoData => snapshot'[k] # NoData
<1> SUFFICES ASSUME SummaryIInv, SummaryIInv', [SummaryNext]_summaryVars, NEW k \in SweepKind, snapshot[k] # NoData
             PROVE  snapshot'[k] # NoData
  OBVIOUS
<1>0. SummaryTypeOK
  BY DEF SummaryIInv
<1>1. ASSUME NEW t \in SummarySweeper, write_summary_snapshot(t)
      PROVE  snapshot'[k] # NoData
  <2> DEFINE line == [fields |-> summary[KindOf(t)],
                      status |-> IF KindOf(t) = "device" THEN summary.status ELSE "pending"]
  <2>1. snapshot' = snapshot \/ snapshot' = [snapshot EXCEPT ![KindOf(t)] = line]
    BY <1>1 DEF write_summary_snapshot
  <2>2. line \in SummaryRow
    <3>1. summary[KindOf(t)] # NoData
      BY <1>1 DEF SummaryIInv, RowsAreCollected, write_summary_snapshot, SweepAt
    <3>2. KindOf(t) = "device" \/ KindOf(t) = "hygiene"
      BY DEF KindOf
    <3>3. /\ summary["device"] \in DeviceResults \cup {NoData} /\ summary["hygiene"] \in Nat \cup {NoData}
          /\ summary.status \in SummaryStatus /\ "pending" \in SummaryStatus
      BY <1>0 DEF SummaryTypeOK, SummaryStatus
    <3>4. summary[KindOf(t)] \in DeviceResults \cup Nat
      BY <3>1, <3>2, <3>3
    <3>5. QED
      BY <3>3, <3>4 DEF SummaryRow
  <2> HIDE DEF line
  <2>3. line # NoData
    BY <2>2, NoDataAssumption
  <2>4. QED
    BY <1>0, <2>1, <2>3 DEF SummaryTypeOK
<1>2. CASE UNCHANGED snapshot
  BY <1>2
<1>3. QED
  BY <1>1, <1>2 DEF SummaryNext, SweepStep, _run_sweep, ClaimSweep, MarkRunning, FetchFleetAdom, PublishDevice,
                    PublishHygiene, FailSweep, ClearSweep, RestartCollector, summaryVars

LEMMA WebServesRows ==
    ASSUME RowsHaveData, NEW k \in SweepKind
    PROVE  ServedByWeb[k] # NoData <=> snapshot[k] # NoData
<1>1. NoSummary[StatusOf(k)] = "pending" /\ NoSummary[k] = NoData
  BY DEF NoSummary, StatusOf, SweepKind
<1>2. ServedByWeb[k] = IF snapshot[k] # NoData THEN snapshot[k].fields ELSE NoData
  BY <1>1 DEF ServedByWeb, get_summary
<1>3. QED
  BY <1>2 DEF RowsHaveData

(* ServedDataStays: neither sweep, overlapping or failing, and no restart  *)
(* of the collector makes a web worker lose what it served, and only a     *)
(* restart empties the store of the collector itself.                      *)
THEOREM ServedDataIsKept == SummarySpec => ServedDataStays
<1>1. SummaryIInv /\ SummaryIInv' /\ [SummaryNext]_summaryVars =>
        \A k \in SweepKind : /\ ServedByWeb[k] # NoData => ServedByWeb'[k] # NoData
                             /\ summary[k] # NoData => summary'[k] # NoData \/ summary' = NoSummary
  <2> SUFFICES ASSUME SummaryIInv, SummaryIInv', [SummaryNext]_summaryVars, NEW k \in SweepKind
               PROVE  /\ ServedByWeb[k] # NoData => ServedByWeb'[k] # NoData
                      /\ summary[k] # NoData => summary'[k] # NoData \/ summary' = NoSummary
    OBVIOUS
  <2>1. ServedByWeb[k] # NoData <=> snapshot[k] # NoData
    BY WebServesRows DEF SummaryIInv
  <2>2. ServedByWeb'[k] # NoData <=> snapshot'[k] # NoData
    <3>1. NoSummary[StatusOf(k)] = "pending" /\ NoSummary[k] = NoData
      BY DEF NoSummary, StatusOf, SweepKind
    <3>2. ServedByWeb'[k] = IF snapshot'[k] # NoData THEN snapshot'[k].fields ELSE NoData
      BY <3>1 DEF ServedByWeb, get_summary
    <3>3. QED
      BY <3>2 DEF SummaryIInv, RowsHaveData
  <2>3. QED
    BY <2>1, <2>2, RowsStay, CollectedStays DEF RestartCollector
<1>2. QED
  BY <1>1, SummaryInvInit, SummaryInvStep, PTL DEF SummarySpec, ServedDataStays

-----------------------------------------------------------------------------
(* The shared status                                                       *)

LEMMA SharedStatusStep == SummaryIInv /\ StatusSettles /\ [SummaryNext]_summaryVars => StatusSettles'
<1> SUFFICES ASSUME SummaryIInv, StatusSettles, [SummaryNext]_summaryVars, summary'.status = "running"
             PROVE  \E u \in SummarySweeper : sweep'[u].pc = "fetch"
  BY DEF StatusSettles, SweepAt
<1>0. /\ sweep \in [SummarySweeper -> SweepState]
      /\ summary.status = "running" => \E u \in SummarySweeper : sweep[u].pc = "fetch"
      /\ SummaryTypeOK
  BY DEF SummaryIInv, SummaryTypeOK, SweepState, SweepPoint, StatusSettles, SweepAt
<1>1. ASSUME NEW t \in SummarySweeper, _run_sweep(t) \/ ClaimSweep(t) \/ write_summary_snapshot(t) \/ ClearSweep(t)
      PROVE  \E u \in SummarySweeper : sweep'[u].pc = "fetch"
  <2>1. PICK u \in SummarySweeper : sweep[u].pc = "fetch"
    BY <1>0, <1>1 DEF _run_sweep, ClaimSweep, write_summary_snapshot, ClearSweep
  <2>2. u # t
    BY <1>1, <2>1 DEF _run_sweep, ClaimSweep, write_summary_snapshot, ClearSweep, SweepAt
  <2>3. sweep'[u] = sweep[u]
    BY <1>0, <1>1, <2>2 DEF _run_sweep, ClaimSweep, write_summary_snapshot, ClearSweep, SweepTo
  <2>4. QED
    BY <2>1, <2>3
<1>2. ASSUME NEW t \in SummarySweeper, MarkRunning(t)
      PROVE  \E u \in SummarySweeper : sweep'[u].pc = "fetch"
  BY <1>0, <1>2 DEF MarkRunning
<1>3. ASSUME NEW t \in SummarySweeper, FetchFleetAdom(t)
      PROVE  \E u \in SummarySweeper : sweep'[u].pc = "fetch"
  BY <1>0, <1>3 DEF FetchFleetAdom, SweepAt, SweepState
<1>4. ASSUME NEW t \in SummarySweeper, PublishDevice(t) \/ PublishHygiene(t) \/ FailSweep(t)
      PROVE  FALSE
  BY <1>0, <1>4, KindIsOne DEF PublishDevice, PublishHygiene, FailSweep, SummaryTypeOK
<1>5. CASE RestartCollector
  BY <1>5 DEF RestartCollector, NoSummary
<1>6. CASE UNCHANGED summaryVars
  BY <1>0, <1>6 DEF summaryVars
<1>7. QED
  BY <1>1, <1>2, <1>3, <1>4, <1>5, <1>6 DEF SummaryNext, SweepStep

(* StatusSettles: the shared status says running only while a sweep is     *)
(* under way, for any number of overlapping sweeps of both kinds.          *)
THEOREM SharedStatusIsTrue == SummarySpec => []StatusSettles
<1>1. SummaryInit => StatusSettles
  BY DEF SummaryInit, StatusSettles, NoSummary
<1>2. QED
  BY <1>1, SummaryInvInit, SummaryInvStep, SharedStatusStep, PTL DEF SummarySpec

-----------------------------------------------------------------------------
(* The other sweeps: the DIFF tab never goes back in time.  The status of  *)
(* the pending cache is tested and set under one lock, so between the      *)
(* claim and the result at most one thread is at work; what it has read    *)
(* is at least as new as the entry it replaces, and stays so, because      *)
(* nobody else replaces that entry.                                        *)

Entry(a) == [BoxesOf[a] -> [version : Nat, pkg : Nat]]

SweepPoints == {"idle", "claim", "adoms", "read", "entry", "publish", "row", "error", "clear",
                "started", "release", "done"}

AtWork(t) == CacheOf[t] = "pending" /\ at[t].pc \in {"adoms", "read", "entry", "publish", "error"}

NotNewer(a, old, new) == \A b \in BoxesOf[a] : old[b].version <= new[b].version

Known(dev, a, e) == e \in Entry(a) /\ \A b \in BoxesOf[a] : e[b].version <= dev[b]

FleetShape ==
    /\ device \in [Box -> Nat]
    /\ value = [k \in CacheKind |-> value[k]]
    /\ health = [k \in Kept \cup {"pending"} |-> health[k]]
    /\ at = [t \in CacheThread |-> [pc |-> at[t].pc, todo |-> at[t].todo, got |-> at[t].got]]
    /\ value["pending"] = [a \in AdomName |-> value["pending"][a]]
    /\ \A t \in CacheThread : IF CacheOf[t] = "pending" THEN at[t].pc \in SweepPoints
                              ELSE at[t].pc \notin {"claim", "entry"}

OneAtWork ==
    \A t \in CacheThread : AtWork(t) =>
        /\ health["pending"] = "running"
        /\ \A u \in CacheThread : AtWork(u) => t = u

EntriesAreKnown ==
    \A a \in AdomName : value["pending"][a] # NoEntry => Known(device, a, value["pending"][a])

EntryIsNewest ==
    \A t \in CacheThread : AtWork(t) /\ at[t].pc = "entry" =>
        \E a \in AdomName :
            /\ at[t].got = [x \in {a} |-> at[t].got[a]]
            /\ Known(device, a, at[t].got[a])
            /\ value["pending"][a] # NoEntry => NotNewer(a, value["pending"][a], at[t].got[a])

PendingIInv == FleetShape /\ OneAtWork /\ EntriesAreKnown /\ EntryIsNewest

LEMMA PendingInit == FleetInit => PendingIInv
<1> SUFFICES ASSUME FleetInit PROVE PendingIInv
  OBVIOUS
<1>1. \A t \in CacheThread : at[t] = [pc |-> "idle", todo |-> {}, got |-> <<>>]
  BY DEF FleetInit, Rest
<1>2. "pending" \in CacheKind
  BY DEF CacheKind
<1>3. FleetShape
  BY <1>1, <1>2 DEF FleetInit, FleetShape, Rest, SweepPoints
<1>4. OneAtWork /\ EntryIsNewest
  BY <1>1 DEF OneAtWork, EntryIsNewest, AtWork
<1>5. EntriesAreKnown
  BY <1>2 DEF FleetInit, EntriesAreKnown
<1>6. QED
  BY <1>3, <1>4, <1>5 DEF PendingIInv

(* What a step of one thread leaves alone.                                 *)
LEMMA ThreadMoves ==
    ASSUME FleetShape, NEW t \in CacheThread, StartSweep(t) \/ RunStepOf(t)
    PROVE  /\ device' = device
           /\ at' = [at EXCEPT ![t] = [pc |-> at'[t].pc, todo |-> at'[t].todo, got |-> at'[t].got]]
           /\ health' = [k \in Kept \cup {"pending"} |-> health'[k]]
           /\ value' = [k \in CacheKind |-> value'[k]]
           /\ CacheOf[t] # "pending" => /\ health'["pending"] = health["pending"]
                                        /\ value'["pending"] = value["pending"]
<1> DEFINE Moved == at' = [at EXCEPT ![t] = [pc |-> at'[t].pc, todo |-> at'[t].todo, got |-> at'[t].got]]
<1> USE DEF FleetShape
<1>a. CacheOf[t] \in CacheKind
  BY FleetAssumption
<1>b. ASSUME NEW pc, Goto(t, pc)
      PROVE  Moved
  BY <1>b DEF Goto, Rest
<1>1. CASE StartSweep(t) \/ TestFlag(t) \/ SetFlag(t) \/ ClearFlag(t) \/ _startup(t) \/ _summary_startup(t) \/ ReleaseMapLock(t)
  <2>1. UNCHANGED <<device, health, value>>
    BY <1>1 DEF StartSweep, TestFlag, SetFlag, ClearFlag, _startup, _summary_startup, ReleaseMapLock
  <2>2. \E pc : Goto(t, pc)
    BY <1>1 DEF StartSweep, TestFlag, SetFlag, ClearFlag, _startup, _summary_startup, ReleaseMapLock
  <2>3. QED
    BY <2>1, <2>2, <1>b
<1>2. CASE _run_refresh(t) \/ MarkStarted(t) \/ FailCache(t)
  <2>1. UNCHANGED <<device, value>>
    BY <1>2 DEF _run_refresh, MarkStarted, FailCache
  <2>2. \E pc : Goto(t, pc)
    BY <1>2 DEF _run_refresh, MarkStarted, FailCache
  <2>3. health' = health \/ \E h : health' = [health EXCEPT ![CacheOf[t]] = h]
    BY <1>2 DEF _run_refresh, MarkStarted, FailCache, AtPoint
  <2>4. /\ health' = [k \in Kept \cup {"pending"} |-> health'[k]]
        /\ CacheOf[t] # "pending" => health'["pending"] = health["pending"]
    BY <2>3
  <2>5. QED
    BY <2>1, <2>2, <2>4, <1>b
<1>3. ASSUME NEW ok \in BOOLEAN, GetAdoms(t, ok) \/ SaveSnapshot(t, ok)
      PROVE  /\ UNCHANGED <<device, health, value>>
             /\ Moved
  <2>1. CASE GetAdoms(t, ok)
    <3>1. \E pc, todo, got : at' = [at EXCEPT ![t] = [pc |-> pc, todo |-> todo, got |-> got]]
      BY <2>1 DEF GetAdoms
    <3>2. UNCHANGED <<device, health, value>>
      BY <2>1 DEF GetAdoms
    <3>3. QED
      BY <3>1, <3>2
  <2>2. CASE SaveSnapshot(t, ok)
    BY <2>2, <1>b DEF SaveSnapshot
  <2>3. QED
    BY <1>3, <2>1, <2>2
<1>4. ASSUME NEW ok \in BOOLEAN, PublishSweep(t, ok)
      PROVE  /\ UNCHANGED device
             /\ Moved
             /\ health' = [k \in Kept \cup {"pending"} |-> health'[k]]
             /\ value' = [k \in CacheKind |-> value'[k]]
             /\ CacheOf[t] # "pending" => /\ health'["pending"] = health["pending"]
                                          /\ value'["pending"] = value["pending"]
  <2>1. at'[t] = [pc |-> at'[t].pc, todo |-> at'[t].todo, got |-> at'[t].got]
    BY <1>4 DEF PublishSweep, Rest
  <2>2. Moved
    BY <1>4, <2>1 DEF PublishSweep
  <2>3. health' = health \/ health' = [health EXCEPT ![CacheOf[t]] = "ok"]
    BY <1>4 DEF PublishSweep
  <2>4. value' = value \/ \E v : value' = [value EXCEPT ![CacheOf[t]] = v]
    BY <1>4 DEF PublishSweep
  <2>5. UNCHANGED device
    BY <1>4 DEF PublishSweep
  <2>6. /\ health' = [k \in Kept \cup {"pending"} |-> health'[k]]
        /\ CacheOf[t] # "pending" => health'["pending"] = health["pending"]
    BY <2>3
  <2>7. /\ value' = [k \in CacheKind |-> value'[k]]
        /\ CacheOf[t] # "pending" => value'["pending"] = value["pending"]
    BY <2>4 DEF CacheKind
  <2>8. QED
    BY <2>2, <2>5, <2>6, <2>7
<1>5. ASSUME NEW a \in AdomName, NEW f \in Failures(CacheOf[t], a), ReadAdom(t, a, f)
      PROVE  /\ UNCHANGED <<device, health, value>>
             /\ Moved
  <2>1. \E pc, todo, got : at' = [at EXCEPT ![t] = [pc |-> pc, todo |-> todo, got |-> got]]
    BY <1>5 DEF ReadAdom
  <2>2. UNCHANGED <<device, health, value>>
    BY <1>5 DEF ReadAdom
  <2>3. QED
    BY <2>1, <2>2
<1>6. CASE StoreEntry(t)
  <2>1. \E pc, todo, got : at' = [at EXCEPT ![t] = [pc |-> pc, todo |-> todo, got |-> got]]
    BY <1>6 DEF StoreEntry
  <2>2. UNCHANGED <<device, health>>
    BY <1>6 DEF StoreEntry
  <2>3. \E v : value' = [value EXCEPT !["pending"] = v]
    BY <1>6 DEF StoreEntry
  <2>4. CacheOf[t] = "pending"
    BY <1>6 DEF StoreEntry, AtPoint
  <2>5. QED
    BY <2>1, <2>2, <2>3, <2>4
<1>7. QED
  BY <1>1, <1>2, <1>3, <1>4, <1>5, <1>6 DEF RunStepOf

LEMMA PointsReached ==
    ASSUME FleetShape, NEW t \in CacheThread, StartSweep(t) \/ RunStepOf(t)
    PROVE  IF CacheOf[t] = "pending" THEN at'[t].pc \in SweepPoints ELSE at'[t].pc \notin {"claim", "entry"}
<1> USE FleetAssumption DEF FleetShape, SweepPoints
<1>a. ASSUME NEW pc, Goto(t, pc)
      PROVE  at'[t].pc = pc
  BY <1>a DEF Goto, Rest
<1>b. AfterRun(t) \in {"idle", "started", "release", "done"}
  BY DEF AfterRun
<1>1. CASE StartSweep(t)
  <2>1. at'[t].pc = IF CacheOf[t] = "pending" THEN "claim" ELSE IF CacheOf[t] = "adoms" THEN "adoms" ELSE "test"
    BY <1>1 DEF StartSweep, Goto, Rest
  <2>2. QED
    BY <2>1
<1>2. CASE _run_refresh(t)
  BY <1>2, <1>a DEF _run_refresh, AtPoint
<1>3. CASE TestFlag(t) \/ SetFlag(t) \/ MarkStarted(t)
  <2>1. CacheOf[t] # "pending"
    BY <1>3 DEF TestFlag, SetFlag, MarkStarted, AtPoint
  <2>2. at'[t].pc \in {"set", "mark", "adoms", "idle", "started", "release", "done"}
    BY <1>3, <1>a, <1>b DEF TestFlag, SetFlag, MarkStarted
  <2>3. QED
    BY <2>1, <2>2
<1>4. ASSUME NEW ok \in BOOLEAN, GetAdoms(t, ok)
      PROVE  at'[t].pc \in {"error", "publish", "read"}
  BY <1>4 DEF GetAdoms
<1>5. ASSUME NEW ok \in BOOLEAN, PublishSweep(t, ok)
      PROVE  at'[t].pc \in {"row", "error"}
  BY <1>5 DEF PublishSweep, Rest
<1>6. ASSUME NEW ok \in BOOLEAN, SaveSnapshot(t, ok)
      PROVE  at'[t].pc = "clear"
  BY <1>6, <1>a DEF SaveSnapshot
<1>7. ASSUME NEW a \in AdomName, NEW f \in Failures(CacheOf[t], a), ReadAdom(t, a, f)
      PROVE  /\ at'[t].pc \in {"entry", "publish", "read"}
             /\ CacheOf[t] # "pending" => at'[t].pc # "entry"
  BY <1>7 DEF ReadAdom
<1>8. CASE StoreEntry(t)
  BY <1>8 DEF StoreEntry
<1>9. CASE FailCache(t)
  BY <1>9, <1>a DEF FailCache
<1>10. CASE ClearFlag(t)
  BY <1>10, <1>a, <1>b DEF ClearFlag
<1>11. CASE CacheOf[t] = "map" /\ _startup(t)
  BY <1>11, <1>a DEF _startup
<1>12. CASE CacheOf[t] = "summary" /\ _summary_startup(t)
  BY <1>12, <1>a DEF _summary_startup
<1>13. CASE ReleaseMapLock(t)
  BY <1>13, <1>a DEF ReleaseMapLock
<1>14. QED
  BY <1>1, <1>2, <1>3, <1>4, <1>5, <1>6, <1>7, <1>8, <1>9, <1>10, <1>11, <1>12, <1>13 DEF RunStepOf

(* What a thread of the pending cache can do.                              *)
SameCache == value'["pending"] = value["pending"] /\ health'["pending"] = health["pending"]
Rests(t)  == SameCache /\ ~AtWork(t) /\ at'[t].pc \in {"idle", "claim", "clear", "started", "release", "done"}
Claims(t) == /\ value'["pending"] = value["pending"]
             /\ health["pending"] # "running" /\ health'["pending"] = "running"
             /\ at'[t].pc = "adoms"
Works(t)  == SameCache /\ AtWork(t) /\ at'[t].pc \in {"read", "publish", "error"}
Reads(t)  == /\ SameCache /\ AtWork(t)
             /\ at'[t].pc = "entry"
             /\ \E a \in AdomName, f \in Box \cup {"none"} : at'[t].got = [x \in {a} |-> PendingOf(a, f)]
Stores(t) == /\ health'["pending"] = health["pending"]
             /\ AtWork(t) /\ at[t].pc = "entry"
             /\ at'[t].pc \in {"read", "publish"}
             /\ value'["pending"] = [a \in AdomName |-> IF a \in DOMAIN at[t].got THEN at[t].got[a]
                                                        ELSE value["pending"][a]]
Ends(t)   == /\ value'["pending"] = value["pending"]
             /\ AtWork(t)
             /\ at'[t].pc \in {"row", "clear"}

LEMMA PendingSteps ==
    ASSUME FleetShape, NEW t \in CacheThread, CacheOf[t] = "pending", StartSweep(t) \/ RunStepOf(t)
    PROVE  Rests(t) \/ Claims(t) \/ Works(t) \/ Reads(t) \/ Stores(t) \/ Ends(t)
<1> USE FleetAssumption DEF FleetShape, SweepPoints
<1>a. ASSUME NEW pc, Goto(t, pc)
      PROVE  at'[t].pc = pc
  BY <1>a DEF Goto, Rest
<1>b. AfterRun(t) \in {"idle", "started", "release", "done"}
  BY DEF AfterRun
<1>c. "pending" \in CacheKind /\ "pending" \notin OneCall /\ "pending" \notin Filed /\ "pending" \notin Kept
  BY DEF CacheKind, OneCall, Filed, Kept
<1>1. CASE StartSweep(t)
  <2>1. at'[t].pc = "claim"
    BY <1>1 DEF StartSweep, Goto, Rest
  <2>2. QED
    BY <1>1, <2>1 DEF StartSweep, Rests, SameCache, AtWork, AtPoint
<1>2. CASE _run_refresh(t)
  <2>1. CASE health["pending"] = "running"
    BY <1>2, <1>a, <2>1 DEF _run_refresh, Rests, SameCache, AtWork, AtPoint
  <2>2. CASE health["pending"] # "running"
    BY <1>2, <1>a, <2>2 DEF _run_refresh, Claims
  <2>3. QED
    BY <2>1, <2>2
<1>3. CASE TestFlag(t) \/ SetFlag(t) \/ MarkStarted(t)
  BY <1>3 DEF TestFlag, SetFlag, MarkStarted, AtPoint
<1>4. ASSUME NEW ok \in BOOLEAN, GetAdoms(t, ok)
      PROVE  Works(t)
  <2>1. at'[t].pc \in {"error", "read"}
    BY <1>4, <1>c DEF GetAdoms
  <2>2. QED
    BY <1>4, <2>1 DEF GetAdoms, Works, SameCache, AtWork, AtPoint
<1>5. ASSUME NEW ok \in BOOLEAN, PublishSweep(t, ok)
      PROVE  Ends(t)
  <2>1. at'[t].pc = "row"
    BY <1>5, <1>c DEF PublishSweep, Rest
  <2>2. QED
    BY <1>5, <2>1 DEF PublishSweep, Ends, AtWork, AtPoint
<1>6. ASSUME NEW ok \in BOOLEAN, SaveSnapshot(t, ok)
      PROVE  Rests(t)
  BY <1>6, <1>a DEF SaveSnapshot, Rests, SameCache, AtWork, AtPoint
<1>7. ASSUME NEW a \in AdomName, NEW f \in Failures(CacheOf[t], a), ReadAdom(t, a, f)
      PROVE  Works(t) \/ Reads(t)
  <2>1. SameCache /\ AtWork(t)
    BY <1>7 DEF ReadAdom, SameCache, AtWork, AtPoint
  <2>2. CASE f = "devices"
    BY <1>7, <2>1, <2>2 DEF ReadAdom, Works
  <2>3. CASE f # "devices"
    <3>1. f \in Box \cup {"none"}
      BY <2>3 DEF Failures
    <3>a. WithAnswer("pending", at[t].got, a, f) = With(<<>>, a, PendingOf(a, f))
      BY Zenon DEF WithAnswer
    <3>b. at'[t].pc = "entry"
      BY <1>7, <2>3 DEF ReadAdom
    <3>c. at'[t].got = IF CacheOf[t] = "pending" /\ f = "devices" THEN <<>>
                       ELSE WithAnswer(CacheOf[t], at[t].got, a, f)
      BY <1>7 DEF ReadAdom
    <3>2. at'[t].pc = "entry" /\ at'[t].got = With(<<>>, a, PendingOf(a, f))
      BY <2>3, <3>a, <3>b, <3>c
    <3>3. With(<<>>, a, PendingOf(a, f)) = [x \in {a} |-> PendingOf(a, f)]
      BY DEF With
    <3>4. QED
      BY <2>1, <3>1, <3>2, <3>3 DEF Reads
  <2>4. QED
    BY <2>2, <2>3
<1>8. CASE StoreEntry(t)
  <2>1. at[t].pc = "entry" /\ AtWork(t) /\ at'[t].pc \in {"read", "publish"}
    BY <1>8 DEF StoreEntry, AtWork, AtPoint
  <2>2. health' = health
    BY <1>8 DEF StoreEntry
  <2>3. value'["pending"] = [a \in AdomName |-> IF a \in DOMAIN at[t].got THEN at[t].got[a]
                                                ELSE value["pending"][a]]
    BY <1>8, <1>c DEF StoreEntry
  <2>4. QED
    BY <2>1, <2>2, <2>3 DEF Stores
<1>9. CASE FailCache(t)
  BY <1>9, <1>a DEF FailCache, Ends, AtWork, AtPoint
<1>10. CASE ClearFlag(t)
  BY <1>10, <1>a, <1>b DEF ClearFlag, Rests, SameCache, AtWork, AtPoint
<1>11. CASE ReleaseMapLock(t)
  BY <1>11, <1>a DEF ReleaseMapLock, Rests, SameCache, AtWork, AtPoint
<1>12. QED
  BY <1>1, <1>2, <1>3, <1>4, <1>5, <1>6, <1>7, <1>8, <1>9, <1>10, <1>11 DEF RunStepOf

LEMMA ShapeStep == PendingIInv /\ [FleetNext]_fleetVars => FleetShape'
<1> SUFFICES ASSUME PendingIInv, [FleetNext]_fleetVars
             PROVE  FleetShape'
  OBVIOUS
<1>0. FleetShape
  BY DEF PendingIInv
<1>1. ASSUME NEW t \in CacheThread, StartSweep(t) \/ RunStepOf(t)
      PROVE  FleetShape'
  <2>0. /\ device' \in [Box -> Nat]
        /\ health' = [k \in Kept \cup {"pending"} |-> health'[k]]
        /\ value' = [k \in CacheKind |-> value'[k]]
        /\ at' = [at EXCEPT ![t] = [pc |-> at'[t].pc, todo |-> at'[t].todo, got |-> at'[t].got]]
    BY <1>0, <1>1, ThreadMoves DEF FleetShape
  <2>1. at' = [u \in CacheThread |-> [pc |-> at'[u].pc, todo |-> at'[u].todo, got |-> at'[u].got]]
    BY <1>0, <2>0 DEF FleetShape
  <2>2. \A u \in CacheThread : IF CacheOf[u] = "pending" THEN at'[u].pc \in SweepPoints
                               ELSE at'[u].pc \notin {"claim", "entry"}
    BY <1>0, <1>1, ThreadMoves, PointsReached DEF FleetShape
  <2>3. value'["pending"] = [a \in AdomName |-> value'["pending"][a]]
    <3>1. CASE value'["pending"] = value["pending"]
      BY <1>0, <3>1 DEF FleetShape
    <3>2. CASE CacheOf[t] = "pending"
      <4>1. Rests(t) \/ Claims(t) \/ Works(t) \/ Reads(t) \/ Stores(t) \/ Ends(t)
        BY <1>0, <1>1, <3>2, PendingSteps
      <4>2. CASE Stores(t)
        BY <4>2 DEF Stores
      <4>3. QED
        BY <3>1, <4>1, <4>2 DEF Rests, Claims, Works, Reads, Ends, SameCache
    <3>3. QED
      BY <1>0, <1>1, <3>1, <3>2, ThreadMoves
  <2>4. QED
    BY <2>0, <2>1, <2>2, <2>3 DEF FleetShape
<1>2. ASSUME NEW b \in Box, ChangeBox(b)
      PROVE  FleetShape'
  BY <1>0, <1>2 DEF ChangeBox, FleetShape
<1>3. CASE RestartCaches
  <2>1. /\ device' \in [Box -> Nat]
        /\ health' = [k \in Kept \cup {"pending"} |-> health'[k]]
        /\ value' = [k \in CacheKind |-> value'[k]]
    BY <1>0, <1>3 DEF RestartCaches, FleetShape
  <2>2. value'["pending"] = [a \in AdomName |-> NoEntry]
    BY <1>3 DEF RestartCaches, CacheKind, Kept
  <2>3. at' = [t \in CacheThread |-> [pc |-> "idle", todo |-> {}, got |-> <<>>]]
    BY <1>3 DEF RestartCaches, Rest
  <2>4. QED
    BY <2>1, <2>2, <2>3 DEF FleetShape, SweepPoints
<1>4. CASE UNCHANGED fleetVars
  BY <1>0, <1>4 DEF fleetVars, FleetShape
<1>5. QED
  BY <1>1, <1>2, <1>3, <1>4 DEF FleetNext

(* Nobody else is at work when a thread claims the cache, and the others   *)
(* do not touch it until that thread is done.                              *)
LEMMA OneAtWorkStep == PendingIInv /\ [FleetNext]_fleetVars => OneAtWork'
<1> SUFFICES ASSUME PendingIInv, [FleetNext]_fleetVars
             PROVE  OneAtWork'
  OBVIOUS
<1>0. FleetShape /\ OneAtWork /\ FleetShape'
  BY ShapeStep DEF PendingIInv
<1>1. ASSUME NEW t \in CacheThread, StartSweep(t) \/ RunStepOf(t)
      PROVE  OneAtWork'
  <2>1. \A u \in CacheThread : u # t => (AtWork(u)' <=> AtWork(u))
    BY <1>0, <1>1, ThreadMoves DEF AtWork, FleetShape
  <2>2. CASE CacheOf[t] # "pending"
    BY <1>0, <1>1, <2>1, <2>2, ThreadMoves DEF OneAtWork, AtWork
  <2>3. CASE CacheOf[t] = "pending"
    <3>1. CASE Rests(t) \/ Ends(t)
      <4>1. ~AtWork(t)'
        BY <3>1 DEF Rests, Ends, AtWork
      <4>2. CASE Rests(t)
        BY <1>0, <2>1, <4>1, <4>2 DEF Rests, SameCache, OneAtWork
      <4>3. CASE Ends(t)
        <5>1. \A u \in CacheThread : ~AtWork(u)'
          BY <1>0, <2>1, <4>1, <4>3 DEF Ends, OneAtWork
        <5>2. QED
          BY <5>1 DEF OneAtWork
      <4>4. QED
        BY <3>1, <4>2, <4>3
    <3>2. CASE Claims(t)
      <4>1. \A u \in CacheThread : ~AtWork(u)
        BY <1>0, <3>2 DEF Claims, OneAtWork
      <4>2. \A u \in CacheThread : AtWork(u)' => u = t
        BY <2>1, <4>1
      <4>3. QED
        BY <3>2, <4>2 DEF Claims, OneAtWork
    <3>3. CASE Works(t) \/ Reads(t) \/ Stores(t)
      <4>1. AtWork(t) /\ health'["pending"] = health["pending"]
        BY <3>3 DEF Works, Reads, Stores, SameCache
      <4>2. \A u \in CacheThread : AtWork(u)' => u = t
        BY <1>0, <2>1, <4>1 DEF OneAtWork
      <4>3. QED
        BY <1>0, <4>1, <4>2 DEF OneAtWork
    <3>4. QED
      BY <1>0, <1>1, <2>3, <3>1, <3>2, <3>3, PendingSteps
  <2>4. QED
    BY <2>2, <2>3
<1>2. ASSUME NEW b \in Box, ChangeBox(b)
      PROVE  OneAtWork'
  BY <1>0, <1>2 DEF ChangeBox, OneAtWork, AtWork
<1>3. CASE RestartCaches
  BY <1>3 DEF RestartCaches, OneAtWork, AtWork, Rest
<1>4. CASE UNCHANGED fleetVars
  BY <1>0, <1>4 DEF fleetVars, OneAtWork, AtWork
<1>5. QED
  BY <1>1, <1>2, <1>3, <1>4 DEF FleetNext

LEMMA ReadIsKnown ==
    ASSUME FleetShape, NEW a \in AdomName, NEW f \in Box \cup {"none"}
    PROVE  /\ Known(device, a, PendingOf(a, f))
           /\ \A b \in BoxesOf[a] : PendingOf(a, f)[b].version = device[b]
<1>1. BoxesOf[a] \subseteq Box /\ device \in [Box -> Nat]
  BY FleetAssumption DEF FleetShape
<1>2. \A b \in BoxesOf[a] : PendingOf(a, f)[b] = [version |-> device[b], pkg |-> IF b = f THEN 0 ELSE device[b]]
  BY DEF PendingOf
<1>3. PendingOf(a, f) \in Entry(a)
  BY <1>1 DEF PendingOf, Entry
<1>4. ASSUME NEW b \in BoxesOf[a]
      PROVE  PendingOf(a, f)[b].version = device[b] /\ device[b] \in Nat
  <2>0. PendingOf(a, f)[b] = [version |-> device[b], pkg |-> IF b = f THEN 0 ELSE device[b]]
    BY <1>2
  <2>1. PendingOf(a, f)[b].version = device[b]
    BY <2>0
  <2>2. QED
    BY <1>1, <2>1
<1>5. QED
  BY <1>3, <1>4 DEF Known

(* The versions of the devices only grow.                                  *)
LEMMA KnownStays ==
    ASSUME FleetShape, FleetShape', \A b \in Box : device[b] <= device'[b],
           NEW a \in AdomName, NEW e, Known(device, a, e)
    PROVE  Known(device', a, e)
<1>1. \A b \in BoxesOf[a] : b \in Box /\ e[b].version \in Nat /\ device[b] \in Nat /\ device'[b] \in Nat
  BY FleetAssumption DEF FleetShape, Known, Entry
<1>2. QED
  BY <1>1 DEF Known, Entry

LEMMA DevicesGrow ==
    PendingIInv /\ [FleetNext]_fleetVars => \A b \in Box : device[b] <= device'[b]
<1> SUFFICES ASSUME PendingIInv, [FleetNext]_fleetVars, NEW b \in Box
             PROVE  device[b] <= device'[b]
  OBVIOUS
<1>0. FleetShape /\ device[b] \in Nat
  BY DEF PendingIInv, FleetShape
<1>1. ASSUME NEW c \in Box, ChangeBox(c)
      PROVE  device[b] <= device'[b]
  BY <1>0, <1>1 DEF ChangeBox, FleetShape
<1>2. CASE UNCHANGED device
  BY <1>0, <1>2
<1>3. QED
  BY <1>0, <1>1, <1>2, ThreadMoves DEF FleetNext, RestartCaches, fleetVars

(* What the published entries become in a step.                            *)
LEMMA EntriesStep ==
    PendingIInv /\ [FleetNext]_fleetVars =>
        \A a \in AdomName : value'["pending"][a] # NoEntry =>
            \/ value'["pending"][a] = value["pending"][a]
            \/ /\ Known(device, a, value'["pending"][a])
               /\ value["pending"][a] # NoEntry => NotNewer(a, value["pending"][a], value'["pending"][a])
<1> SUFFICES ASSUME PendingIInv, [FleetNext]_fleetVars, NEW a \in AdomName, value'["pending"][a] # NoEntry
             PROVE  \/ value'["pending"][a] = value["pending"][a]
                    \/ /\ Known(device, a, value'["pending"][a])
                       /\ value["pending"][a] # NoEntry => NotNewer(a, value["pending"][a], value'["pending"][a])
  OBVIOUS
<1>0. FleetShape /\ EntryIsNewest
  BY DEF PendingIInv
<1>1. ASSUME NEW t \in CacheThread, CacheOf[t] = "pending", Stores(t), value'["pending"][a] # value["pending"][a]
      PROVE  /\ Known(device, a, value'["pending"][a])
             /\ value["pending"][a] # NoEntry => NotNewer(a, value["pending"][a], value'["pending"][a])
  <2>1. PICK c \in AdomName :
            /\ at[t].got = [x \in {c} |-> at[t].got[c]]
            /\ Known(device, c, at[t].got[c])
            /\ value["pending"][c] # NoEntry => NotNewer(c, value["pending"][c], at[t].got[c])
    BY <1>0, <1>1 DEF Stores, EntryIsNewest
  <2>2. value'["pending"][a] = IF a \in DOMAIN at[t].got THEN at[t].got[a] ELSE value["pending"][a]
    BY <1>1 DEF Stores
  <2>3. DOMAIN at[t].got = {c}
    BY <2>1
  <2>4. a = c /\ value'["pending"][a] = at[t].got[c]
    BY <1>1, <2>2, <2>3
  <2>5. QED
    BY <2>1, <2>4
<1>2. ASSUME NEW t \in CacheThread, StartSweep(t) \/ RunStepOf(t)
      PROVE  value'["pending"] = value["pending"] \/ (CacheOf[t] = "pending" /\ Stores(t))
  BY <1>0, <1>2, ThreadMoves, PendingSteps DEF Rests, Claims, Works, Reads, Ends, SameCache
<1>3. CASE RestartCaches
  BY <1>3 DEF RestartCaches, CacheKind, Kept
<1>4. CASE UNCHANGED value
  BY <1>4
<1>5. QED
  BY <1>1, <1>2, <1>3, <1>4 DEF FleetNext, ChangeBox, fleetVars

LEMMA PendingStep == PendingIInv /\ [FleetNext]_fleetVars => PendingIInv'
<1> SUFFICES ASSUME PendingIInv, [FleetNext]_fleetVars
             PROVE  PendingIInv'
  OBVIOUS
<1>0. FleetShape /\ FleetShape' /\ OneAtWork /\ OneAtWork' /\ EntriesAreKnown /\ EntryIsNewest
  BY ShapeStep, OneAtWorkStep DEF PendingIInv
<1>1. \A b \in Box : device[b] <= device'[b]
  BY DevicesGrow
<1>2. EntriesAreKnown'
  <2> SUFFICES ASSUME NEW a \in AdomName, value'["pending"][a] # NoEntry
               PROVE  Known(device', a, value'["pending"][a])
    BY DEF EntriesAreKnown
  <2>1. Known(device, a, value'["pending"][a])
    BY <1>0, EntriesStep DEF EntriesAreKnown
  <2>2. QED
    BY <1>0, <1>1, <2>1, KnownStays
<1>3. EntryIsNewest'
  <2> SUFFICES ASSUME NEW u \in CacheThread, AtWork(u)', at'[u].pc = "entry"
               PROVE  \E a \in AdomName :
                         /\ at'[u].got = [x \in {a} |-> at'[u].got[a]]
                         /\ Known(device', a, at'[u].got[a])
                         /\ value'["pending"][a] # NoEntry => NotNewer(a, value'["pending"][a], at'[u].got[a])
    BY DEF EntryIsNewest, NotNewer
  <2>1. CASE ~(at'[u] = at[u])
    <3>1. StartSweep(u) \/ RunStepOf(u)
      <4>1. ASSUME NEW t \in CacheThread, StartSweep(t) \/ RunStepOf(t)
            PROVE  t = u
        BY <1>0, <2>1, <4>1, ThreadMoves DEF FleetShape
      <4>2. QED
        BY <2>1, <4>1 DEF FleetNext, ChangeBox, RestartCaches, Rest, fleetVars
    <3>2. Reads(u)
      BY <1>0, <3>1, PendingSteps DEF AtWork, Rests, Claims, Works, Stores, Ends
    <3>3. PICK a \in AdomName, f \in Box \cup {"none"} : at'[u].got = [x \in {a} |-> PendingOf(a, f)]
      BY <3>2 DEF Reads
    <3> DEFINE e == PendingOf(a, f)
    <3>4. Known(device, a, e) /\ \A b \in BoxesOf[a] : e[b].version = device[b]
      BY <1>0, ReadIsKnown
    <3>5. at'[u].got = [x \in {a} |-> e] /\ at'[u].got[a] = e
      BY <3>3
    <3> HIDE DEF e
    <3>6. Known(device', a, e) /\ at'[u].got[a] = e
      BY <1>0, <1>1, <3>4, <3>5, KnownStays
    <3>7. value'["pending"] = value["pending"]
      BY <3>2 DEF Reads, SameCache
    <3>8. value["pending"][a] # NoEntry => NotNewer(a, value["pending"][a], e)
      BY <1>0, <3>4 DEF EntriesAreKnown, Known, NotNewer
    <3>9. QED
      BY <3>5, <3>6, <3>7, <3>8
  <2>2. CASE at'[u] = at[u]
    <3>1. AtWork(u) /\ at[u].pc = "entry"
      BY <2>2 DEF AtWork
    <3>2. PICK a \in AdomName :
            /\ at[u].got = [x \in {a} |-> at[u].got[a]]
            /\ Known(device, a, at[u].got[a])
            /\ value["pending"][a] # NoEntry => NotNewer(a, value["pending"][a], at[u].got[a])
      BY <1>0, <3>1 DEF EntryIsNewest
    <3>3. value'["pending"] = value["pending"]
      <4>1. ASSUME NEW t \in CacheThread, StartSweep(t) \/ RunStepOf(t)
            PROVE  value'["pending"] = value["pending"]
        <5>1. CASE CacheOf[t] = "pending" /\ Stores(t)
          <6>1. t = u
            BY <1>0, <3>1, <5>1 DEF Stores, OneAtWork
          <6>2. QED
            BY <2>2, <3>1, <5>1, <6>1 DEF Stores
        <5>2. QED
          BY <1>0, <4>1, <5>1, ThreadMoves, PendingSteps DEF Rests, Claims, Works, Reads, Ends, SameCache
      <4>2. ~RestartCaches
        BY <2>2, <3>1 DEF RestartCaches, Rest
      <4>3. QED
        BY <4>1, <4>2 DEF FleetNext, ChangeBox, fleetVars
    <3> DEFINE e == at[u].got[a]
    <3>4. Known(device, a, e) /\ at'[u].got[a] = e
      BY <2>2, <3>2
    <3> HIDE DEF e
    <3>5. Known(device', a, e)
      BY <1>0, <1>1, <3>4, KnownStays
    <3>6. QED
      BY <2>2, <3>2, <3>3, <3>4, <3>5 DEF e
  <2>3. QED
    BY <2>1, <2>2
<1>4. QED
  BY <1>0, <1>2, <1>3 DEF PendingIInv

(* PendingNeverGoesBack, for any devices, ADOMs and threads, and whatever  *)
(* calls fail: no sweep of the pending cache puts an older list of an      *)
(* ADOM's devices in the place of a newer one.                             *)
THEOREM PendingOnlyAdvances == FleetSpec => PendingNeverGoesBack
<1>1. PendingIInv /\ [FleetNext]_fleetVars =>
        \A a \in AdomName :
          value["pending"][a] # NoEntry /\ value'["pending"][a] # NoEntry =>
            \A b \in BoxesOf[a] : value["pending"][a][b].version <= value'["pending"][a][b].version
  <2> SUFFICES ASSUME PendingIInv, [FleetNext]_fleetVars, NEW a \in AdomName,
                      value["pending"][a] # NoEntry, value'["pending"][a] # NoEntry, NEW b \in BoxesOf[a]
               PROVE  value["pending"][a][b].version <= value'["pending"][a][b].version
    OBVIOUS
  <2>1. CASE value'["pending"][a] = value["pending"][a]
    <3>1. value["pending"][a] \in Entry(a)
      BY DEF PendingIInv, EntriesAreKnown, Known
    <3>2. value["pending"][a][b].version \in Nat
      BY <3>1 DEF Entry
    <3>3. QED
      BY <2>1, <3>2
  <2>2. CASE NotNewer(a, value["pending"][a], value'["pending"][a])
    BY <2>2 DEF NotNewer
  <2>3. QED
    BY <2>1, <2>2, EntriesStep
<1>2. QED
  BY <1>1, PendingInit, PendingStep, PTL DEF FleetSpec, PendingNeverGoesBack
=============================================================================
