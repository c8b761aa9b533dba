----------------------------- MODULE SweepCache -----------------------------
(***************************************************************************)
(* The all-devices version cache (app/versions_cache.py) and the snapshot  *)
(* it shares between processes (app/collector_store.py): every process     *)
(* keeps the result of its own last sweep of FortiManager in memory, every *)
(* finished sweep also replaces one row of a SQLite database, and a        *)
(* process that has nothing of its own serves that row.                    *)
(*                                                                         *)
(* The devices of an ADOM are abstracted to the version of FortiManager's  *)
(* data that was read; 0 stands for an ADOM whose devices are missing.     *)
(***************************************************************************)
EXTENDS Naturals, FiniteSets

CONSTANTS
    Proc,           \* processes
    SchedulerProc,  \* the processes that refresh the cache every 30 minutes
    Sweeper,        \* threads that run sweeps
    ProcOf,         \* the process of a thread
    CachedAdom,     \* the ADOMs of the FortiManager
    NoRow,          \* nothing persisted yet
    MaxVersion,     \* bound: versions of the data of an ADOM
    MaxRefresh,     \* bound: refreshes asked for by users
    MaxCrashes,     \* bound: process crashes
    MaxFaults       \* bound: failures of FortiManager and of the database

ASSUME SweepAssumption ==
    /\ SchedulerProc \subseteq Proc
    /\ ProcOf \in [Sweeper -> Proc]
    /\ MaxVersion \in Nat \ {0}
    /\ MaxRefresh \in Nat
    /\ MaxCrashes \in Nat
    /\ MaxFaults \in Nat

Versions  == [CachedAdom -> 0..MaxVersion]
Store == [devices : Versions, status : {"pending", "running", "ok", "error"}]

Nothing == [a \in CachedAdom |-> 0]
PendingStore == [devices |-> Nothing, status |-> "pending"]
IdleThread   == [pc |-> "idle", todo |-> {}, result |-> Nothing, snapshot |-> PendingStore]

ASSUME RowAssumption == NoRow \notin Store

VARIABLES
    store,      \* _store of each process
    sweeping,   \* _running of each process
    row,        \* the "versions_cache" row of collector_state.db
    thread,     \* program point and local variables of the threads
    truth,      \* the current data of each ADOM in FortiManager
    refreshes,  \* number of refreshes users have asked for
    sweepCrashes, \* number of crashes so far
    sweepFaults \* number of failures so far

sweepVars == <<store, sweeping, row, thread, truth, refreshes, sweepCrashes, sweepFaults>>

ThreadAt(t, point) == thread[t].pc = point
ThreadTo(t, next) == thread' = [thread EXCEPT ![t].pc = next]
SweepFault(ok) == IF ok THEN UNCHANGED sweepFaults ELSE sweepFaults < MaxFaults /\ sweepFaults' = sweepFaults + 1

\* What a request of process p is served: the persisted row while the status of the
\* process is pending, its own store afterwards.
get_cached(p) ==
    IF store[p].status = "pending" /\ row # NoRow THEN row ELSE store[p]

----------------------------------------------------------------------------
(* A sweep: _run_job *)

\* By the interval trigger or the warm-up at startup, or because a user asks for it.
TriggerSweep(t) ==
    /\ ThreadAt(t, "idle")
    /\ \/ ProcOf[t] \in SchedulerProc /\ UNCHANGED refreshes
       \/ refreshes < MaxRefresh /\ refreshes' = refreshes + 1
    /\ ThreadTo(t, "check")
    /\ UNCHANGED <<store, sweeping, row, truth, sweepCrashes, sweepFaults>>

\* _running is looked at, and set in a later step: this is not a lock.
CheckRunning(t) ==
    /\ ThreadAt(t, "check")
    /\ ThreadTo(t, IF sweeping[ProcOf[t]] THEN "idle" ELSE "claim")
    /\ UNCHANGED <<store, sweeping, row, truth, refreshes, sweepCrashes, sweepFaults>>

ClaimRunning(t) ==
    /\ ThreadAt(t, "claim")
    /\ sweeping' = [sweeping EXCEPT ![ProcOf[t]] = TRUE]
    /\ ThreadTo(t, "mark")
    /\ UNCHANGED <<store, row, truth, refreshes, sweepCrashes, sweepFaults>>

MarkStore(t) ==
    /\ ThreadAt(t, "mark")
    /\ store' = [store EXCEPT ![ProcOf[t]].status = "running"]
    /\ ThreadTo(t, "adoms")
    /\ UNCHANGED <<sweeping, row, truth, refreshes, sweepCrashes, sweepFaults>>

\* Login and the list of ADOMs; a failure here fails the run.
ListAdoms(t, ok) ==
    /\ ThreadAt(t, "adoms")
    /\ SweepFault(ok)
    /\ thread' = [thread EXCEPT ![t] = [pc |-> IF ok THEN "fetch" ELSE "error",
                     todo |-> CachedAdom, result |-> Nothing, snapshot |-> PendingStore]]
    /\ UNCHANGED <<store, sweeping, row, truth, refreshes, sweepCrashes>>

\* The devices of one ADOM; a failure here is logged and the ADOM left out.
FetchCachedAdom(t, a, ok) ==
    LET v == thread[t] IN
    /\ ThreadAt(t, "fetch")
    /\ a \in v.todo
    /\ SweepFault(ok)
    /\ thread' = [thread EXCEPT ![t] = [pc |-> IF v.todo = {a} THEN "publish" ELSE "fetch",
                     todo |-> v.todo \ {a}, snapshot |-> PendingStore,
                     result |-> [v.result EXCEPT ![a] = IF ok THEN truth[a] ELSE 0]]]
    /\ UNCHANGED <<store, sweeping, row, truth, refreshes, sweepCrashes>>

\* The store is replaced, and copied for the database, under _lock.
PublishStore(t) ==
    LET new == [devices |-> thread[t].result, status |-> "ok"] IN
    /\ ThreadAt(t, "publish")
    /\ store' = [store EXCEPT ![ProcOf[t]] = new]
    /\ thread' = [thread EXCEPT ![t] = [IdleThread EXCEPT !.pc = "persist", !.snapshot = new]]
    /\ UNCHANGED <<sweeping, row, truth, refreshes, sweepCrashes, sweepFaults>>

\* collector_store.write_snapshot, whose errors are logged and ignored.
write_snapshot(t, ok) ==
    /\ ThreadAt(t, "persist")
    /\ SweepFault(ok)
    /\ row' = IF ok THEN thread[t].snapshot ELSE row
    /\ thread' = [thread EXCEPT ![t] = [IdleThread EXCEPT !.pc = "clear"]]
    /\ UNCHANGED <<store, sweeping, truth, refreshes, sweepCrashes>>

\* Mutant of FailRun: the failure is only logged.
FailSilently(t) ==
    /\ ThreadAt(t, "error")
    /\ thread' = [thread EXCEPT ![t] = [IdleThread EXCEPT !.pc = "clear"]]
    /\ UNCHANGED <<store, sweeping, row, truth, refreshes, sweepCrashes, sweepFaults>>

\* The except branch: the devices of the last good run stay.
FailRun(t) ==
    /\ ThreadAt(t, "error")
    /\ store' = [store EXCEPT ![ProcOf[t]].status = "error"]
    /\ thread' = [thread EXCEPT ![t] = [IdleThread EXCEPT !.pc = "clear"]]
    /\ UNCHANGED <<sweeping, row, truth, refreshes, sweepCrashes, sweepFaults>>

\* Mutant of ClearRun: the flag is left set.
ClearRunForgotten(t) ==
    /\ ThreadAt(t, "clear")
    /\ ThreadTo(t, "idle")
    /\ UNCHANGED <<store, sweeping, row, truth, refreshes, sweepCrashes, sweepFaults>>

\* finally: whoever ends clears the flag, whoever set it.
ClearRun(t) ==
    /\ ThreadAt(t, "clear")
    /\ sweeping' = [sweeping EXCEPT ![ProcOf[t]] = FALSE]
    /\ ThreadTo(t, "idle")
    /\ UNCHANGED <<store, row, truth, refreshes, sweepCrashes, sweepFaults>>

----------------------------------------------------------------------------
(* Environment *)

\* Devices are added, removed or upgraded.
ChangeAdom(a) ==
    /\ truth[a] < MaxVersion
    /\ truth' = [truth EXCEPT ![a] = @ + 1]
    /\ UNCHANGED <<store, sweeping, row, thread, refreshes, sweepCrashes, sweepFaults>>

\* A process dies and is started again; the database stays.
RestartProc(p) ==
    /\ sweepCrashes < MaxCrashes
    /\ sweepCrashes' = sweepCrashes + 1
    /\ store' = [store EXCEPT ![p] = PendingStore]
    /\ sweeping' = [sweeping EXCEPT ![p] = FALSE]
    /\ thread' = [t \in Sweeper |-> IF ProcOf[t] = p THEN IdleThread ELSE thread[t]]
    /\ UNCHANGED <<row, truth, refreshes, sweepFaults>>

----------------------------------------------------------------------------
(* Specification *)

SweepInit ==
    /\ store = [p \in Proc |-> PendingStore]
    /\ sweeping = [p \in Proc |-> FALSE]
    /\ row = NoRow
    /\ thread = [t \in Sweeper |-> IdleThread]
    /\ truth = [a \in CachedAdom |-> 1]
    /\ refreshes = 0 /\ sweepCrashes = 0 /\ sweepFaults = 0

\* The steps of a run that has been triggered.
SweepRunStep(t) ==
    \/ CheckRunning(t) \/ ClaimRunning(t) \/ MarkStore(t)
    \/ \E ok \in BOOLEAN :
          ListAdoms(t, ok) \/ write_snapshot(t, ok) \/ \E a \in CachedAdom : FetchCachedAdom(t, a, ok)
    \/ PublishStore(t) \/ FailRun(t) \/ ClearRun(t)

SweepNext ==
    \/ \E t \in Sweeper : TriggerSweep(t) \/ SweepRunStep(t)
    \/ \E a \in CachedAdom : ChangeAdom(a)
    \/ \E p \in Proc : RestartProc(p)

SweepSpec == SweepInit /\ [][SweepNext]_sweepVars

\* A run that was triggered goes on (its requests have timeouts), and the interval
\* trigger of a scheduler process keeps firing.
FairSweepSpec ==
    /\ SweepSpec
    /\ \A t \in Sweeper : WF_sweepVars(SweepRunStep(t))
    /\ \A t \in Sweeper : ProcOf[t] \in SchedulerProc => WF_sweepVars(TriggerSweep(t))

----------------------------------------------------------------------------
(* Properties *)

SweepTypeOK ==
    /\ store \in [Proc -> Store]
    /\ sweeping \in [Proc -> BOOLEAN]
    /\ row \in Store \cup {NoRow}
    /\ thread \in [Sweeper -> [pc : {"idle", "check", "claim", "mark", "adoms", "fetch",
                                     "publish", "persist", "error", "clear"},
                               todo : SUBSET CachedAdom, result : Versions, snapshot : Store]]
    /\ truth \in Versions
    /\ refreshes \in 0..MaxRefresh /\ sweepCrashes \in 0..MaxCrashes /\ sweepFaults \in 0..MaxFaults

\* The page polls while the status is "running": it is shown only while a sweep of
\* the process is really under way, although sweeps can overlap (the _running flag
\* is checked and set in two steps) and overwrite each other's status.
RunningMeansSweeping ==
    \A p \in Proc : store[p].status = "running" =>
        \E t \in Sweeper : ProcOf[t] = p /\ thread[t].pc \in {"adoms", "fetch", "publish", "error"}

\* However sweeps fail, overlap, finish out of order and crash: once FortiManager
\* stops changing, the scheduler processes, and every process that serves the shared
\* row, come to serve its current data, and go on doing so.
Converges ==
    <>[](\A p \in Proc : p \in SchedulerProc \/ store[p].status = "pending" =>
            get_cached(p).devices = truth)

=============================================================================
