----------------------- MODULE ScheduledJobs_proofs -----------------------
(***************************************************************************)
(* Theorems about ScheduledJobs, for any number of processes, hosts,       *)
(* threads, jobs and runs.                                                 *)
(***************************************************************************)
EXTENDS ScheduledJobs, TLAPS

(* Types of the operators that actions are built from *)

LEMMA IdleType == Idle \in Thread
BY SentinelAssumption, BoundAssumption
   DEF Idle, Thread, PC, Body, Saving, Empty, Jobs

LEMMA EmptyType == Empty \in Jobs
BY DEF Empty, Jobs

LEMMA LoadType == TypeOK => Load \in Jobs
BY DEF TypeOK, Load, Empty, Jobs

LEMMA WantedType ==
    ASSUME NEW entry \in Entry \cup {NoJob}
    PROVE  Wanted(entry) \in Schedule \cup {NoTrigger}
BY DEF Wanted, Entry

LEMMA ContinueType ==
    ASSUME NEW t \in Thread, NEW next \in PC
    PROVE  Continue(t, next) \in Thread
BY IdleType DEF Continue, Thread

LEMMA WithRecordType ==
    ASSUME NEW jobs \in Jobs, NEW j, NEW rec \in Record
    PROVE  WithRecord(jobs, j, rec) \in Jobs
<1>1. CASE j \in Job /\ jobs[j] # NoJob
  <2>1. jobs[j] \in Entry
    BY <1>1 DEF Jobs
  <2>2. [jobs[j] EXCEPT !.runs = jobs[j].runs \cup {rec}] \in Entry
    BY <2>1 DEF Entry
  <2>. QED BY <2>2, <1>1 DEF WithRecord, Jobs
<1>2. CASE j \in Job /\ jobs[j] = NoJob
  BY <1>2 DEF WithRecord
<1>3. CASE j \notin Job
  BY <1>3 DEF WithRecord, Jobs
<1>. QED BY <1>1, <1>2, <1>3

LEMMA PrunedType ==
    ASSUME NEW jobs \in Jobs, NEW j
    PROVE  Pruned(jobs, j) \in Jobs
<1>1. CASE j \in Job /\ jobs[j] # NoJob
  <2>1. jobs[j] \in Entry
    BY <1>1 DEF Jobs
  <2>2. [jobs[j] EXCEPT !.runs = {r \in jobs[j].runs : r.run \notin expired}] \in Entry
    BY <2>1 DEF Entry
  <2>. QED BY <2>2, <1>1 DEF Pruned, Jobs
<1>2. CASE j \in Job /\ jobs[j] = NoJob
  BY <1>2 DEF Pruned
<1>3. CASE j \notin Job
  BY <1>3 DEF Pruned, Jobs
<1>. QED BY <1>1, <1>2, <1>3

LEMMA GoToType ==
    ASSUME TypeOK, NEW a \in Actor, NEW next \in PC, GoTo(a, next)
    PROVE  thread' \in [Actor -> Thread]
<1>1. Continue(thread[a], next) \in Thread
  BY ContinueType DEF TypeOK
<1>. QED BY <1>1 DEF GoTo, TypeOK

LEMMA LoadModifyType ==
    ASSUME TypeOK, NEW a \in Actor, NEW t \in Thread, NEW jobs \in Jobs,
           NEW ok \in PC, NEW err \in PC, LoadModify(a, t, jobs, ok, err)
    PROVE  /\ mutex' \in [Proc -> Actor \cup {Free}]
           /\ thread' \in [Actor -> Thread]
<1>1. [t EXCEPT !.pc = "save", !.buf = jobs, !.ok = ok, !.err = err] \in Thread
  BY DEF Thread, PC, Saving
<1>. QED BY <1>1 DEF LoadModify, TypeOK

LEMMA LeaveType ==
    ASSUME TypeOK, NEW a \in Actor, NEW next \in PC, Leave(a, next)
    PROVE  /\ mutex' \in [Proc -> Actor \cup {Free}]
           /\ thread' \in [Actor -> Thread]
<1>1. [thread[a] EXCEPT !.buf = Empty, !.ok = "idle", !.err = "idle"] \in Thread
  <2>1. thread[a] \in Thread
    BY DEF TypeOK
  <2>. QED BY <2>1, EmptyType DEF Thread, PC
<1>2. Continue([thread[a] EXCEPT !.buf = Empty, !.ok = "idle", !.err = "idle"], next)
        \in Thread
  BY <1>1, ContinueType
<1>. QED BY <1>2 DEF Leave, TypeOK

----------------------------------------------------------------------------
(* Type correctness *)

LEMMA InitTypeOK == Init => TypeOK
<1>. SUFFICES ASSUME Init PROVE TypeOK
  OBVIOUS
<1>1. file \in Jobs
  BY DEF Init, Jobs, Entry
<1>2. \A p \in Proc : FreshTriggers(p, file) \in [Job -> Schedule \cup {NoTrigger}]
  BY <1>1, WantedType DEF FreshTriggers, Jobs
<1>. QED BY <1>1, <1>2, IdleType, BoundAssumption DEF Init, TypeOK

LEMMA EditType ==
    ASSUME TypeOK, NEW a \in Admin, NEW j \in Job, NEW entry \in Entry \cup {NoJob},
           NEW step \in PC, Edit(a, j, entry, step)
    PROVE  /\ mutex' \in [Proc -> Actor \cup {Free}]
           /\ thread' \in [Actor -> Thread]
           /\ edits' \in Nat
           /\ UNCHANGED <<file, sharedVars, up, runs, crashes, mailed, expired>>
<1> DEFINE t == [Idle EXCEPT !.job = j, !.want = Wanted(entry)]
           jobs == [Load EXCEPT ![j] = entry]
           ok == IF ProcOf[a] \in SchedulerProc THEN step ELSE "idle"
<1>1. t \in Thread
  BY IdleType, WantedType DEF Thread
<1>2. jobs \in Jobs
  BY LoadType DEF Jobs
<1>3. ok \in PC /\ "idle" \in PC
  BY DEF PC
<1>4. LoadModify(a, t, jobs, ok, "idle")
  BY DEF Edit
<1>5. a \in Actor
  BY DEF Actor
<1> HIDE DEF t, jobs, ok
<1>6. mutex' \in [Proc -> Actor \cup {Free}] /\ thread' \in [Actor -> Thread]
  BY <1>1, <1>2, <1>3, <1>4, <1>5, LoadModifyType
<1>. QED BY <1>6 DEF Edit, TypeOK

LEMMA AdminType ==
    ASSUME TypeOK, NEW a \in Admin, AdminStep(a)
    PROVE  TypeOK'
<1> USE DEF Actor
<1>1. ASSUME NEW j \in Job, NEW s \in Schedule, NEW e \in BOOLEAN, create_job(a, j, s, e)
      PROVE  TypeOK'
  <2>1. [schedule |-> s, enabled |-> e, runs |-> {}] \in Entry
    BY <1>1 DEF Entry
  <2>2. (IF e THEN "register" ELSE "idle") \in PC
    BY DEF PC
  <2>3. Edit(a, j, [schedule |-> s, enabled |-> e, runs |-> {}],
             IF e THEN "register" ELSE "idle")
    BY <1>1 DEF create_job
  <2>4. used' \subseteq Job /\ deleted' = deleted
    BY <1>1 DEF create_job, TypeOK
  <2>. QED BY <2>1, <2>2, <2>3, <2>4, EditType DEF TypeOK, sharedVars
<1>2. ASSUME NEW j \in Job, NEW s \in Schedule, NEW e \in BOOLEAN, update_job(a, j, s, e)
      PROVE  TypeOK'
  <2>1. Load[j] \in Entry
    BY <1>2, LoadType DEF update_job, Jobs
  <2>2. [Load[j] EXCEPT !.schedule = s, !.enabled = e] \in Entry
    BY <2>1 DEF Entry
  <2>3. "unregister" \in PC
    BY DEF PC
  <2>4. Edit(a, j, [Load[j] EXCEPT !.schedule = s, !.enabled = e], "unregister")
    BY <1>2 DEF update_job
  <2>5. used' = used /\ deleted' = deleted
    BY <1>2 DEF update_job
  <2>. QED BY <2>2, <2>3, <2>4, <2>5, EditType DEF TypeOK, sharedVars
<1>3. ASSUME NEW j \in Job, delete_job(a, j)
      PROVE  TypeOK'
  <2>1. "unregister" \in PC
    BY DEF PC
  <2>2. Edit(a, j, NoJob, "unregister")
    BY <1>3 DEF delete_job
  <2>3. used' = used /\ deleted' \subseteq Job
    BY <1>3 DEF delete_job, TypeOK
  <2>. QED BY <2>1, <2>2, <2>3, EditType DEF TypeOK, sharedVars
<1>4. thread[a].want \in Schedule \cup {NoTrigger} /\ thread[a].job \in Job \cup {NoJob}
  BY DEF TypeOK, Thread
<1>5. CASE Unregister(a)
  <2>1. thread' \in [Actor -> Thread]
    BY <1>5, GoToType DEF Unregister, PC
  <2>2. trigger' \in [Proc -> [Job -> Schedule \cup {NoTrigger}]]
    BY <1>5 DEF Unregister, TypeOK
  <2>. QED BY <2>1, <2>2, <1>5 DEF Unregister, TypeOK, countVars, historyVars
<1>6. CASE Register(a)
  <2>1. thread' \in [Actor -> Thread]
    BY <1>6, GoToType DEF Register, PC
  <2>2. trigger' \in [Proc -> [Job -> Schedule \cup {NoTrigger}]]
    BY <1>6, <1>4 DEF Register, TypeOK
  <2>. QED BY <2>1, <2>2, <1>6 DEF Register, TypeOK, countVars, historyVars
<1>. QED BY <1>1, <1>2, <1>3, <1>5, <1>6 DEF AdminStep

LEMMA AppendRunType ==
    ASSUME TypeOK, NEW a \in Worker, NEW status \in {"ok", "error"},
           NEW ok \in PC, NEW err \in PC, thread[a].run \in Run,
           AppendRun(a, status, ok, err)
    PROVE  TypeOK'
<1>1. [run |-> thread[a].run, status |-> status] \in Record
  BY DEF Record
<1>2. WithRecord(Load, thread[a].job, [run |-> thread[a].run, status |-> status]) \in Jobs
  BY <1>1, LoadType, WithRecordType
<1>3. a \in Actor /\ thread[a] \in Thread
  BY DEF Actor, TypeOK
<1>4. mutex' \in [Proc -> Actor \cup {Free}] /\ thread' \in [Actor -> Thread]
  BY <1>2, <1>3, LoadModifyType DEF AppendRun
<1>. QED BY <1>4 DEF AppendRun, TypeOK, sharedVars, countVars, historyVars

----------------------------------------------------------------------------
(* The inductive invariant *)

\* What the local variables of a worker hold at its program points: inside the try
\* block it has a job and a run number, and a save it makes returns into the block.
Shaped(t) ==
    /\ t.pc \notin {"unregister", "register"}
    /\ t.pc # "idle" => t.job \in Job
    /\ t.pc \in Body \cup Saving => t.run \in Run
    /\ t.pc \in Saving => t.ok \in Body /\ t.err \in Body

\* A worker inside the try block holds the flock of its job on its host.
HoldsFlock(a) ==
    thread[a].pc \in Body \cup Saving => LockOf(a) = a

WorkersInv == \A a \in Worker : Shaped(thread[a]) /\ HoldsFlock(a)

LockInv == TypeOK /\ WorkersInv

LEMMA InitLockInv == Init => LockInv
<1>. SUFFICES ASSUME Init PROVE LockInv
  OBVIOUS
<1>1. TypeOK
  BY InitTypeOK
<1>2. \A a \in Worker : thread[a] = Idle
  BY DEF Init, Actor
<1>3. WorkersInv
  BY <1>2 DEF WorkersInv, Shaped, HoldsFlock, At, Idle, Body, Saving
<1>. QED BY <1>1, <1>3 DEF LockInv

\* A step that moves one thread, to a point inside the try block only from another
\* such point and with the same job, and that leaves the flocks alone.
LEMMA MoveWorkers ==
    ASSUME LockInv, NEW a \in Actor, NEW t,
           thread' = [thread EXCEPT ![a] = t], joblock' = joblock,
           a \in Worker =>
             /\ Shaped(t)
             /\ t.pc \in Body \cup Saving =>
                  thread[a].pc \in Body \cup Saving /\ t.job = thread[a].job
    PROVE  WorkersInv'
<1>. SUFFICES ASSUME NEW b \in Worker PROVE Shaped(thread'[b]) /\ HoldsFlock(b)'
  BY DEF WorkersInv
<1>1. b \in Actor /\ thread \in [Actor -> Thread]
  BY DEF Actor, LockInv, TypeOK
<1>2. Shaped(thread[b]) /\ HoldsFlock(b)
  BY DEF LockInv, WorkersInv
<1>3. CASE b = a
  <2>1. thread'[b] = t
    BY <1>1, <1>3
  <2>. QED BY <2>1, <1>2, <1>3 DEF HoldsFlock, LockOf
<1>4. CASE b # a
  <2>1. thread'[b] = thread[b]
    BY <1>1, <1>4
  <2>. QED BY <2>1, <1>2 DEF HoldsFlock, LockOf
<1>. QED BY <1>3, <1>4

LEMMA SameWorkers ==
    ASSUME LockInv, thread' = thread, joblock' = joblock
    PROVE  WorkersInv'
BY DEF LockInv, WorkersInv, HoldsFlock, LockOf

\* GoTo, from inside the try block to another point of it.
LEMMA GoToBody ==
    ASSUME LockInv, NEW a \in Worker, NEW next \in Body, thread[a].pc \in Body,
           GoTo(a, next)
    PROVE  /\ thread' \in [Actor -> Thread]
           /\ joblock' = joblock => WorkersInv'
<1>1. a \in Actor /\ thread[a] \in Thread /\ Shaped(thread[a]) /\ TypeOK /\ next \in PC
  BY DEF Actor, LockInv, TypeOK, WorkersInv, PC
<1>2. next # "idle" /\ next \notin {"unregister", "register"} /\ next \notin Saving
  BY DEF Body, Saving
<1> DEFINE t == [thread[a] EXCEPT !.pc = next]
<1>3. t \in Thread
  BY <1>1 DEF Thread
<1>4. thread' = [thread EXCEPT ![a] = t]
  BY <1>2 DEF GoTo, Continue
<1>5. Shaped(t) /\ t.job = thread[a].job
  <2>1. t.pc = next /\ t.job = thread[a].job /\ t.run = thread[a].run
    BY <1>1 DEF Thread
  <2>2. thread[a].job \in Job /\ thread[a].run \in Run
    BY <1>1 DEF Shaped, Body
  <2>. QED BY <2>1, <2>2, <1>2 DEF Shaped
<1>. HIDE DEF t
<1>6. joblock' = joblock => WorkersInv'
  BY <1>1, <1>4, <1>5, MoveWorkers
<1>. QED BY <1>1, <1>3, <1>4, <1>6 DEF TypeOK

\* LoadModify, from inside the try block.
LEMMA LoadModifyWorkers ==
    ASSUME LockInv, NEW a \in Worker, NEW jobs, NEW ok \in Body, NEW err \in Body,
           thread[a].pc \in Body, joblock' = joblock,
           LoadModify(a, thread[a], jobs, ok, err)
    PROVE  WorkersInv'
<1>1. a \in Actor /\ thread[a] \in Thread /\ Shaped(thread[a])
  BY DEF Actor, LockInv, TypeOK, WorkersInv
<1> DEFINE t == [thread[a] EXCEPT !.pc = "save", !.buf = jobs, !.ok = ok, !.err = err]
<1>2. /\ t.pc = "save" /\ t.job = thread[a].job /\ t.run = thread[a].run
      /\ t.ok = ok /\ t.err = err
  BY <1>1 DEF Thread
<1>3. thread[a].job \in Job /\ thread[a].run \in Run
  BY <1>1 DEF Shaped, Body
<1>4. Shaped(t)
  BY <1>2, <1>3 DEF Shaped, Body, Saving
<1>5. thread' = [thread EXCEPT ![a] = t]
  BY DEF LoadModify
<1>. HIDE DEF t
<1>. QED BY <1>1, <1>2, <1>4, <1>5, MoveWorkers

\* GoTo, to the idle state.
LEMMA GoToIdle ==
    ASSUME LockInv, NEW a \in Worker, GoTo(a, "idle")
    PROVE  /\ thread' \in [Actor -> Thread]
           /\ joblock' = joblock => WorkersInv'
<1>1. a \in Actor
  BY DEF Actor
<1>2. thread' = [thread EXCEPT ![a] = Idle]
  BY DEF GoTo, Continue
<1>3. Shaped(Idle) /\ Idle.pc \notin Body \cup Saving
  BY DEF Shaped, Idle, Body, Saving
<1>4. joblock' = joblock => WorkersInv'
  BY <1>1, <1>2, <1>3, MoveWorkers
<1>. QED BY <1>1, <1>2, <1>4, IdleType DEF LockInv, TypeOK

LEMMA RunStepLock ==
    ASSUME LockInv, NEW a \in Worker, RunStep(a)
    PROVE  LockInv'
<1>1. /\ TypeOK /\ WorkersInv /\ a \in Actor /\ thread[a] \in Thread
      /\ Shaped(thread[a]) /\ HoldsFlock(a)
  BY DEF LockInv, TypeOK, WorkersInv, Actor
<1>2. CASE TryLock(a)
  <2> DEFINE t == [thread[a] EXCEPT !.pc = "load", !.run = runs + 1]
             h == HostOf[ProcOf[a]]
             j == thread[a].job
  <2>1. runs + 1 \in Run /\ j \in Job /\ h \in Host /\ ProcOf[a] \in Proc
    <3>1. runs + 1 \in Run
      BY <1>1, <1>2, BoundAssumption DEF TryLock, TypeOK, Run
    <3>2. j \in Job
      BY <1>1, <1>2 DEF TryLock, Shaped, At
    <3>3. ProcOf[a] \in Proc /\ h \in Host
      BY <1>1, TopologyAssumption
    <3>. QED BY <3>1, <3>2, <3>3
  <2>2. t \in Thread /\ t.pc = "load" /\ t.job = j /\ t.run = runs + 1
    BY <1>1, <2>1 DEF Thread, PC, Body
  <2>3. thread' = [thread EXCEPT ![a] = t]
    BY <1>2 DEF TryLock
  <2>. HIDE DEF t
  <2>4. thread' \in [Actor -> Thread] /\ runs' \in 0..MaxRuns
    BY <1>1, <1>2, <2>1, <2>2, <2>3, BoundAssumption DEF TypeOK, TryLock, Run
  <2>5. joblock' \in [Host -> [Job -> Actor \cup {Free}]]
    BY <1>1, <1>2 DEF TryLock, TypeOK
  <2>6. running' \in [Proc -> SUBSET Job]
    BY <1>1, <1>2, <2>1 DEF TryLock, TypeOK
  <2>7. TypeOK'
    BY <1>1, <1>2, <2>4, <2>5, <2>6 DEF TryLock, TypeOK, historyVars
  <2>8. ASSUME NEW b \in Worker
        PROVE  Shaped(thread'[b]) /\ HoldsFlock(b)'
    <3>1. b \in Actor /\ Shaped(thread[b]) /\ HoldsFlock(b) /\ Free # b
      BY <1>1, SentinelAssumption DEF WorkersInv, Actor
    <3>2. CASE b = a
      <4>1. thread'[b] = t
        BY <1>1, <2>3, <3>2 DEF TypeOK
      <4>2. Shaped(t)
        BY <2>1, <2>2 DEF Shaped, Saving
      <4>3. joblock'[h][j] = a
        BY <1>1, <1>2, <2>1 DEF TryLock, TypeOK
      <4>. QED BY <4>1, <4>2, <4>3, <2>2, <3>2 DEF HoldsFlock, LockOf
    <3>3. CASE b # a
      <4>1. thread'[b] = thread[b]
        BY <1>1, <2>3, <3>1, <3>3 DEF TypeOK
      <4>2. LockOf(b) = b => LockOf(b)' = b
        BY <1>1, <1>2, <2>1, <3>1, <4>1 DEF TryLock, TypeOK, LockOf
      <4>. QED BY <4>1, <4>2, <3>1 DEF HoldsFlock
    <3>. QED BY <3>2, <3>3
  <2>. QED BY <2>7, <2>8 DEF LockInv, WorkersInv
<1>3. CASE SkipRun(a)
  <2>1. thread' \in [Actor -> Thread] /\ WorkersInv'
    BY <1>3, GoToIdle DEF SkipRun, sharedVars
  <2>. QED BY <2>1, <1>1, <1>3
         DEF SkipRun, LockInv, TypeOK, sharedVars, countVars, historyVars
<1>4. CASE LoadJob(a)
  <2>1. (IF Load[thread[a].job] = NoJob THEN "discard" ELSE "sweep") \in Body
    BY DEF Body
  <2>2. thread' \in [Actor -> Thread] /\ WorkersInv'
    BY <1>4, <2>1, GoToBody DEF LoadJob, sharedVars, At, Body
  <2>. QED BY <2>2, <1>1, <1>4
         DEF LoadJob, LockInv, TypeOK, sharedVars, countVars, historyVars
<1>5. ASSUME NEW ok \in BOOLEAN, Sweep(a, ok)
      PROVE  LockInv'
  <2>1. (IF ok THEN "mail" ELSE "fail") \in Body
    BY DEF Body
  <2>2. thread' \in [Actor -> Thread] /\ WorkersInv'
    BY <1>5, <2>1, GoToBody DEF Sweep, sharedVars, At, Body
  <2>. QED BY <2>2, <1>1, <1>5
         DEF Sweep, LockInv, TypeOK, sharedVars, countVars, historyVars
<1>6. ASSUME NEW ok \in BOOLEAN, send_email(a, ok)
      PROVE  LockInv'
  <2>1. (IF ok THEN "record" ELSE "fail") \in Body
    BY DEF Body
  <2>2. thread' \in [Actor -> Thread] /\ WorkersInv'
    BY <1>6, <2>1, GoToBody DEF send_email, sharedVars, At, Body
  <2>3. mailed' \subseteq Run
    <3>1. thread[a].run \in Run
      BY <1>1, <1>6 DEF send_email, Shaped, At, Body
    <3>. QED BY <3>1, <1>1, <1>6 DEF send_email, TypeOK
  <2>. QED BY <2>2, <2>3, <1>1, <1>6 DEF send_email, LockInv, TypeOK, sharedVars, countVars
<1>7. ASSUME NEW status \in {"ok", "error"}, NEW ok \in Body, NEW err \in Body,
             thread[a].pc \in Body, AppendRun(a, status, ok, err)
      PROVE  LockInv'
  <2>1. thread[a].run \in Run /\ ok \in PC /\ err \in PC
    BY <1>1, <1>7 DEF Shaped, PC
  <2>2. TypeOK'
    BY <1>1, <1>7, <2>1, AppendRunType
  <2>3. WorkersInv'
    BY <1>7, LoadModifyWorkers DEF AppendRun, sharedVars
  <2>. QED BY <2>2, <2>3 DEF LockInv
<1>8. CASE AppendOk(a)
  BY <1>7, <1>8 DEF AppendOk, At, Body
<1>9. CASE AppendError(a)
  BY <1>7, <1>9 DEF AppendError, At, Body
<1>10. CASE PruneRuns(a)
  <2>1. Pruned(Load, thread[a].job) \in Jobs
    BY <1>1, LoadType, PrunedType
  <2>2. "discard" \in Body /\ "fail" \in Body /\ "discard" \in PC /\ "fail" \in PC
    BY DEF Body, PC
  <2>3. mutex' \in [Proc -> Actor \cup {Free}] /\ thread' \in [Actor -> Thread]
    BY <1>1, <1>10, <2>1, <2>2, LoadModifyType DEF PruneRuns
  <2>4. WorkersInv'
    BY <1>10, <2>2, LoadModifyWorkers DEF PruneRuns, sharedVars, At, Body
  <2>. QED BY <2>3, <2>4, <1>1, <1>10
         DEF PruneRuns, LockInv, TypeOK, sharedVars, countVars, historyVars
<1>11. CASE Discard(a)
  <2>1. "unlock" \in Body /\ "discard" \in Body
    BY DEF Body
  <2>2. thread' \in [Actor -> Thread] /\ WorkersInv'
    BY <1>11, <2>1, GoToBody DEF Discard, At
  <2>3. running' \in [Proc -> SUBSET Job]
    BY <1>1, <1>11 DEF Discard, TypeOK
  <2>. QED BY <2>2, <2>3, <1>1, <1>11
         DEF Discard, LockInv, TypeOK, countVars, historyVars
<1>12. CASE Unlock(a)
  <2>1. thread' \in [Actor -> Thread]
    BY <1>12, GoToIdle DEF Unlock
  <2>2. joblock' \in [Host -> [Job -> Actor \cup {Free}]]
    BY <1>1, <1>12 DEF Unlock, TypeOK
  <2>3. LockOf(a) = a
    BY <1>1, <1>12 DEF HoldsFlock, Unlock, At, Body
  <2>4. ASSUME NEW b \in Worker
        PROVE  Shaped(thread'[b]) /\ HoldsFlock(b)'
    <3>1. b \in Actor /\ Shaped(thread[b]) /\ HoldsFlock(b)
      BY <1>1 DEF WorkersInv, Actor
    <3>2. CASE b = a
      <4>1. thread'[b] = Idle
        BY <1>1, <1>12, <3>2 DEF Unlock, GoTo, Continue, TypeOK
      <4>. QED BY <4>1 DEF Shaped, HoldsFlock, Idle, Body, Saving
    <3>3. CASE b # a
      <4>1. thread'[b] = thread[b]
        BY <1>1, <1>12, <3>1, <3>3 DEF Unlock, GoTo, TypeOK
      <4>2. LockOf(b) = b => LockOf(b)' = b
        BY <1>1, <1>12, <2>3, <3>3, <4>1 DEF Unlock, TypeOK, LockOf
      <4>. QED BY <4>1, <4>2, <3>1 DEF HoldsFlock
    <3>. QED BY <3>2, <3>3
  <2>. QED BY <2>1, <2>2, <2>4, <1>1, <1>12
         DEF Unlock, LockInv, WorkersInv, TypeOK, countVars, historyVars
<1>. QED BY <1>2, <1>3, <1>4, <1>5, <1>6, <1>8, <1>9, <1>10, <1>11, <1>12 DEF RunStep

LEMMA StartLock ==
    ASSUME LockInv, NEW a \in Worker, NEW j \in Job, Start(a, j)
    PROVE  LockInv'
<1> DEFINE t == [Idle EXCEPT !.pc = "trylock", !.job = j]
<1>1. t \in Thread /\ t.pc = "trylock" /\ t.job = j
  BY IdleType DEF Thread, PC
<1>2. thread' = [thread EXCEPT ![a] = t]
  BY DEF Start
<1>. HIDE DEF t
<1>3. Shaped(t) /\ t.pc \notin Body \cup Saving
  BY <1>1 DEF Shaped, Body, Saving
<1>4. a \in Actor
  BY DEF Actor
<1>5. WorkersInv'
  BY <1>2, <1>3, <1>4, MoveWorkers DEF Start, sharedVars
<1>6. thread' \in [Actor -> Thread]
  BY <1>1, <1>2, <1>4 DEF LockInv, TypeOK
<1>. QED BY <1>5, <1>6 DEF Start, LockInv, TypeOK, sharedVars, countVars, historyVars

\* The end of a save, by any thread.
LEMMA LeaveLock ==
    ASSUME LockInv, NEW a \in Actor, NEW next, thread[a].pc \in Saving,
           next = thread[a].ok \/ next = thread[a].err, Leave(a, next),
           joblock' = joblock
    PROVE  /\ mutex' \in [Proc -> Actor \cup {Free}]
           /\ thread' \in [Actor -> Thread]
           /\ WorkersInv'
<1>1. thread[a] \in Thread /\ TypeOK
  BY DEF LockInv, TypeOK
<1>2. next \in PC
  BY <1>1 DEF Thread
<1>3. mutex' \in [Proc -> Actor \cup {Free}] /\ thread' \in [Actor -> Thread]
  BY <1>1, <1>2, LeaveType
<1> DEFINE u == [thread[a] EXCEPT !.buf = Empty, !.ok = "idle", !.err = "idle"]
           t == Continue(u, next)
<1>4. thread' = [thread EXCEPT ![a] = t]
  BY DEF Leave
<1>5. ASSUME a \in Worker
      PROVE  Shaped(t) /\ (t.pc \in Body \cup Saving => t.job = thread[a].job)
  <2>1. Shaped(thread[a])
    BY <1>5 DEF LockInv, WorkersInv
  <2>2. next \in Body /\ thread[a].job \in Job /\ thread[a].run \in Run
    BY <2>1 DEF Shaped, Saving
  <2>3. next # "idle" /\ next \notin {"unregister", "register"} /\ next \notin Saving
    BY <2>2 DEF Body, Saving
  <2>4. t = [u EXCEPT !.pc = next]
    BY <2>3 DEF Continue
  <2>5. u.job = thread[a].job /\ u.run = thread[a].run /\ u \in Thread
    BY <1>1, EmptyType DEF Thread, PC
  <2>. HIDE DEF u
  <2>6. t.pc = next /\ t.job = u.job /\ t.run = u.run
    BY <2>4, <2>5 DEF Thread
  <2>. HIDE DEF t
  <2>. QED BY <2>2, <2>3, <2>5, <2>6 DEF Shaped
<1>. HIDE DEF t
<1>6. WorkersInv'
  BY <1>4, <1>5, MoveWorkers
<1>. QED BY <1>3, <1>6

LEMMA SaveStepLock ==
    ASSUME LockInv, NEW a \in Actor, SaveStep(a)
    PROVE  LockInv'
<1>1. TypeOK /\ thread[a] \in Thread /\ thread[a].buf \in Jobs
  BY DEF LockInv, TypeOK, Thread
<1>2. CASE Replace(a)
  <2>1. /\ mutex' \in [Proc -> Actor \cup {Free}]
        /\ thread' \in [Actor -> Thread]
        /\ WorkersInv'
    BY <1>2, LeaveLock DEF Replace, At, Saving, sharedVars
  <2>. QED BY <2>1, <1>1, <1>2
         DEF Replace, LockInv, TypeOK, sharedVars, countVars, historyVars
<1>3. CASE Truncate(a)
  <2> DEFINE t == [thread[a] EXCEPT !.pc = "rewrite"]
  <2>1. thread' = [thread EXCEPT ![a] = t]
    BY <1>3 DEF Truncate
  <2>2. /\ t \in Thread /\ t.pc = "rewrite" /\ t.job = thread[a].job
        /\ t.run = thread[a].run /\ t.ok = thread[a].ok /\ t.err = thread[a].err
    BY <1>1 DEF Thread, PC, Saving
  <2>. HIDE DEF t
  <2>3. thread[a].pc \in Saving
    BY <1>3 DEF Truncate, At, Saving
  <2>4. ASSUME a \in Worker PROVE Shaped(t)
    <3>1. Shaped(thread[a])
      BY <2>4 DEF LockInv, WorkersInv
    <3>. QED BY <3>1, <2>2, <2>3 DEF Shaped, Saving
  <2>5. WorkersInv'
    BY <1>3, <2>1, <2>2, <2>3, <2>4, MoveWorkers DEF Truncate, sharedVars
  <2>6. thread' \in [Actor -> Thread]
    BY <1>1, <2>1, <2>2 DEF TypeOK
  <2>. QED BY <2>5, <2>6, <1>1, <1>3
         DEF Truncate, LockInv, TypeOK, sharedVars, countVars, historyVars
<1>4. CASE Rewrite(a)
  <2>1. /\ mutex' \in [Proc -> Actor \cup {Free}]
        /\ thread' \in [Actor -> Thread]
        /\ WorkersInv'
    BY <1>4, LeaveLock DEF Rewrite, At, Saving, sharedVars
  <2>. QED BY <2>1, <1>1, <1>4
         DEF Rewrite, LockInv, TypeOK, sharedVars, countVars, historyVars
<1>5. CASE SaveFails(a)
  <2>1. /\ mutex' \in [Proc -> Actor \cup {Free}]
        /\ thread' \in [Actor -> Thread]
        /\ WorkersInv'
    BY <1>5, LeaveLock DEF SaveFails, At, Saving, sharedVars
  <2>. QED BY <2>1, <1>1, <1>5
         DEF SaveFails, LockInv, TypeOK, sharedVars, countVars, historyVars
<1>. QED BY <1>2, <1>3, <1>4, <1>5 DEF SaveStep

LEMMA AdminStepLock ==
    ASSUME LockInv, NEW a \in Admin, AdminStep(a)
    PROVE  LockInv'
<1>1. TypeOK'
  BY AdminType DEF LockInv
<1>2. a \notin Worker /\ a \in Actor
  BY TopologyAssumption DEF Actor
<1>3. joblock' = joblock /\ \E t : thread' = [thread EXCEPT ![a] = t]
  <2>1. ASSUME NEW j \in Job, NEW entry, NEW step, Edit(a, j, entry, step)
        PROVE  joblock' = joblock /\ \E t : thread' = [thread EXCEPT ![a] = t]
    BY <2>1 DEF Edit, LoadModify, sharedVars
  <2>2. ASSUME NEW j \in Job, NEW s \in Schedule, NEW e \in BOOLEAN,
               create_job(a, j, s, e) \/ update_job(a, j, s, e)
        PROVE  joblock' = joblock /\ \E t : thread' = [thread EXCEPT ![a] = t]
    BY <2>1, <2>2 DEF create_job, update_job
  <2>3. ASSUME NEW j \in Job, delete_job(a, j)
        PROVE  joblock' = joblock /\ \E t : thread' = [thread EXCEPT ![a] = t]
    BY <2>1, <2>3 DEF delete_job
  <2>4. CASE Unregister(a)
    BY <2>4 DEF Unregister, GoTo
  <2>5. CASE Register(a)
    BY <2>5 DEF Register, GoTo
  <2>. QED BY <2>2, <2>3, <2>4, <2>5 DEF AdminStep
<1>4. WorkersInv'
  BY <1>2, <1>3, MoveWorkers
<1>. QED BY <1>1, <1>4 DEF LockInv

LEMMA CrashLock ==
    ASSUME LockInv, NEW p \in Proc, Crash(p)
    PROVE  LockInv'
<1>1. TypeOK /\ WorkersInv
  BY DEF LockInv
<1>2. thread' \in [Actor -> Thread]
  BY <1>1, IdleType DEF Crash, TypeOK
<1>3. joblock' \in [Host -> [Job -> Actor \cup {Free}]]
  BY <1>1 DEF Crash, TypeOK
<1>4. trigger' \in [Proc -> [Job -> Schedule \cup {NoTrigger}]]
  BY <1>1 DEF Crash, TypeOK
<1>5. TypeOK'
  BY <1>1, <1>2, <1>3, <1>4 DEF Crash, TypeOK, historyVars
<1>6. ASSUME NEW b \in Worker
      PROVE  Shaped(thread'[b]) /\ HoldsFlock(b)'
  <2>1. b \in Actor /\ Shaped(thread[b]) /\ HoldsFlock(b)
    BY <1>1 DEF WorkersInv, Actor
  <2>2. CASE ProcOf[b] = p
    <3>1. thread'[b] = Idle
      BY <2>1, <2>2 DEF Crash
    <3>. QED BY <3>1 DEF Shaped, HoldsFlock, Idle, Body, Saving
  <2>3. CASE ProcOf[b] # p
    <3>1. thread'[b] = thread[b]
      BY <2>1, <2>3 DEF Crash
    <3>2. HostOf[ProcOf[b]] \in Host
      BY <2>1, TopologyAssumption
    <3>3. thread[b].pc \in Body \cup Saving => thread[b].job \in Job
      BY <2>1 DEF Shaped, Body, Saving
    <3>4. thread[b].job \in Job /\ LockOf(b) = b => LockOf(b)' = b
      BY <2>3, <3>1, <3>2 DEF Crash, LockOf
    <3>. QED BY <2>1, <3>1, <3>3, <3>4 DEF HoldsFlock
  <2>. QED BY <2>2, <2>3
<1>. QED BY <1>5, <1>6 DEF LockInv, WorkersInv

LEMMA RestartLock ==
    ASSUME LockInv, NEW p \in Proc, init_scheduler(p)
    PROVE  LockInv'
<1>1. FreshTriggers(p, Load) \in [Job -> Schedule \cup {NoTrigger}]
  BY LoadType, WantedType DEF LockInv, FreshTriggers, Jobs
<1>2. trigger' \in [Proc -> [Job -> Schedule \cup {NoTrigger}]] /\ up' \subseteq Proc
  BY <1>1 DEF init_scheduler, LockInv, TypeOK
<1>3. WorkersInv'
  BY SameWorkers DEF init_scheduler
<1>. QED BY <1>2, <1>3 DEF init_scheduler, LockInv, TypeOK, countVars, historyVars

LEMMA ExpireLock ==
    ASSUME LockInv, NEW r \in Run, Expire(r)
    PROVE  LockInv'
<1>1. WorkersInv'
  BY SameWorkers DEF Expire, sharedVars
<1>2. expired' \subseteq Run
  BY DEF Expire, LockInv, TypeOK
<1>. QED BY <1>1, <1>2 DEF Expire, LockInv, TypeOK, sharedVars, countVars

LEMMA StutterLock ==
    ASSUME LockInv, UNCHANGED vars
    PROVE  LockInv'
<1>1. WorkersInv'
  BY SameWorkers DEF vars, sharedVars
<1>. QED BY <1>1 DEF LockInv, TypeOK, vars, sharedVars, countVars, historyVars

LEMMA NextLock == LockInv /\ [Next]_vars => LockInv'
<1>. SUFFICES ASSUME LockInv, [Next]_vars PROVE LockInv'
  OBVIOUS
<1>1. ASSUME NEW a \in Admin, AdminStep(a) PROVE LockInv'
  BY <1>1, AdminStepLock
<1>2. ASSUME NEW a \in Worker, RunStep(a) PROVE LockInv'
  BY <1>2, RunStepLock
<1>3. ASSUME NEW a \in Worker, NEW j \in Job, Fire(a, j) \/ run_job_now(a, j)
      PROVE  LockInv'
  BY <1>3, StartLock DEF Fire, run_job_now
<1>4. ASSUME NEW a \in Actor, SaveStep(a) PROVE LockInv'
  BY <1>4, SaveStepLock
<1>5. ASSUME NEW r \in Run, Expire(r) PROVE LockInv'
  BY <1>5, ExpireLock
<1>6. ASSUME NEW p \in Proc, Crash(p) \/ init_scheduler(p) PROVE LockInv'
  BY <1>6, CrashLock, RestartLock
<1>7. CASE Quiescent
  BY <1>7, StutterLock DEF Quiescent
<1>8. CASE UNCHANGED vars
  BY <1>8, StutterLock
<1>. QED BY <1>1, <1>2, <1>3, <1>4, <1>5, <1>6, <1>7, <1>8 DEF Next

----------------------------------------------------------------------------
(* Theorems *)

\* The inductive invariant: type correctness, and the flock discipline of
\* _execute_job (every worker inside its try block holds the flock of its job).
THEOREM FlocksHeld == Spec => []LockInv
BY InitLockInv, NextLock, PTL DEF Spec

\* Every variable keeps its type, whatever the deployment.
THEOREM TypeCorrect == Spec => []TypeOK
<1>1. LockInv => TypeOK
  BY DEF LockInv
<1>. QED BY <1>1, FlocksHeld, PTL

\* For any number of hosts, processes and threads: one execution of a job at a
\* time on each host, because its flock has one holder.
THEOREM MutualExclusion == Spec => []OneRunPerHost
<1>1. LockInv => OneRunPerHost
  <2>. SUFFICES ASSUME LockInv, NEW a \in Worker, NEW b \in Worker, NEW j \in Job,
                       Executing(a, j), Executing(b, j),
                       HostOf[ProcOf[a]] = HostOf[ProcOf[b]]
                PROVE  a = b
    BY DEF OneRunPerHost
  <2>1. LockOf(a) = a /\ LockOf(b) = b
    BY DEF LockInv, WorkersInv, HoldsFlock, Executing
  <2>. QED BY <2>1 DEF LockOf, Executing
<1>. QED BY <1>1, FlocksHeld, PTL

----------------------------------------------------------------------------
(* The steps by what they do to the parts of the state that the theorems   *)
(* below relate                                                            *)

\* Steps of a worker that write no jobs file.
Goes(a) ==
    \/ TryLock(a) \/ SkipRun(a) \/ LoadJob(a) \/ Discard(a) \/ Unlock(a)
    \/ \E ok \in BOOLEAN : Sweep(a, ok) \/ send_email(a, ok)
    \/ \E j \in Job : Fire(a, j) \/ run_job_now(a, j)

\* Steps of a worker that begin a with _lock block.
Modifies(a) == AppendOk(a) \/ AppendError(a) \/ PruneRuns(a)

\* What such a step does: the thread moves to a point outside the with _lock blocks.
Moved(a) ==
    \E t : /\ thread' = [thread EXCEPT ![a] = t]
           /\ t.pc \notin Saving
           /\ t.pc = "record" => t.run \in mailed'

GoesResult(a) ==
    /\ thread[a].pc \notin Saving
    /\ UNCHANGED <<file, mutex, trigger, up, used, deleted, expired>>
    /\ mailed \subseteq mailed'
    /\ Moved(a)

LEMMA GoesStep ==
    ASSUME LockInv, NEW a \in Worker, Goes(a)
    PROVE  GoesResult(a)
<1>. USE DEF At, sharedVars, countVars, historyVars
<1>1. thread[a] \in Thread /\ Idle.pc = "idle" /\ a \in Actor
  BY DEF LockInv, TypeOK, Actor, Idle
<1>2. ASSUME NEW next, GoTo(a, next), next \notin Saving,
             next = "record" => thread[a].run \in mailed'
      PROVE  Moved(a)
  <2>1. CASE next = "idle"
    BY <2>1, <1>1, <1>2 DEF GoTo, Continue, Saving, Moved
  <2>2. CASE next # "idle"
    <3> DEFINE u == [thread[a] EXCEPT !.pc = next]
    <3>1. u.pc = next /\ u.run = thread[a].run
      BY <1>1 DEF Thread
    <3>. QED BY <3>1, <2>2, <1>2 DEF GoTo, Continue, Moved
  <2>. QED BY <2>1, <2>2
<1>3. CASE TryLock(a)
  <2> DEFINE u == [thread[a] EXCEPT !.pc = "load", !.run = runs + 1]
  <2>1. u.pc = "load"
    BY <1>1 DEF Thread
  <2>2. u.pc \notin Saving /\ u.pc # "record"
    BY <2>1 DEF Saving
  <2>. HIDE DEF u
  <2>3. thread' = [thread EXCEPT ![a] = u]
    BY <1>3 DEF TryLock, u
  <2>4. Moved(a)
    BY <2>2, <2>3 DEF Moved
  <2>. QED BY <1>3, <2>4 DEF TryLock, Saving, GoesResult
<1>4. CASE SkipRun(a)
  <2>1. Moved(a)
    BY <1>2, <1>4 DEF SkipRun, Saving
  <2>. QED BY <1>4, <2>1 DEF SkipRun, Saving, GoesResult
<1>5. CASE LoadJob(a)
  <2>1. GoTo(a, IF Load[thread[a].job] = NoJob THEN "discard" ELSE "sweep")
    BY <1>5 DEF LoadJob
  <2>2. (IF Load[thread[a].job] = NoJob THEN "discard" ELSE "sweep")
          \notin Saving \cup {"record"}
    BY DEF Saving
  <2>3. Moved(a)
    BY <1>2, <2>1, <2>2
  <2>. QED BY <1>5, <2>3 DEF LoadJob, Saving, GoesResult
<1>6. CASE Discard(a)
  <2>1. Moved(a)
    BY <1>2, <1>6 DEF Discard, Saving
  <2>. QED BY <1>6, <2>1 DEF Discard, Saving, GoesResult
<1>7. CASE Unlock(a)
  <2>1. Moved(a)
    BY <1>2, <1>7 DEF Unlock, Saving
  <2>. QED BY <1>7, <2>1 DEF Unlock, Saving, GoesResult
<1>8. ASSUME NEW ok \in BOOLEAN, Sweep(a, ok)
      PROVE  GoesResult(a)
  <2>1. GoTo(a, IF ok THEN "mail" ELSE "fail")
    BY <1>8 DEF Sweep
  <2>2. (IF ok THEN "mail" ELSE "fail") \notin Saving \cup {"record"}
    BY DEF Saving
  <2>3. Moved(a)
    BY <1>2, <2>1, <2>2
  <2>. QED BY <1>8, <2>3 DEF Sweep, Saving, GoesResult
<1>9. ASSUME NEW ok \in BOOLEAN, send_email(a, ok)
      PROVE  GoesResult(a)
  <2>1. GoTo(a, IF ok THEN "record" ELSE "fail")
    BY <1>9 DEF send_email
  <2>2. (IF ok THEN "record" ELSE "fail") \notin Saving
    BY DEF Saving
  <2>3. ok => thread[a].run \in mailed'
    BY <1>9 DEF send_email
  <2>4. Moved(a)
    BY <1>2, <2>1, <2>2, <2>3
  <2>. QED BY <1>9, <2>4 DEF send_email, Saving, GoesResult
<1>10. ASSUME NEW j \in Job, Start(a, j)
      PROVE  GoesResult(a)
  <2> DEFINE u == [Idle EXCEPT !.pc = "trylock", !.job = j]
  <2>1. u.pc = "trylock"
    BY IdleType DEF Thread
  <2>2. u.pc \notin Saving /\ u.pc # "record"
    BY <2>1 DEF Saving
  <2>. HIDE DEF u
  <2>3. thread' = [thread EXCEPT ![a] = u]
    BY <1>10 DEF Start, u
  <2>4. Moved(a)
    BY <2>2, <2>3 DEF Moved
  <2>. QED BY <1>10, <2>4 DEF Start, Saving, GoesResult
<1>. QED BY <1>3, <1>4, <1>5, <1>6, <1>7, <1>8, <1>9, <1>10
     DEF Goes, Fire, run_job_now

\* What the beginning of a with _lock block of a worker does: a record is added to
\* the history of its job, or old ones are taken out, in a copy of the jobs.
Modified(a) ==
    \E t : /\ thread' = [thread EXCEPT ![a] = t]
           /\ t.pc = "save" /\ t.job = thread[a].job
           /\ t.ok \in {"prune", "discard"} /\ t.err \in {"fail", "discard"}
           /\ \/ \E rec \in Record :
                   /\ t.buf = WithRecord(Load, thread[a].job, rec)
                   /\ rec.run = thread[a].run
                   /\ rec.status = "ok" => thread[a].pc = "record"
              \/ t.buf = Pruned(Load, thread[a].job)

ModifiesResult(a) ==
    /\ thread[a].pc \in {"record", "fail", "prune"}
    /\ mutex[ProcOf[a]] = Free
    /\ mutex' = [mutex EXCEPT ![ProcOf[a]] = a]
    /\ UNCHANGED <<file, sharedVars, up, countVars, historyVars>>
    /\ Modified(a)

LEMMA ModifiesStep ==
    ASSUME LockInv, NEW a \in Worker, Modifies(a)
    PROVE  ModifiesResult(a)
<1>1. thread[a] \in Thread /\ a \in Actor /\ Shaped(thread[a])
  BY DEF LockInv, TypeOK, Actor, WorkersInv
<1>2. ASSUME NEW jobs, NEW ok \in {"prune", "discard"}, NEW err \in {"fail", "discard"},
             LoadModify(a, thread[a], jobs, ok, err),
             \/ \E rec \in Record :
                  /\ jobs = WithRecord(Load, thread[a].job, rec)
                  /\ rec.run = thread[a].run
                  /\ rec.status = "ok" => thread[a].pc = "record"
             \/ jobs = Pruned(Load, thread[a].job)
      PROVE  Modified(a)
  <2> DEFINE t == [thread[a] EXCEPT !.pc = "save", !.buf = jobs, !.ok = ok, !.err = err]
  <2>1. /\ t.pc = "save" /\ t.job = thread[a].job
        /\ t.buf = jobs /\ t.ok = ok /\ t.err = err
    BY <1>1 DEF Thread
  <2>2. thread' = [thread EXCEPT ![a] = t]
    BY <1>2 DEF LoadModify
  <2>. HIDE DEF t
  <2>. QED BY <1>2, <2>1, <2>2 DEF Modified
<1>3. ASSUME NEW status \in {"ok", "error"},
             NEW ok \in {"prune", "discard"}, NEW err \in {"fail", "discard"},
             AppendRun(a, status, ok, err), thread[a].pc \in {"record", "fail"},
             status = "ok" => thread[a].pc = "record"
      PROVE  ModifiesResult(a)
  <2> DEFINE rec == [run |-> thread[a].run, status |-> status]
  <2>1. rec \in Record
    BY <1>1, <1>3 DEF Shaped, Body, Record
  <2>2. rec.run = thread[a].run /\ (rec.status = "ok" => thread[a].pc = "record")
    BY <1>3
  <2>3. LoadModify(a, thread[a], WithRecord(Load, thread[a].job, rec), ok, err)
    BY <1>3 DEF AppendRun
  <2>. HIDE DEF rec
  <2>4. Modified(a)
    BY <1>2, <2>1, <2>2, <2>3
  <2>. QED BY <1>3, <2>3, <2>4 DEF AppendRun, LoadModify, ModifiesResult
<1>4. CASE AppendOk(a)
  BY <1>3, <1>4 DEF AppendOk, At
<1>5. CASE AppendError(a)
  BY <1>3, <1>5 DEF AppendError, At
<1>6. CASE PruneRuns(a)
  <2>1. LoadModify(a, thread[a], Pruned(Load, thread[a].job), "discard", "fail")
    BY <1>6 DEF PruneRuns
  <2>2. Modified(a)
    BY <1>2, <2>1
  <2>. QED BY <1>6, <2>1, <2>2 DEF PruneRuns, At, LoadModify, ModifiesResult
<1>. QED BY <1>4, <1>5, <1>6 DEF Modifies

\* What an admin request changes in its copy of the jobs file.
Created(j, entry) ==
    /\ j \notin used
    /\ used' = used \cup {j}
    /\ entry \in Entry /\ entry.runs = {}
    /\ UNCHANGED deleted
Updated(j, entry) ==
    /\ Load[j] # NoJob
    /\ entry \in Entry /\ entry.runs = Load[j].runs
    /\ UNCHANGED <<used, deleted>>
Deleted(j, entry) ==
    /\ entry = NoJob
    /\ j \in used
    /\ deleted' = deleted \cup {j}
    /\ UNCHANGED used

Edited(a) ==
    \E j \in Job : \E entry, t :
        /\ thread' = [thread EXCEPT ![a] = t]
        /\ t.pc = "save" /\ t.job = j /\ t.want = Wanted(entry)
        /\ t.buf = [Load EXCEPT ![j] = entry]
        /\ t.ok \in {"idle", "register", "unregister"} /\ t.err = "idle"
        /\ Created(j, entry) \/ Updated(j, entry) \/ Deleted(j, entry)
        \* Nothing has to be registered when the request ends with the save.
        /\ t.ok = "idle" => \/ ProcOf[a] \notin SchedulerProc
                            \/ Created(j, entry) /\ Wanted(entry) = NoTrigger

EditResult(a) ==
    /\ thread[a].pc = "idle"
    /\ mutex[ProcOf[a]] = Free
    /\ mutex' = [mutex EXCEPT ![ProcOf[a]] = a]
    /\ UNCHANGED <<file, sharedVars, up, mailed, expired>>
    /\ Edited(a)

Edits(a) ==
    \/ \E j \in Job, s \in Schedule, e \in BOOLEAN :
          create_job(a, j, s, e) \/ update_job(a, j, s, e)
    \/ \E j \in Job : delete_job(a, j)

LEMMA EditStep ==
    ASSUME LockInv, NEW a \in Admin, Edits(a)
    PROVE  EditResult(a)
<1>1. ASSUME NEW j \in Job, NEW entry,
             NEW step \in {"idle", "register", "unregister"}, Edit(a, j, entry, step),
             Created(j, entry) \/ Updated(j, entry) \/ Deleted(j, entry),
             step = "idle" => Created(j, entry) /\ Wanted(entry) = NoTrigger
      PROVE  EditResult(a)
  <2> DEFINE ok == IF ProcOf[a] \in SchedulerProc THEN step ELSE "idle"
             t0 == [Idle EXCEPT !.job = j, !.want = Wanted(entry)]
             t == [t0 EXCEPT !.pc = "save", !.buf = [Load EXCEPT ![j] = entry],
                             !.ok = ok, !.err = "idle"]
  <2>1. /\ t.pc = "save" /\ t.job = j /\ t.want = Wanted(entry)
        /\ t.buf = [Load EXCEPT ![j] = entry] /\ t.ok = ok /\ t.err = "idle"
    BY DEF Idle
  <2>2. thread' = [thread EXCEPT ![a] = t]
    BY <1>1 DEF Edit, LoadModify
  <2>3. ok \in {"idle", "register", "unregister"}
    OBVIOUS
  <2>4. ok = "idle" => \/ ProcOf[a] \notin SchedulerProc
                       \/ Created(j, entry) /\ Wanted(entry) = NoTrigger
    BY <1>1
  <2>. HIDE DEF t, ok
  <2>5. Edited(a)
    BY <1>1, <2>1, <2>2, <2>3, <2>4 DEF Edited
  <2>. QED BY <1>1, <2>5 DEF Edit, LoadModify, EditResult, At
<1>2. ASSUME NEW j \in Job, NEW s \in Schedule, NEW e \in BOOLEAN, create_job(a, j, s, e)
      PROVE  EditResult(a)
  <2> DEFINE entry == [schedule |-> s, enabled |-> e, runs |-> {}]
             step == IF e THEN "register" ELSE "idle"
  <2>1. entry \in Entry /\ entry.runs = {} /\ (~e => Wanted(entry) = NoTrigger)
    BY <1>2 DEF Entry, Wanted
  <2>2. Edit(a, j, entry, step) /\ step \in {"idle", "register", "unregister"}
    BY <1>2 DEF create_job
  <2>3. step = "idle" => ~e
    OBVIOUS
  <2>4. Created(j, entry)
    BY <1>2, <2>1 DEF create_job, Created
  <2>. HIDE DEF entry, step
  <2>. QED BY <1>1, <2>1, <2>2, <2>3, <2>4
<1>3. ASSUME NEW j \in Job, NEW s \in Schedule, NEW e \in BOOLEAN, update_job(a, j, s, e)
      PROVE  EditResult(a)
  <2> DEFINE entry == [Load[j] EXCEPT !.schedule = s, !.enabled = e]
  <2>1. Load[j] \in Entry
    BY <1>3, LoadType DEF update_job, LockInv, Jobs
  <2>2. entry \in Entry /\ entry.runs = Load[j].runs
    BY <2>1 DEF Entry
  <2>3. Updated(j, entry)
    BY <1>3, <2>2 DEF update_job, Updated
  <2>4. Edit(a, j, entry, "unregister")
    BY <1>3 DEF update_job
  <2>. HIDE DEF entry
  <2>. QED BY <1>1, <2>3, <2>4
<1>4. ASSUME NEW j \in Job, delete_job(a, j)
      PROVE  EditResult(a)
  <2>1. Deleted(j, NoJob) /\ Edit(a, j, NoJob, "unregister")
    BY <1>4 DEF delete_job, Deleted
  <2>. QED BY <1>1, <2>1
<1>. QED BY <1>2, <1>3, <1>4 DEF Edits

\* What a save does: its first half, the truncation, or its end.
SaveResult(a) ==
    /\ thread[a].pc \in Saving
    /\ UNCHANGED <<sharedVars, up, countVars, historyVars>>
    /\ \E t : /\ thread' = [thread EXCEPT ![a] = t]
              /\ \/ /\ InPlace /\ file' = Torn /\ mutex' = mutex
                    /\ t = [thread[a] EXCEPT !.pc = "rewrite"]
                 \/ /\ mutex' = [mutex EXCEPT ![ProcOf[a]] = Free]
                    /\ t.pc # "idle" => /\ t.job = thread[a].job
                                               /\ t.run = thread[a].run
                                               /\ t.want = thread[a].want
                    /\ \/ /\ t.pc = thread[a].ok
                          /\ \/ file' = thread[a].buf
                             \/ (thread[a].pc = "rewrite" /\ file' = Torn)
                       \/ t.pc = thread[a].err /\ file' = file

LEMMA SavesStep ==
    ASSUME LockInv, NEW a \in Actor, SaveStep(a)
    PROVE  SaveResult(a)
<1>1. thread[a] \in Thread
  BY DEF LockInv, TypeOK
<1>2. CASE Truncate(a)
  <2> DEFINE t == [thread[a] EXCEPT !.pc = "rewrite"]
  <2>1. thread' = [thread EXCEPT ![a] = t]
    BY <1>2 DEF Truncate
  <2>. QED BY <1>2, <2>1 DEF Truncate, At, Saving, SaveResult
<1>3. ASSUME NEW next, Leave(a, next)
      PROVE  /\ mutex' = [mutex EXCEPT ![ProcOf[a]] = Free]
             /\ \E t : /\ thread' = [thread EXCEPT ![a] = t] /\ t.pc = next
                       /\ t.pc # "idle" => /\ t.job = thread[a].job
                                                  /\ t.run = thread[a].run
                                                  /\ t.want = thread[a].want
  <2>1. mutex' = [mutex EXCEPT ![ProcOf[a]] = Free]
    BY <1>3 DEF Leave
  <2> DEFINE u == [thread[a] EXCEPT !.buf = Empty, !.ok = "idle", !.err = "idle"]
             t == Continue(u, next)
  <2>2. thread' = [thread EXCEPT ![a] = t]
    BY <1>3 DEF Leave
  <2>3. CASE next = "idle"
    <3>1. t.pc = next
      BY <2>3 DEF Continue, Idle
    <3>. HIDE DEF t
    <3>. QED BY <2>1, <2>2, <2>3, <3>1
  <2>4. CASE next # "idle"
    <3>1. /\ t.pc = next /\ t.job = thread[a].job
          /\ t.run = thread[a].run /\ t.want = thread[a].want
      BY <1>1, <2>4 DEF Continue, Thread
    <3>. HIDE DEF t
    <3>. QED BY <2>1, <2>2, <3>1
  <2>. QED BY <2>3, <2>4
<1>4. CASE Replace(a)
  <2>1. Leave(a, thread[a].ok) /\ file' = thread[a].buf /\ thread[a].pc \in Saving
    BY <1>4 DEF Replace, At, Saving
  <2>2. UNCHANGED <<sharedVars, up, countVars, historyVars>>
    BY <1>4 DEF Replace
  <2>. QED BY <1>3, <2>1, <2>2 DEF SaveResult
<1>5. CASE Rewrite(a)
  <2>1. /\ Leave(a, thread[a].ok) /\ file' \in {thread[a].buf, Torn}
        /\ thread[a].pc = "rewrite" /\ thread[a].pc \in Saving
    BY <1>5 DEF Rewrite, At, Saving
  <2>2. UNCHANGED <<sharedVars, up, countVars, historyVars>>
    BY <1>5 DEF Rewrite
  <2>. QED BY <1>3, <2>1, <2>2 DEF SaveResult
<1>6. CASE SaveFails(a)
  <2>1. Leave(a, thread[a].err) /\ file' = file /\ thread[a].pc \in Saving
    BY <1>6 DEF SaveFails, At, Saving
  <2>2. UNCHANGED <<sharedVars, up, countVars, historyVars>>
    BY <1>6 DEF SaveFails
  <2>. QED BY <1>3, <2>1, <2>2 DEF SaveResult
<1>. QED BY <1>2, <1>4, <1>5, <1>6 DEF SaveStep

\* What the registration of an edited job does.
RegisterResult(a) ==
    /\ thread[a].pc \in {"unregister", "register"}
    /\ UNCHANGED <<file, mutex, up, used, deleted, mailed, expired, running, joblock>>
    /\ \E t : /\ thread' = [thread EXCEPT ![a] = t]
              /\ \/ /\ t.pc = "idle"
                    /\ trigger' =
                         [trigger EXCEPT ![ProcOf[a]][thread[a].job] = thread[a].want]
                 \/ /\ t.pc = "register"
                    /\ t.job = thread[a].job /\ t.want = thread[a].want
                    /\ trigger' =
                         [trigger EXCEPT ![ProcOf[a]][thread[a].job] = NoTrigger]

LEMMA RegistersStep ==
    ASSUME LockInv, NEW a \in Actor, Unregister(a) \/ Register(a)
    PROVE  RegisterResult(a)
<1>. USE DEF At, countVars, historyVars
<1>1. thread[a] \in Thread /\ Idle.pc = "idle"
  BY DEF LockInv, TypeOK, Idle
<1>2. CASE Register(a)
  <2>1. thread' = [thread EXCEPT ![a] = Idle]
    BY <1>2 DEF Register, GoTo, Continue
  <2>. QED BY <1>1, <1>2, <2>1 DEF Register, RegisterResult
<1>3. CASE Unregister(a) /\ thread[a].want = NoTrigger
  <2>1. thread' = [thread EXCEPT ![a] = Idle]
    BY <1>3 DEF Unregister, GoTo, Continue
  <2>. QED BY <1>1, <1>3, <2>1 DEF Unregister, RegisterResult
<1>4. CASE Unregister(a) /\ thread[a].want # NoTrigger
  <2> DEFINE t == [thread[a] EXCEPT !.pc = "register"]
  <2>1. thread' = [thread EXCEPT ![a] = t]
    BY <1>4 DEF Unregister, GoTo, Continue
  <2>2. t.pc = "register" /\ t.job = thread[a].job /\ t.want = thread[a].want
    BY <1>1 DEF Thread
  <2>. HIDE DEF t
  <2>. QED BY <1>4, <2>1, <2>2 DEF Unregister, RegisterResult
<1>. QED BY <1>2, <1>3, <1>4

\* The steps of a process, of time and of nobody.
LEMMA NextCases ==
    ASSUME LockInv, [Next]_vars
    PROVE  \/ \E a \in Worker : GoesResult(a) /\ Goes(a)
           \/ \E a \in Worker : ModifiesResult(a)
           \/ \E a \in Admin : EditResult(a) \/ RegisterResult(a)
           \/ \E a \in Actor : SaveResult(a)
           \/ \E r \in Run : Expire(r)
           \/ \E p \in Proc : Crash(p) \/ init_scheduler(p)
           \/ UNCHANGED vars
<1>1. ASSUME NEW a \in Admin, AdminStep(a)
      PROVE  EditResult(a) \/ RegisterResult(a)
  BY <1>1, EditStep, RegistersStep DEF AdminStep, Edits, Actor
<1>2. ASSUME NEW a \in Worker, RunStep(a) \/ \E j \in Job : Fire(a, j) \/ run_job_now(a, j)
      PROVE  (GoesResult(a) /\ Goes(a)) \/ ModifiesResult(a)
  <2>1. Goes(a) \/ Modifies(a)
    BY <1>2 DEF RunStep, Goes, Modifies
  <2>. QED BY <2>1, GoesStep, ModifiesStep
<1>3. ASSUME NEW a \in Actor, SaveStep(a)
      PROVE  SaveResult(a)
  BY <1>3, SavesStep
<1>. QED BY <1>1, <1>2, <1>3 DEF Next, Quiescent

----------------------------------------------------------------------------
(* _lock and the runs that are mailed *)

\* What a thread keeps while it is inside a with _lock block: where it returns to.
Returns(a) ==
    /\ a \in Worker => /\ thread[a].ok \in {"prune", "discard"}
                       /\ thread[a].err \in {"fail", "discard"}
    /\ a \in Admin  => /\ thread[a].ok \in {"idle", "register", "unregister"}
                       /\ thread[a].err = "idle"

\* The thread that is inside a with _lock block is the holder of _lock, and an
\* admin request is at no point of an execution.
MutexInv ==
    /\ \A a \in Actor : thread[a].pc \in Saving => mutex[ProcOf[a]] = a /\ Returns(a)
    /\ \A a \in Admin : /\ thread[a].pc \in {"idle", "unregister", "register"} \cup Saving
                        /\ thread[a].pc # "idle" => thread[a].job \in Job

LEMMA SavingAlone ==
    ASSUME MutexInv, NEW a \in Actor, NEW b \in Actor, ProcOf[a] = ProcOf[b],
           thread[a].pc \in Saving
    PROVE  /\ thread[b].pc \in Saving => a = b
           /\ mutex[ProcOf[b]] # Free
BY SentinelAssumption DEF MutexInv

LEMMA InitMutexInv == Init => MutexInv
BY DEF Init, MutexInv, Actor, Idle, Saving

LEMMA NextMutexInv == LockInv /\ MutexInv /\ [Next]_vars => MutexInv'
<1>. SUFFICES ASSUME LockInv, MutexInv, [Next]_vars PROVE MutexInv'
  OBVIOUS
<1>. USE DEF Actor
<1>1. thread \in [Actor -> Thread] /\ Admin \cap Worker = {}
  BY TopologyAssumption DEF LockInv, TypeOK
<1>2. mutex \in [Proc -> Actor \cup {Free}] /\ \A a \in Actor : ProcOf[a] \in Proc
  BY TopologyAssumption DEF LockInv, TypeOK
\* A step of one thread, that takes nobody else's lock.
<1>3. ASSUME NEW a \in Actor, NEW t, thread' = [thread EXCEPT ![a] = t],
             \A b \in Actor \ {a} : thread[b].pc \in Saving =>
                 mutex'[ProcOf[b]] = mutex[ProcOf[b]],
             t.pc \in Saving =>
                 /\ mutex'[ProcOf[a]] = a
                 /\ a \in Worker => t.ok \in {"prune", "discard"}
                                    /\ t.err \in {"fail", "discard"}
                 /\ a \in Admin => t.ok \in {"idle", "register", "unregister"}
                                   /\ t.err = "idle",
             a \in Admin => /\ t.pc \in {"idle", "unregister", "register"} \cup Saving
                            /\ t.pc # "idle" => t.job \in Job
      PROVE  MutexInv'
  <2>1. thread'[a] = t /\ \A b \in Actor \ {a} : thread'[b] = thread[b]
    BY <1>1, <1>3
  <2>2. ASSUME NEW b \in Actor, thread'[b].pc \in Saving
        PROVE  mutex'[ProcOf[b]] = b /\ Returns(b)'
    <3>1. CASE b = a
      BY <1>3, <2>1, <2>2, <3>1 DEF Returns
    <3>2. CASE b # a
      BY <1>3, <2>1, <2>2, <3>2 DEF Returns, MutexInv
    <3>. QED BY <3>1, <3>2
  <2>3. ASSUME NEW b \in Admin
        PROVE  /\ thread'[b].pc \in {"idle", "unregister", "register"} \cup Saving
               /\ thread'[b].pc # "idle" => thread'[b].job \in Job
    BY <1>3, <2>1 DEF MutexInv
  <2>. QED BY <2>2, <2>3 DEF MutexInv
\* Taking and giving back the lock of a thread that may do so.
<1>4. ASSUME NEW a \in Actor,
             mutex[ProcOf[a]] = Free \/ thread[a].pc \in Saving,
             NEW b \in Actor \ {a}, thread[b].pc \in Saving, NEW x,
             mutex' = [mutex EXCEPT ![ProcOf[a]] = x]
      PROVE  mutex'[ProcOf[b]] = mutex[ProcOf[b]]
  <2>1. ProcOf[a] # ProcOf[b]
    BY <1>4, SavingAlone
  <2>. QED BY <1>2, <1>4, <2>1
<1>5. ASSUME NEW a \in Worker, GoesResult(a) PROVE MutexInv'
  <2>1. mutex' = mutex /\ a \notin Admin
    BY <1>1, <1>5 DEF GoesResult
  <2>2. PICK t : thread' = [thread EXCEPT ![a] = t] /\ t.pc \notin Saving
    BY <1>5 DEF GoesResult, Moved
  <2>. QED BY <1>3, <2>1, <2>2
<1>6. ASSUME NEW a \in Worker, ModifiesResult(a) PROVE MutexInv'
  <2>1. PICK t : /\ thread' = [thread EXCEPT ![a] = t]
                 /\ t.ok \in {"prune", "discard"} /\ t.err \in {"fail", "discard"}
    BY <1>6 DEF ModifiesResult, Modified
  <2>2. mutex' = [mutex EXCEPT ![ProcOf[a]] = a] /\ mutex[ProcOf[a]] = Free
    BY <1>6 DEF ModifiesResult
  <2>3. mutex'[ProcOf[a]] = a
    BY <1>2, <2>2
  <2>. QED BY <1>1, <1>3, <1>4, <2>1, <2>2, <2>3
<1>7. ASSUME NEW a \in Admin, EditResult(a) PROVE MutexInv'
  <2>1. PICK t : /\ thread' = [thread EXCEPT ![a] = t]
                 /\ t.pc = "save" /\ t.job \in Job
                 /\ t.ok \in {"idle", "register", "unregister"} /\ t.err = "idle"
    BY <1>7 DEF EditResult, Edited
  <2>2. mutex' = [mutex EXCEPT ![ProcOf[a]] = a] /\ mutex[ProcOf[a]] = Free
    BY <1>7 DEF EditResult
  <2>3. mutex'[ProcOf[a]] = a /\ t.pc \in Saving /\ a \notin Worker
    BY <1>1, <1>2, <2>1, <2>2 DEF Saving
  <2>. QED BY <1>3, <1>4, <2>1, <2>2, <2>3
<1>8. ASSUME NEW a \in Admin, RegisterResult(a) PROVE MutexInv'
  <2>1. PICK t : /\ thread' = [thread EXCEPT ![a] = t]
                 /\ t.pc = "idle" \/ (t.pc = "register" /\ t.job = thread[a].job)
    BY <1>8 DEF RegisterResult
  <2>2. mutex' = mutex /\ thread[a].pc # "idle" /\ a \notin Worker
    BY <1>1, <1>8 DEF RegisterResult
  <2>3. t.pc # "idle" => t.job \in Job
    BY <2>1, <2>2 DEF MutexInv
  <2>. QED BY <1>3, <2>1, <2>2, <2>3 DEF Saving
<1>9. ASSUME NEW a \in Actor, SaveResult(a) PROVE MutexInv'
  <2>1. thread[a].pc \in Saving /\ Returns(a) /\ mutex[ProcOf[a]] = a
    BY <1>9 DEF SaveResult, MutexInv
  <2>2. PICK t :
          /\ thread' = [thread EXCEPT ![a] = t]
          /\ \/ mutex' = mutex /\ t = [thread[a] EXCEPT !.pc = "rewrite"]
             \/ /\ mutex' = [mutex EXCEPT ![ProcOf[a]] = Free]
                /\ t.pc # "idle" => t.job = thread[a].job
                /\ t.pc \in {thread[a].ok, thread[a].err}
    BY <1>9 DEF SaveResult
  <2>3. a \in Admin => thread[a].job \in Job
    BY <2>1 DEF MutexInv, Saving
  <2>4. CASE mutex' = mutex /\ t = [thread[a] EXCEPT !.pc = "rewrite"]
    <3>1. /\ t.pc = "rewrite" /\ t.job = thread[a].job
          /\ t.ok = thread[a].ok /\ t.err = thread[a].err
      BY <1>1, <2>4 DEF Thread
    <3>. HIDE <2>4
    <3>2. mutex' = mutex
      BY <2>4
    <3>. QED BY <1>3, <2>1, <2>2, <2>3, <3>1, <3>2 DEF Saving, Returns
  <2>5. CASE /\ mutex' = [mutex EXCEPT ![ProcOf[a]] = Free]
             /\ t.pc # "idle" => t.job = thread[a].job
             /\ t.pc \in {thread[a].ok, thread[a].err}
    <3>1. t.pc \notin Saving
      BY <2>1, <2>5 DEF Returns, Saving
    <3>2. a \in Admin => /\ t.pc \in {"idle", "unregister", "register"} \cup Saving
                         /\ t.pc # "idle" => t.job \in Job
      BY <2>1, <2>3, <2>5 DEF Returns
    <3>. QED BY <1>3, <1>4, <2>1, <2>2, <2>5, <3>1, <3>2
  <2>. QED BY <2>2, <2>4, <2>5
<1>10. ASSUME NEW r \in Run, Expire(r) PROVE MutexInv'
  BY <1>10 DEF Expire, MutexInv, Returns
<1>11. ASSUME NEW p \in Proc, Crash(p) PROVE MutexInv'
  <2>1. \A a \in Actor : thread'[a] = IF ProcOf[a] = p THEN Idle ELSE thread[a]
    BY <1>11 DEF Crash
  <2>2. Idle.pc = "idle" /\ Idle.pc \notin Saving
    BY DEF Idle, Saving
  <2>3. ASSUME NEW a \in Actor, thread'[a].pc \in Saving
        PROVE  mutex'[ProcOf[a]] = a /\ Returns(a)'
    <3>1. ProcOf[a] # p /\ thread'[a] = thread[a]
      BY <2>1, <2>2, <2>3
    <3>. QED BY <1>2, <1>11, <2>3, <3>1 DEF Crash, MutexInv, Returns
  <2>4. ASSUME NEW a \in Admin
        PROVE  /\ thread'[a].pc \in {"idle", "unregister", "register"} \cup Saving
               /\ thread'[a].pc # "idle" => thread'[a].job \in Job
    BY <2>1, <2>2 DEF MutexInv
  <2>. QED BY <2>3, <2>4 DEF MutexInv
<1>12. ASSUME NEW p \in Proc, init_scheduler(p) PROVE MutexInv'
  BY <1>12 DEF init_scheduler, MutexInv, Returns
<1>13. CASE UNCHANGED vars
  BY <1>13 DEF vars, MutexInv, Returns
<1>. QED BY <1>5, <1>6, <1>7, <1>8, <1>9, <1>10, <1>11, <1>12, <1>13, NextCases

\* Every "ok" record in jobs is of a run whose email is among sent.
Mailed(jobs, sent) ==
    \A j \in Job : jobs[j] # NoJob =>
        \A r \in jobs[j].runs : r.status = "ok" => r.run \in sent

\* Not only the file: the copies of the jobs that threads are about to save, and the
\* runs that are about to be recorded as "ok".
MailInv ==
    /\ file # Torn => Mailed(file, mailed)
    /\ \A a \in Actor : thread[a].pc \in Saving => Mailed(thread[a].buf, mailed)
    /\ \A a \in Worker : thread[a].pc = "record" => thread[a].run \in mailed

LEMMA WithRecordMailed ==
    ASSUME NEW jobs \in Jobs, NEW j, NEW rec \in Record, NEW sent, Mailed(jobs, sent),
           rec.status = "ok" => rec.run \in sent
    PROVE  Mailed(WithRecord(jobs, j, rec), sent)
<1>1. CASE jobs[j] = NoJob \/ j \notin Job
  BY <1>1 DEF WithRecord, Mailed, Jobs
<1>2. CASE jobs[j] # NoJob /\ j \in Job
  <2>1. jobs[j] \in Entry
    BY <1>2 DEF Jobs
  <2> DEFINE new == [jobs[j] EXCEPT !.runs = jobs[j].runs \cup {rec}]
  <2>2. new.runs = jobs[j].runs \cup {rec}
    BY <2>1 DEF Entry
  <2>. HIDE DEF new
  <2>3. WithRecord(jobs, j, rec) = [jobs EXCEPT ![j] = new]
    BY <1>2 DEF WithRecord, new
  <2>. QED BY <1>2, <2>2, <2>3 DEF Mailed, Jobs
<1>. QED BY <1>1, <1>2

LEMMA PrunedMailed ==
    ASSUME NEW jobs \in Jobs, NEW j, NEW sent, Mailed(jobs, sent)
    PROVE  Mailed(Pruned(jobs, j), sent)
<1>1. CASE jobs[j] = NoJob \/ j \notin Job
  BY <1>1 DEF Pruned, Mailed, Jobs
<1>2. CASE jobs[j] # NoJob /\ j \in Job
  <2>1. jobs[j] \in Entry
    BY <1>2 DEF Jobs
  <2> DEFINE new == [jobs[j] EXCEPT !.runs = {r \in jobs[j].runs : r.run \notin expired}]
  <2>2. new.runs \subseteq jobs[j].runs
    BY <2>1 DEF Entry
  <2>. HIDE DEF new
  <2>3. Pruned(jobs, j) = [jobs EXCEPT ![j] = new]
    BY <1>2 DEF Pruned, new
  <2>. QED BY <1>2, <2>2, <2>3 DEF Mailed, Jobs
<1>. QED BY <1>1, <1>2

LEMMA LoadMailed == LockInv /\ MailInv => Mailed(Load, mailed)
BY DEF MailInv, Load, Empty, Mailed, LockInv, TypeOK

LEMMA MailedGrows ==
    ASSUME NEW jobs, NEW sent, NEW more, sent \subseteq more, Mailed(jobs, sent)
    PROVE  Mailed(jobs, more)
BY DEF Mailed

LEMMA InitMailInv == Init => MailInv
BY DEF Init, MailInv, Mailed, Actor, Idle, Saving

LEMMA NextMailInv == LockInv /\ MutexInv /\ MailInv /\ [Next]_vars => MailInv'
<1>. SUFFICES ASSUME LockInv, MutexInv, MailInv, [Next]_vars PROVE MailInv'
  OBVIOUS
<1>. USE DEF Actor
<1>1. thread \in [Actor -> Thread] /\ Load \in Jobs /\ Mailed(Load, mailed)
  BY LoadMailed, LoadType DEF LockInv, TypeOK
<1>2. ASSUME NEW a \in Actor, NEW t, thread' = [thread EXCEPT ![a] = t],
             mailed \subseteq mailed',
             file' \in {file, Torn} \/ (thread[a].pc \in Saving /\ file' = thread[a].buf),
             t.pc \in Saving => Mailed(t.buf, mailed'),
             t.pc = "record" => t.run \in mailed'
      PROVE  MailInv'
  <2>1. thread'[a] = t /\ \A b \in Actor \ {a} : thread'[b] = thread[b]
    BY <1>1, <1>2
  <2>2. file' # Torn => Mailed(file', mailed)
    BY <1>2 DEF MailInv
  <2>3. \A b \in Actor : thread'[b].pc \in Saving => Mailed(thread'[b].buf, mailed')
    BY <1>2, <2>1, MailedGrows DEF MailInv
  <2>4. \A b \in Worker : thread'[b].pc = "record" => thread'[b].run \in mailed'
    BY <1>2, <2>1 DEF MailInv
  <2>. QED BY <1>2, <2>2, <2>3, <2>4, MailedGrows DEF MailInv
<1>3. ASSUME NEW a \in Worker, GoesResult(a) PROVE MailInv'
  BY <1>2, <1>3 DEF GoesResult, Moved
<1>4. ASSUME NEW a \in Worker, ModifiesResult(a) PROVE MailInv'
  <2>1. PICK t : /\ thread' = [thread EXCEPT ![a] = t] /\ t.pc = "save"
                 /\ \/ \E rec \in Record :
                         /\ t.buf = WithRecord(Load, thread[a].job, rec)
                         /\ rec.run = thread[a].run
                         /\ rec.status = "ok" => thread[a].pc = "record"
                    \/ t.buf = Pruned(Load, thread[a].job)
    BY <1>4 DEF ModifiesResult, Modified
  <2>2. Mailed(t.buf, mailed)
    BY <1>1, <2>1, WithRecordMailed, PrunedMailed DEF MailInv
  <2>3. file' = file /\ mailed' = mailed
    BY <1>4 DEF ModifiesResult, historyVars
  <2>. QED BY <1>2, <2>1, <2>2, <2>3
<1>5. ASSUME NEW a \in Admin, EditResult(a) PROVE MailInv'
  <2>. PICK j \in Job : \E entry, t :
           /\ thread' = [thread EXCEPT ![a] = t]
           /\ t.pc = "save" /\ t.buf = [Load EXCEPT ![j] = entry]
           /\ Created(j, entry) \/ Updated(j, entry) \/ Deleted(j, entry)
    BY <1>5 DEF EditResult, Edited
  <2>1. PICK entry, t :
           /\ thread' = [thread EXCEPT ![a] = t]
           /\ t.pc = "save" /\ t.buf = [Load EXCEPT ![j] = entry]
           /\ Created(j, entry) \/ Updated(j, entry) \/ Deleted(j, entry)
    OBVIOUS
  <2>2. file' = file /\ mailed' = mailed
    BY <1>5 DEF EditResult
  <2>3. Mailed(t.buf, mailed)
    <3>. SUFFICES ASSUME NEW k \in Job, t.buf[k] # NoJob, NEW r \in t.buf[k].runs,
                         r.status = "ok"
                  PROVE  r.run \in mailed
      BY DEF Mailed
    <3>1. CASE k # j
      BY <1>1, <2>1, <3>1 DEF Mailed, Jobs
    <3>2. CASE k = j
      BY <1>1, <2>1, <3>2 DEF Mailed, Jobs, Created, Updated, Deleted
    <3>. QED BY <3>1, <3>2
  <2>. QED BY <1>2, <2>1, <2>2, <2>3
<1>6. ASSUME NEW a \in Admin, RegisterResult(a) PROVE MailInv'
  <2>1. PICK t : thread' = [thread EXCEPT ![a] = t] /\ t.pc \in {"idle", "register"}
    BY <1>6 DEF RegisterResult
  <2>2. file' = file /\ mailed' = mailed
    BY <1>6 DEF RegisterResult
  <2>. QED BY <1>2, <2>1, <2>2 DEF Saving
<1>7. ASSUME NEW a \in Actor, SaveResult(a) PROVE MailInv'
  <2>1. PICK t : /\ thread' = [thread EXCEPT ![a] = t]
                 /\ \/ t = [thread[a] EXCEPT !.pc = "rewrite"]
                    \/ t.pc \in {thread[a].ok, thread[a].err}
    BY <1>7 DEF SaveResult
  <2>2. /\ thread[a].pc \in Saving /\ mailed' = mailed
        /\ file' \in {file, Torn} \/ file' = thread[a].buf
    BY <1>7 DEF SaveResult, historyVars
  <2>3. Returns(a) /\ Mailed(thread[a].buf, mailed)
    BY <2>2 DEF MutexInv, MailInv
  <2>4. CASE t = [thread[a] EXCEPT !.pc = "rewrite"]
    <3>1. t.pc = "rewrite" /\ t.buf = thread[a].buf
      BY <1>1, <2>4 DEF Thread
    <3>. HIDE <2>4
    <3>. QED BY <1>2, <2>1, <2>2, <2>3, <3>1
  <2>5. CASE t.pc \in {thread[a].ok, thread[a].err}
    <3>1. t.pc \notin Saving /\ t.pc # "record"
      BY <2>3, <2>5 DEF Returns, Saving
    <3>. QED BY <1>2, <2>1, <2>2, <3>1
  <2>. QED BY <2>1, <2>4, <2>5
<1>8. ASSUME NEW r \in Run, Expire(r) PROVE MailInv'
  BY <1>8 DEF Expire, MailInv
<1>9. ASSUME NEW p \in Proc, Crash(p) PROVE MailInv'
  <2>1. \A a \in Actor : thread'[a] = IF ProcOf[a] = p THEN Idle ELSE thread[a]
    BY <1>9 DEF Crash
  <2>. QED BY <1>9, <2>1 DEF Crash, MailInv, Idle, Saving, historyVars
<1>10. ASSUME NEW p \in Proc, init_scheduler(p) PROVE MailInv'
  BY <1>10 DEF init_scheduler, MailInv, historyVars
<1>11. CASE UNCHANGED vars
  BY <1>11 DEF vars, MailInv, historyVars
<1>. QED BY <1>3, <1>4, <1>5, <1>6, <1>7, <1>8, <1>9, <1>10, <1>11, NextCases

----------------------------------------------------------------------------
(* The running flag *)

\* From _running_jobs.add to _running_jobs.discard.
Shown == (Body \ {"unlock"}) \cup Saving

\* Stronger than RunningFlagExact in its second half: at the point where only the
\* flock is left to release, the flag is already down.
RunningInv ==
    /\ \A a \in Worker : thread[a].pc \in Shown => thread[a].job \in running[ProcOf[a]]
    /\ \A p \in Proc : \A j \in running[p] :
          \E a \in Worker : ProcOf[a] = p /\ thread[a].job = j /\ thread[a].pc \in Shown

LEMMA InitRunningInv == Init => RunningInv
BY DEF Init, RunningInv, Actor, Idle, Shown, Body, Saving

\* A step that leaves the flags alone and moves a thread within an execution, or
\* outside of every execution.
LEMMA SameFlags ==
    ASSUME LockInv, RunningInv, NEW a \in Actor, NEW t,
           thread' = [thread EXCEPT ![a] = t], running' = running,
           a \in Worker => /\ t.pc \in Shown <=> thread[a].pc \in Shown
                           /\ t.pc \in Shown => t.job = thread[a].job
    PROVE  RunningInv'
<1>1. \A b \in Worker : thread'[b] = IF b = a THEN t ELSE thread[b]
  BY DEF LockInv, TypeOK, Actor
<1>2. \A b \in Worker : thread'[b].pc \in Shown => thread'[b].job \in running'[ProcOf[b]]
  BY <1>1 DEF RunningInv
<1>3. ASSUME NEW p \in Proc, NEW j \in running'[p]
      PROVE  \E b \in Worker : /\ ProcOf[b] = p /\ thread'[b].job = j
                               /\ thread'[b].pc \in Shown
  <2>1. PICK b \in Worker : ProcOf[b] = p /\ thread[b].job = j /\ thread[b].pc \in Shown
    BY <1>3 DEF RunningInv
  <2>2. thread'[b].job = j /\ thread'[b].pc \in Shown
    BY <1>1, <2>1
  <2>. QED BY <2>1, <2>2
<1>. QED BY <1>2, <1>3 DEF RunningInv

\* Two workers inside the try block for the same job, in one process, are the same.
LEMMA OneHolder ==
    ASSUME LockInv, NEW a \in Worker, NEW b \in Worker, ProcOf[a] = ProcOf[b],
           thread[a].job = thread[b].job,
           thread[a].pc \in Body \cup Saving, thread[b].pc \in Body \cup Saving
    PROVE  a = b
BY DEF LockInv, WorkersInv, HoldsFlock, LockOf

LEMMA GoesRunning ==
    ASSUME LockInv, RunningInv, NEW a \in Worker, Goes(a)
    PROVE  RunningInv'
<1>. USE DEF At
<1>1. /\ thread \in [Actor -> Thread] /\ thread[a] \in Thread /\ a \in Actor
      /\ running \in [Proc -> SUBSET Job] /\ ProcOf[a] \in Proc
      /\ Idle.pc = "idle" /\ Shaped(thread[a])
  BY TopologyAssumption DEF LockInv, TypeOK, Actor, Idle, WorkersInv
<1>2. ASSUME NEW next, GoTo(a, next), running' = running,
             next \in Shown <=> thread[a].pc \in Shown
      PROVE  RunningInv'
  <2>1. CASE next = "idle"
    <3>1. thread' = [thread EXCEPT ![a] = Idle] /\ next \notin Shown
      BY <1>2, <2>1 DEF GoTo, Continue, Shown, Body, Saving
    <3>. QED BY <1>1, <1>2, <2>1, <3>1, SameFlags
  <2>2. CASE next # "idle"
    <3> DEFINE t == [thread[a] EXCEPT !.pc = next]
    <3>1. thread' = [thread EXCEPT ![a] = t]
      BY <1>2, <2>2 DEF GoTo, Continue
    <3>2. t.pc = next /\ t.job = thread[a].job
      BY <1>1 DEF Thread
    <3>. HIDE DEF t
    <3>. QED BY <1>1, <1>2, <3>1, <3>2, SameFlags
  <2>. QED BY <2>1, <2>2
<1>3. CASE TryLock(a)
  <2> DEFINE t == [thread[a] EXCEPT !.pc = "load", !.run = runs + 1]
  <2>1. t.pc = "load" /\ t.job = thread[a].job
    BY <1>1 DEF Thread
  <2>2. thread' = [thread EXCEPT ![a] = t]
    BY <1>3 DEF TryLock
  <2>. HIDE DEF t
  <2>3. \A b \in Worker : thread'[b] = IF b = a THEN t ELSE thread[b]
    BY <1>1, <2>2 DEF Actor
  <2>4. \A p \in Proc : running'[p] =
            IF p = ProcOf[a] THEN running[p] \cup {thread[a].job} ELSE running[p]
    BY <1>1, <1>3 DEF TryLock
  <2>5. \A b \in Worker : ProcOf[b] \in Proc
    BY TopologyAssumption DEF Actor
  <2>6. t.pc \in Shown /\ thread[a].pc \notin Shown
    BY <1>3, <2>1 DEF TryLock, Shown, Body, Saving
  <2>7. ASSUME NEW b \in Worker, thread'[b].pc \in Shown
        PROVE  thread'[b].job \in running'[ProcOf[b]]
    <3>1. ProcOf[b] \in Proc
      BY <2>5
    <3>2. CASE b = a
      BY <2>1, <2>3, <2>4, <3>1, <3>2
    <3>3. CASE b # a
      <4>1. thread'[b] = thread[b]
        BY <2>3, <3>3
      <4>2. thread[b].job \in running[ProcOf[b]]
        BY <2>7, <4>1 DEF RunningInv
      <4>. QED BY <2>4, <3>1, <4>1, <4>2
    <3>. QED BY <3>2, <3>3
  <2>8. ASSUME NEW p \in Proc, NEW j \in running'[p]
        PROVE  \E b \in Worker : /\ ProcOf[b] = p /\ thread'[b].job = j
                                 /\ thread'[b].pc \in Shown
    <3>1. CASE p = ProcOf[a] /\ j = thread[a].job
      BY <2>1, <2>3, <2>6, <3>1
    <3>2. CASE j \in running[p]
      <4>1. PICK b \in Worker :
                ProcOf[b] = p /\ thread[b].job = j /\ thread[b].pc \in Shown
        BY <3>2 DEF RunningInv
      <4>. QED BY <2>3, <2>6, <4>1
    <3>. QED BY <2>4, <2>8, <3>1, <3>2
  <2>. QED BY <2>7, <2>8 DEF RunningInv
<1>4. CASE SkipRun(a)
  BY <1>2, <1>4 DEF SkipRun, sharedVars, Shown, Body, Saving
<1>5. CASE LoadJob(a)
  <2>1. GoTo(a, IF Load[thread[a].job] = NoJob THEN "discard" ELSE "sweep")
    BY <1>5 DEF LoadJob
  <2>2. (IF Load[thread[a].job] = NoJob THEN "discard" ELSE "sweep") \in Shown
    BY DEF Shown, Body
  <2>. QED BY <1>2, <1>5, <2>1, <2>2 DEF LoadJob, sharedVars, Shown, Body
<1>6. ASSUME NEW ok \in BOOLEAN, Sweep(a, ok)
      PROVE  RunningInv'
  <2>1. (IF ok THEN "mail" ELSE "fail") \in Shown
    BY DEF Shown, Body
  <2>. QED BY <1>2, <1>6, <2>1 DEF Sweep, sharedVars, Shown, Body
<1>7. ASSUME NEW ok \in BOOLEAN, send_email(a, ok)
      PROVE  RunningInv'
  <2>1. (IF ok THEN "record" ELSE "fail") \in Shown
    BY DEF Shown, Body
  <2>. QED BY <1>2, <1>7, <2>1 DEF send_email, sharedVars, Shown, Body
<1>8. CASE Discard(a)
  <2>1. thread[a].pc \in Body \cup Saving /\ GoTo(a, "unlock")
    BY <1>8 DEF Discard, Body
  <2>2. \A b \in Worker \ {a} : thread'[b] = thread[b]
    BY <1>1, <2>1 DEF GoTo, Actor
  <2>3. thread'[a].pc \notin Shown
    BY <1>1, <2>1 DEF GoTo, Continue, Thread, Shown, Body, Saving
  <2>4. \A p \in Proc : running'[p] =
            IF p = ProcOf[a] THEN running[p] \ {thread[a].job} ELSE running[p]
    BY <1>1, <1>8 DEF Discard
  <2>5. ASSUME NEW b \in Worker, thread'[b].pc \in Shown
        PROVE  thread'[b].job \in running'[ProcOf[b]]
    <3>1. b # a /\ thread'[b] = thread[b] /\ ProcOf[b] \in Proc
      BY <2>2, <2>3, <2>5, TopologyAssumption DEF Actor
    <3>2. ~(ProcOf[b] = ProcOf[a] /\ thread[b].job = thread[a].job)
      BY <2>1, <2>5, <3>1, OneHolder DEF Shown
    <3>3. thread[b].job \in running[ProcOf[b]]
      BY <2>5, <3>1 DEF RunningInv
    <3>. QED BY <2>4, <3>1, <3>2, <3>3
  <2>6. ASSUME NEW p \in Proc, NEW j \in running'[p]
        PROVE  \E b \in Worker : /\ ProcOf[b] = p /\ thread'[b].job = j
                                 /\ thread'[b].pc \in Shown
    <3>1. j \in running[p] /\ ~(p = ProcOf[a] /\ j = thread[a].job)
      BY <2>4, <2>6
    <3>2. PICK b \in Worker : ProcOf[b] = p /\ thread[b].job = j /\ thread[b].pc \in Shown
      BY <3>1 DEF RunningInv
    <3>. QED BY <2>2, <3>1, <3>2
  <2>. QED BY <2>5, <2>6 DEF RunningInv
<1>9. CASE Unlock(a)
  BY <1>2, <1>9 DEF Unlock, Shown, Body, Saving
<1>10. ASSUME NEW j \in Job, Start(a, j)
       PROVE  RunningInv'
  <2> DEFINE t == [Idle EXCEPT !.pc = "trylock", !.job = j]
  <2>1. t.pc = "trylock"
    BY IdleType DEF Thread
  <2>2. thread' = [thread EXCEPT ![a] = t]
    BY <1>10 DEF Start
  <2>. HIDE DEF t
  <2>3. t.pc \notin Shown /\ thread[a].pc \notin Shown
    BY <1>10, <2>1 DEF Start, Shown, Body, Saving
  <2>. QED BY <1>1, <1>10, <2>2, <2>3, SameFlags DEF Start, sharedVars
<1>. QED BY <1>3, <1>4, <1>5, <1>6, <1>7, <1>8, <1>9, <1>10
     DEF Goes, Fire, run_job_now

LEMMA NextRunningInv == LockInv /\ MutexInv /\ RunningInv /\ [Next]_vars => RunningInv'
<1>. SUFFICES ASSUME LockInv, MutexInv, RunningInv, [Next]_vars PROVE RunningInv'
  OBVIOUS
<1>1. thread \in [Actor -> Thread] /\ running \in [Proc -> SUBSET Job]
  BY DEF LockInv, TypeOK
<1>2. \A a \in Admin : a \in Actor /\ a \notin Worker
  BY TopologyAssumption DEF Actor
<1>3. ASSUME NEW a \in Worker, ModifiesResult(a) PROVE RunningInv'
  <2>1. PICK t : /\ thread' = [thread EXCEPT ![a] = t]
                 /\ t.pc = "save" /\ t.job = thread[a].job
    BY <1>3 DEF ModifiesResult, Modified
  <2>2. running' = running /\ thread[a].pc \in {"record", "fail", "prune"} /\ a \in Actor
    BY <1>3 DEF ModifiesResult, sharedVars, Actor
  <2>. QED BY <2>1, <2>2, SameFlags DEF Shown, Body, Saving
<1>4. ASSUME NEW a \in Admin, EditResult(a) \/ RegisterResult(a) PROVE RunningInv'
  <2>1. running' = running /\ \E t : thread' = [thread EXCEPT ![a] = t]
    BY <1>4 DEF EditResult, Edited, RegisterResult, sharedVars
  <2>. QED BY <1>2, <2>1, SameFlags
<1>5. ASSUME NEW a \in Actor, SaveResult(a) PROVE RunningInv'
  <2>1. PICK t : /\ thread' = [thread EXCEPT ![a] = t]
                 /\ \/ t = [thread[a] EXCEPT !.pc = "rewrite"]
                    \/ /\ t.pc \in {thread[a].ok, thread[a].err}
                       /\ t.pc # "idle" => t.job = thread[a].job
    BY <1>5 DEF SaveResult
  <2>2. running' = running /\ thread[a].pc \in Saving /\ thread[a] \in Thread
    BY <1>1, <1>5 DEF SaveResult, sharedVars
  <2>3. CASE t = [thread[a] EXCEPT !.pc = "rewrite"]
    <3>1. t.pc = "rewrite" /\ t.job = thread[a].job
      BY <2>2, <2>3 DEF Thread
    <3>. HIDE <2>3
    <3>. QED BY <2>1, <2>2, <3>1, SameFlags DEF Shown, Saving
  <2>4. CASE t.pc \in {thread[a].ok, thread[a].err} /\ (t.pc # "idle" => t.job = thread[a].job)
    <3>1. a \in Worker => t.pc \in {"prune", "discard", "fail"}
      BY <2>2, <2>4 DEF MutexInv, Returns
    <3>. QED BY <2>1, <2>2, <2>4, <3>1, SameFlags DEF Shown, Body
  <2>. QED BY <2>1, <2>3, <2>4
<1>6. ASSUME NEW r \in Run, Expire(r) PROVE RunningInv'
  BY <1>6 DEF Expire, sharedVars, RunningInv
<1>7. ASSUME NEW p \in Proc, Crash(p) PROVE RunningInv'
  <2>1. \A a \in Actor : thread'[a] = IF ProcOf[a] = p THEN Idle ELSE thread[a]
    BY <1>7 DEF Crash
  <2>2. Idle.pc \notin Shown
    BY DEF Idle, Shown, Body, Saving
  <2>3. \A q \in Proc : running'[q] = IF q = p THEN {} ELSE running[q]
    BY <1>1, <1>7 DEF Crash
  <2>4. \A a \in Worker : ProcOf[a] \in Proc /\ a \in Actor
    BY TopologyAssumption DEF Actor
  <2>5. ASSUME NEW a \in Worker, thread'[a].pc \in Shown
        PROVE  thread'[a].job \in running'[ProcOf[a]]
    BY <2>1, <2>2, <2>3, <2>4, <2>5 DEF RunningInv
  <2>6. ASSUME NEW q \in Proc, NEW j \in running'[q]
        PROVE  \E a \in Worker : /\ ProcOf[a] = q /\ thread'[a].job = j
                                 /\ thread'[a].pc \in Shown
    <3>1. q # p /\ j \in running[q]
      BY <2>3, <2>6
    <3>2. PICK a \in Worker : ProcOf[a] = q /\ thread[a].job = j /\ thread[a].pc \in Shown
      BY <3>1 DEF RunningInv
    <3>. QED BY <2>1, <2>4, <3>1, <3>2
  <2>. QED BY <2>5, <2>6 DEF RunningInv
<1>8. ASSUME NEW p \in Proc, init_scheduler(p) PROVE RunningInv'
  BY <1>8 DEF init_scheduler, RunningInv
<1>9. CASE UNCHANGED vars
  BY <1>9 DEF vars, sharedVars, RunningInv
<1>. QED BY <1>3, <1>4, <1>5, <1>6, <1>7, <1>8, <1>9, GoesRunning, NextCases

----------------------------------------------------------------------------
(* One process with a jobs file that can be renamed over                    *)

\* RUN_SCHEDULERS=inline in one gunicorn worker, and os.replace works.
OneProcess == InPlace = FALSE /\ \A p, q \in Proc : p = q

\* One request at a time edits the jobs.
OneAdmin == \A a, b \in Admin : a = b

LEMMA OneSaver ==
    ASSUME OneProcess, MutexInv, NEW a \in Actor, NEW b \in Actor,
           thread[b].pc \in Saving,
           mutex[ProcOf[a]] = Free \/ thread[a].pc \in Saving
    PROVE  a = b
<1>1. ProcOf[a] = ProcOf[b]
  BY TopologyAssumption DEF OneProcess
<1>. QED BY <1>1, SavingAlone

\* A copy of the jobs that is about to be saved keeps what is in the file, for as
\* long as it waits: nobody else can write in between.
KeepInv ==
    /\ file # Torn
    /\ deleted \subseteq used
    /\ \A j \in Job : file[j] # NoJob => j \in used
    /\ \A a \in Actor : thread[a].pc \in Saving =>
          /\ thread[a].pc = "save"
          /\ Keeps(file, thread[a].buf)
          /\ \A j \in Job : thread[a].buf[j] # NoJob => j \in used

LEMMA WithRecordKeeps ==
    ASSUME NEW jobs \in Jobs, NEW j, NEW rec \in Record
    PROVE  /\ Keeps(jobs, WithRecord(jobs, j, rec))
           /\ \A k \in Job : WithRecord(jobs, j, rec)[k] = NoJob <=> jobs[k] = NoJob
           /\ \A k \in Job : Wanted(WithRecord(jobs, j, rec)[k]) = Wanted(jobs[k])
<1>1. CASE jobs[j] = NoJob \/ j \notin Job
  BY <1>1 DEF WithRecord, Keeps, Jobs
<1>2. CASE jobs[j] # NoJob /\ j \in Job
  <2>1. jobs[j] \in Entry
    BY <1>2 DEF Jobs
  <2> DEFINE new == [jobs[j] EXCEPT !.runs = jobs[j].runs \cup {rec}]
  <2>2. /\ new.runs = jobs[j].runs \cup {rec} /\ new \in Entry
        /\ new.schedule = jobs[j].schedule /\ new.enabled = jobs[j].enabled
    BY <2>1 DEF Entry
  <2>. HIDE DEF new
  <2>3. WithRecord(jobs, j, rec) = [jobs EXCEPT ![j] = new]
    BY <1>2 DEF WithRecord, new
  <2>4. \A k \in Job : WithRecord(jobs, j, rec)[k] = IF k = j THEN new ELSE jobs[k]
    BY <2>3 DEF Jobs
  <2>. QED BY <1>2, <2>2, <2>4, SentinelAssumption DEF Keeps, Wanted
<1>. QED BY <1>1, <1>2

LEMMA PrunedKeeps ==
    ASSUME NEW jobs \in Jobs, NEW j
    PROVE  /\ Keeps(jobs, Pruned(jobs, j))
           /\ \A k \in Job : Pruned(jobs, j)[k] = NoJob <=> jobs[k] = NoJob
           /\ \A k \in Job : Wanted(Pruned(jobs, j)[k]) = Wanted(jobs[k])
<1>1. CASE jobs[j] = NoJob \/ j \notin Job
  BY <1>1 DEF Pruned, Keeps, Jobs
<1>2. CASE jobs[j] # NoJob /\ j \in Job
  <2>1. jobs[j] \in Entry
    BY <1>2 DEF Jobs
  <2> DEFINE new == [jobs[j] EXCEPT !.runs = {r \in jobs[j].runs : r.run \notin expired}]
  <2>2. /\ new.runs = {r \in jobs[j].runs : r.run \notin expired} /\ new \in Entry
        /\ new.schedule = jobs[j].schedule /\ new.enabled = jobs[j].enabled
    BY <2>1 DEF Entry
  <2>. HIDE DEF new
  <2>3. Pruned(jobs, j) = [jobs EXCEPT ![j] = new]
    BY <1>2 DEF Pruned, new
  <2>4. \A k \in Job : Pruned(jobs, j)[k] = IF k = j THEN new ELSE jobs[k]
    BY <2>3 DEF Jobs
  <2>. QED BY <1>2, <2>2, <2>4, SentinelAssumption DEF Keeps, Wanted
<1>. QED BY <1>1, <1>2

LEMMA InitKeepInv == Init => KeepInv
<1>. SUFFICES ASSUME Init PROVE KeepInv
  OBVIOUS
<1>1. file \in Jobs
  BY DEF Init, Jobs, Entry
<1>. QED BY <1>1, SentinelAssumption DEF Init, KeepInv, Idle, Saving

LEMMA NextKeepInv ==
    OneProcess /\ LockInv /\ MutexInv /\ KeepInv /\ [Next]_vars => KeepInv'
<1>. SUFFICES ASSUME OneProcess, LockInv, MutexInv, KeepInv, [Next]_vars PROVE KeepInv'
  OBVIOUS
<1>1. thread \in [Actor -> Thread] /\ file \in Jobs /\ Load = file
  BY DEF LockInv, TypeOK, KeepInv, Load
<1>2. \A a \in Worker \cup Admin : a \in Actor
  BY DEF Actor
\* Steps that write no file and save nothing.
<1>3. ASSUME NEW a \in Actor, NEW t, thread' = [thread EXCEPT ![a] = t],
             t.pc \notin Saving, UNCHANGED <<file, used, deleted, expired>>
      PROVE  KeepInv'
  <2>1. \A b \in Actor : thread'[b] = IF b = a THEN t ELSE thread[b]
    BY <1>1, <1>3
  <2>. QED BY <1>3, <2>1 DEF KeepInv, Keeps
\* The beginning of a with _lock block.
<1>4. ASSUME NEW a \in Actor, NEW t, thread' = [thread EXCEPT ![a] = t],
             t.pc = "save", mutex[ProcOf[a]] = Free, file' = file,
             deleted' \subseteq used', used \subseteq used',
             Keeps(file, t.buf)', \A j \in Job : t.buf[j] # NoJob => j \in used'
      PROVE  KeepInv'
  <2>1. \A b \in Actor : thread'[b] = IF b = a THEN t ELSE thread[b]
    BY <1>1, <1>4
  <2>2. \A b \in Actor : thread[b].pc \in Saving => b = a
    BY <1>4, OneSaver
  <2>3. \A b \in Actor : thread'[b].pc \in Saving => thread'[b] = t
    BY <2>1, <2>2
  <2>4. ASSUME NEW b \in Actor, thread'[b].pc \in Saving
        PROVE  /\ thread'[b].pc = "save"
               /\ Keeps(file, thread[b].buf)'
               /\ \A j \in Job : thread'[b].buf[j] # NoJob => j \in used'
    BY <1>4, <2>3, <2>4 DEF Keeps
  <2>. QED BY <1>4, <2>4 DEF KeepInv
<1>5. ASSUME NEW a \in Worker, GoesResult(a) PROVE KeepInv'
  <2>1. PICK t : thread' = [thread EXCEPT ![a] = t] /\ t.pc \notin Saving
    BY <1>5 DEF GoesResult, Moved
  <2>. QED BY <1>2, <1>3, <1>5, <2>1 DEF GoesResult
<1>6. ASSUME NEW a \in Worker, ModifiesResult(a) PROVE KeepInv'
  <2>1. PICK t : /\ thread' = [thread EXCEPT ![a] = t] /\ t.pc = "save"
                 /\ \/ \E rec \in Record : t.buf = WithRecord(Load, thread[a].job, rec)
                    \/ t.buf = Pruned(Load, thread[a].job)
    BY <1>6 DEF ModifiesResult, Modified
  <2>2. /\ mutex[ProcOf[a]] = Free /\ file' = file /\ used' = used
        /\ deleted' = deleted /\ expired' = expired
    BY <1>6 DEF ModifiesResult, countVars, historyVars
  <2>3. Keeps(file, t.buf) /\ \A j \in Job : t.buf[j] = NoJob <=> file[j] = NoJob
    <3>1. CASE t.buf = Pruned(Load, thread[a].job)
      BY <1>1, <3>1, PrunedKeeps
    <3>2. ASSUME NEW rec \in Record, t.buf = WithRecord(Load, thread[a].job, rec)
          PROVE  Keeps(file, t.buf) /\ \A j \in Job : t.buf[j] = NoJob <=> file[j] = NoJob
      BY <1>1, <3>2, WithRecordKeeps
    <3>. QED BY <2>1, <3>1, <3>2
  <2>4. Keeps(file, t.buf)'
    BY <2>2, <2>3 DEF Keeps
  <2>. QED BY <1>2, <1>4, <2>1, <2>2, <2>3, <2>4 DEF KeepInv
<1>7. ASSUME NEW a \in Admin, EditResult(a) PROVE KeepInv'
  <2>1. PICK j \in Job : \E entry, t :
           /\ thread' = [thread EXCEPT ![a] = t]
           /\ t.pc = "save" /\ t.buf = [Load EXCEPT ![j] = entry]
           /\ Created(j, entry) \/ Updated(j, entry) \/ Deleted(j, entry)
    BY <1>7 DEF EditResult, Edited
  <2>2. PICK entry, t :
           /\ thread' = [thread EXCEPT ![a] = t]
           /\ t.pc = "save" /\ t.buf = [Load EXCEPT ![j] = entry]
           /\ Created(j, entry) \/ Updated(j, entry) \/ Deleted(j, entry)
    BY <2>1
  <2>3. /\ mutex[ProcOf[a]] = Free /\ file' = file /\ expired' = expired
    BY <1>7 DEF EditResult
  <2>4. \A k \in Job : t.buf[k] = IF k = j THEN entry ELSE file[k]
    BY <1>1, <2>2 DEF Jobs
  <2>5. /\ deleted' \subseteq used' /\ used \subseteq used'
        /\ deleted \subseteq deleted' /\ deleted' \subseteq deleted \cup {j}
    BY <2>2 DEF KeepInv, Created, Updated, Deleted
  <2>6. \A k \in Job : t.buf[k] # NoJob => k \in used'
    BY <1>1, <2>2, <2>4 DEF KeepInv, Created, Updated, Deleted
  <2>7. Keeps(file, t.buf)'
    <3>1. CASE Created(j, entry)
      <4>1. file[j] = NoJob /\ j \notin deleted /\ deleted' = deleted
        BY <3>1 DEF Created, KeepInv
      <4>. QED BY <2>3, <2>4, <4>1 DEF Keeps
    <3>2. CASE Updated(j, entry)
      <4>1. entry # NoJob /\ file[j] # NoJob /\ entry.runs = file[j].runs /\ deleted' = deleted
        BY <1>1, <3>2, SentinelAssumption DEF Updated
      <4>. QED BY <2>3, <2>4, <4>1 DEF Keeps
    <3>3. CASE Deleted(j, entry)
      <4>1. entry = NoJob /\ j \in deleted'
        BY <3>3 DEF Deleted
      <4>. QED BY <2>3, <2>4, <4>1 DEF Keeps
    <3>. QED BY <2>2, <3>1, <3>2, <3>3
  <2>. QED BY <1>2, <1>4, <2>2, <2>3, <2>5, <2>6, <2>7
<1>8. ASSUME NEW a \in Admin, RegisterResult(a) PROVE KeepInv'
  <2>1. PICK t : thread' = [thread EXCEPT ![a] = t] /\ t.pc \in {"idle", "register"}
    BY <1>8 DEF RegisterResult
  <2>. QED BY <1>2, <1>3, <1>8, <2>1 DEF RegisterResult, Saving
<1>9. ASSUME NEW a \in Actor, SaveResult(a) PROVE KeepInv'
  <2>1. thread[a].pc = "save" /\ thread[a].pc \in Saving /\ Returns(a)
    BY <1>9 DEF SaveResult, KeepInv, MutexInv
  <2>2. PICK t : /\ thread' = [thread EXCEPT ![a] = t]
                 /\ t.pc \in {thread[a].ok, thread[a].err}
                 /\ file' \in {file, thread[a].buf}
    BY <1>9, <2>1 DEF SaveResult, OneProcess
  <2>3. t.pc \notin Saving
    BY <1>2, <2>1, <2>2 DEF Returns, Saving, Actor
  <2>4. \A b \in Actor : thread'[b].pc \notin Saving
    <3>1. \A b \in Actor : thread[b].pc \in Saving => a = b
      BY <2>1, OneSaver
    <3>2. \A b \in Actor : thread'[b] = IF b = a THEN t ELSE thread[b]
      BY <1>1, <2>2
    <3>. QED BY <2>3, <3>1, <3>2
  <2>5. used' = used /\ deleted' = deleted
    BY <1>9 DEF SaveResult, countVars, historyVars
  <2>6. thread[a].buf \in Jobs
    BY <1>1 DEF Thread
  <2>7. file' # Torn /\ \A j \in Job : file'[j] # NoJob => j \in used
    BY <1>1, <2>1, <2>2, <2>6, SentinelAssumption DEF KeepInv
  <2>. QED BY <2>4, <2>5, <2>7 DEF KeepInv
<1>10. ASSUME NEW r \in Run, Expire(r) PROVE KeepInv'
  <2>1. /\ file' = file /\ thread' = thread /\ used' = used /\ deleted' = deleted
        /\ expired \subseteq expired'
    BY <1>10 DEF Expire, countVars
  <2>2. \A new : Keeps(file, new) => Keeps(file, new)'
    BY <2>1 DEF Keeps
  <2>3. \A a \in Actor : Keeps(file, thread[a].buf) => Keeps(file, thread[a].buf)'
    BY <2>1, <2>2 DEF Keeps
  <2>. QED BY <2>1, <2>3 DEF KeepInv
<1>11. ASSUME NEW p \in Proc, Crash(p) PROVE KeepInv'
  <2>1. \A a \in Actor : thread'[a] = Idle
    BY <1>11, TopologyAssumption DEF Crash, OneProcess
  <2>. QED BY <1>11, <2>1 DEF Crash, KeepInv, Idle, Saving, historyVars
<1>12. ASSUME NEW p \in Proc, init_scheduler(p) PROVE KeepInv'
  BY <1>12 DEF init_scheduler, KeepInv, Keeps, countVars, historyVars
<1>13. CASE UNCHANGED vars
  BY <1>13 DEF vars, KeepInv, Keeps, countVars, historyVars
<1>. QED BY <1>5, <1>6, <1>7, <1>8, <1>9, <1>10, <1>11, <1>12, <1>13, NextCases

\* Only a save writes the file, and it writes a copy that keeps what was in it.
LEMMA SavesKeep ==
    OneProcess /\ LockInv /\ MutexInv /\ KeepInv /\ [Next]_vars
        => [Keeps(file, file')]_file
<1>. SUFFICES ASSUME OneProcess, LockInv, KeepInv, [Next]_vars, file' # file
              PROVE  Keeps(file, file')
  OBVIOUS
<1>1. PICK a \in Actor : SaveResult(a)
  BY NextCases DEF GoesResult, ModifiesResult, EditResult, RegisterResult, Expire, Crash,
                   init_scheduler, vars
<1>2. thread[a].pc = "save" /\ Keeps(file, thread[a].buf)
  BY <1>1 DEF SaveResult, KeepInv
<1>3. file' = thread[a].buf
  BY <1>1, <1>2 DEF SaveResult, OneProcess
<1>. QED BY <1>2, <1>3

\* With one request at a time, what the triggers and the requests under way say about
\* the file; a copy of the jobs waiting to be saved asks for the same triggers, except
\* for the job of an edit that will register it.
TriggerInv ==
    /\ \A p \in up \cap SchedulerProc, j \in Job :
        \/ trigger[p][j] = Wanted(file[j])
        \/ \E a \in Admin : thread[a].job = j /\ thread[a].pc \in {"unregister", "register"}
    /\ \A a \in Admin : thread[a].pc \in {"unregister", "register"} =>
          thread[a].want = Wanted(file[thread[a].job])
    /\ \A a \in Actor : thread[a].pc \in Saving =>
          \A j \in Job :
            \/ Wanted(thread[a].buf[j]) = Wanted(file[j])
            \/ /\ a \in Admin /\ thread[a].job = j
               /\ thread[a].ok # "idle" \/ SchedulerProc = {}
    /\ \A a \in Admin : thread[a].pc \in Saving =>
          thread[a].want = Wanted(thread[a].buf[thread[a].job])

LEMMA InitTriggerInv == Init => TriggerInv
BY DEF Init, TriggerInv, FreshTriggers, Actor, Idle, Saving

LEMMA NextTriggerInv ==
    OneProcess /\ OneAdmin /\ LockInv /\ MutexInv /\ KeepInv /\ TriggerInv /\ [Next]_vars
        => TriggerInv'
<1>. SUFFICES ASSUME OneProcess, OneAdmin, LockInv, MutexInv, KeepInv, TriggerInv,
                     [Next]_vars
              PROVE  TriggerInv'
  OBVIOUS
<1>1. thread \in [Actor -> Thread] /\ file \in Jobs /\ Load = file
  BY DEF LockInv, TypeOK, KeepInv, Load
<1>2. /\ \A a \in Worker \cup Admin : a \in Actor
      /\ \A a \in Worker : a \notin Admin
  BY TopologyAssumption DEF Actor
\* Steps of a worker that leave the file and the triggers alone.
<1>3. ASSUME NEW a \in Worker, NEW t, thread' = [thread EXCEPT ![a] = t],
             t.pc \in Saving => \A j \in Job : Wanted(t.buf[j]) = Wanted(file[j]),
             UNCHANGED <<file, trigger, up>>
      PROVE  TriggerInv'
  <2>1. thread'[a] = t /\ \A b \in Actor \ {a} : thread'[b] = thread[b]
    BY <1>1, <1>2, <1>3
  <2>2. \A b \in Admin : thread'[b] = thread[b]
    BY <1>2, <2>1
  <2>3. \A b \in Actor : thread'[b].pc \in Saving =>
          \A j \in Job :
            \/ Wanted(thread'[b].buf[j]) = Wanted(file[j])
            \/ /\ b \in Admin /\ thread'[b].job = j
               /\ thread'[b].ok # "idle" \/ SchedulerProc = {}
    BY <1>3, <2>1 DEF TriggerInv
  <2>. QED BY <1>3, <2>2, <2>3 DEF TriggerInv
<1>4. ASSUME NEW a \in Worker, GoesResult(a) PROVE TriggerInv'
  <2>1. PICK t : thread' = [thread EXCEPT ![a] = t] /\ t.pc \notin Saving
    BY <1>4 DEF GoesResult, Moved
  <2>. QED BY <1>3, <1>4, <2>1 DEF GoesResult
<1>5. ASSUME NEW a \in Worker, ModifiesResult(a) PROVE TriggerInv'
  <2>1. PICK t : /\ thread' = [thread EXCEPT ![a] = t]
                 /\ \/ \E rec \in Record : t.buf = WithRecord(Load, thread[a].job, rec)
                    \/ t.buf = Pruned(Load, thread[a].job)
    BY <1>5 DEF ModifiesResult, Modified
  <2>2. \A j \in Job : Wanted(t.buf[j]) = Wanted(file[j])
    <3>1. CASE t.buf = Pruned(Load, thread[a].job)
      BY <1>1, <3>1, PrunedKeeps
    <3>2. ASSUME NEW rec \in Record, t.buf = WithRecord(Load, thread[a].job, rec)
          PROVE  \A j \in Job : Wanted(t.buf[j]) = Wanted(file[j])
      BY <1>1, <3>2, WithRecordKeeps
    <3>. QED BY <2>1, <3>1, <3>2
  <2>3. UNCHANGED <<file, trigger, up>>
    BY <1>5 DEF ModifiesResult, sharedVars
  <2>. QED BY <1>3, <2>1, <2>2, <2>3
<1>6. ASSUME NEW a \in Admin, EditResult(a) PROVE TriggerInv'
  <2>1. PICK j \in Job : \E entry, t :
           /\ thread' = [thread EXCEPT ![a] = t]
           /\ t.pc = "save" /\ t.job = j /\ t.want = Wanted(entry)
           /\ t.buf = [Load EXCEPT ![j] = entry]
           /\ t.ok = "idle" => \/ ProcOf[a] \notin SchedulerProc
                               \/ Created(j, entry) /\ Wanted(entry) = NoTrigger
    BY <1>6 DEF EditResult, Edited
  <2>2. PICK entry, t :
           /\ thread' = [thread EXCEPT ![a] = t]
           /\ t.pc = "save" /\ t.job = j /\ t.want = Wanted(entry)
           /\ t.buf = [Load EXCEPT ![j] = entry]
           /\ t.ok = "idle" => \/ ProcOf[a] \notin SchedulerProc
                               \/ Created(j, entry) /\ Wanted(entry) = NoTrigger
    BY <2>1
  <2>3. UNCHANGED <<file, trigger, up>> /\ thread[a].pc = "idle"
    BY <1>6 DEF EditResult, sharedVars
  <2>4. thread'[a] = t /\ \A b \in Actor \ {a} : thread'[b] = thread[b]
    BY <1>1, <1>2, <2>2
  <2>5. \A b \in Admin : b = a
    BY DEF OneAdmin
  <2>6. \A k \in Job : t.buf[k] = IF k = j THEN entry ELSE file[k]
    BY <1>1, <2>2 DEF Jobs
  <2>7. ASSUME NEW k \in Job
        PROVE  \/ Wanted(t.buf[k]) = Wanted(file[k])
               \/ t.job = k /\ (t.ok # "idle" \/ SchedulerProc = {})
    <3>1. CASE k # j
      BY <2>6, <3>1
    <3>2. CASE k = j /\ t.ok # "idle"
      BY <2>2, <3>2
    <3>3. CASE k = j /\ ProcOf[a] \notin SchedulerProc
      <4>1. SchedulerProc = {}
        BY <1>2, <3>3, TopologyAssumption DEF OneProcess
      <4>. QED BY <2>2, <3>3, <4>1
    <3>4. CASE k = j /\ Created(j, entry) /\ Wanted(entry) = NoTrigger
      <4>1. file[j] = NoJob
        BY <3>4 DEF Created, KeepInv
      <4>. QED BY <2>6, <3>4, <4>1 DEF Wanted
    <3>. QED BY <2>2, <3>1, <3>2, <3>3, <3>4
  <2>8. \A p \in up \cap SchedulerProc, k \in Job : trigger[p][k] = Wanted(file[k])
    BY <2>3, <2>5 DEF TriggerInv
  <2>9. \A b \in Actor : thread'[b].pc \in Saving =>
          \A k \in Job :
            \/ Wanted(thread'[b].buf[k]) = Wanted(file[k])
            \/ /\ b \in Admin /\ thread'[b].job = k
               /\ thread'[b].ok # "idle" \/ SchedulerProc = {}
    BY <2>4, <2>7 DEF TriggerInv
  <2>10. t.want = Wanted(t.buf[t.job]) /\ t.pc \notin {"unregister", "register"}
    BY <2>2, <2>6
  <2>. QED BY <2>3, <2>4, <2>5, <2>8, <2>9, <2>10 DEF TriggerInv
<1>7. ASSUME NEW a \in Admin, RegisterResult(a) PROVE TriggerInv'
  <2> DEFINE j == thread[a].job
  <2>1. /\ thread[a].pc \in {"unregister", "register"} /\ UNCHANGED <<file, up>>
        /\ j \in Job /\ thread[a].want = Wanted(file[j])
    BY <1>7 DEF RegisterResult, MutexInv, TriggerInv
  <2>2. PICK t : /\ thread' = [thread EXCEPT ![a] = t]
                 /\ \/ /\ t.pc = "idle"
                       /\ trigger' = [trigger EXCEPT ![ProcOf[a]][j] = thread[a].want]
                    \/ /\ t.pc = "register" /\ t.job = j /\ t.want = thread[a].want
                       /\ trigger' = [trigger EXCEPT ![ProcOf[a]][j] = NoTrigger]
    BY <1>7 DEF RegisterResult
  <2>3. thread'[a] = t /\ \A b \in Actor \ {a} : thread'[b] = thread[b]
    BY <1>1, <1>2, <2>2
  <2>4. \A b \in Admin : b = a
    BY DEF OneAdmin
  <2>5. /\ trigger \in [Proc -> [Job -> Schedule \cup {NoTrigger}]]
        /\ up \subseteq Proc /\ ProcOf[a] \in Proc /\ \A p \in Proc : p = ProcOf[a]
    BY <1>2, TopologyAssumption DEF LockInv, TypeOK, OneProcess
  <2>6. ASSUME NEW p \in up \cap SchedulerProc, NEW k \in Job
        PROVE  \/ trigger'[p][k] = Wanted(file[k])
               \/ t.job = k /\ t.pc = "register"
    <3>1. p = ProcOf[a]
      BY <2>5
    <3>2. CASE k # j
      <4>1. trigger'[p][k] = trigger[p][k]
        BY <2>2, <2>5, <3>1, <3>2
      <4>2. trigger[p][k] = Wanted(file[k])
        BY <2>4, <3>2 DEF TriggerInv
      <4>. QED BY <4>1, <4>2
    <3>3. CASE k = j /\ t.pc = "idle"
      <4>1. trigger'[p][k] = thread[a].want
        BY <2>2, <2>5, <3>1, <3>3
      <4>. QED BY <2>1, <3>3, <4>1
    <3>4. CASE k = j /\ t.pc # "idle"
      BY <2>2, <3>4
    <3>. QED BY <3>2, <3>3, <3>4
  <2>7. \A b \in Actor : thread'[b].pc \in Saving =>
          \A k \in Job :
            \/ Wanted(thread'[b].buf[k]) = Wanted(file[k])
            \/ /\ b \in Admin /\ thread'[b].job = k
               /\ thread'[b].ok # "idle" \/ SchedulerProc = {}
    BY <2>2, <2>3 DEF TriggerInv, Saving
  <2>8. \A b \in Admin : thread'[b].pc \notin Saving
    BY <2>2, <2>3, <2>4 DEF Saving
  <2>9. \A b \in Admin : thread'[b].pc \in {"unregister", "register"} =>
            thread'[b].want = Wanted(file[thread'[b].job])
    BY <2>1, <2>2, <2>3, <2>4
  <2>. QED BY <2>1, <2>3, <2>6, <2>7, <2>8, <2>9 DEF TriggerInv
<1>8. ASSUME NEW a \in Actor, SaveResult(a) PROVE TriggerInv'
  <2>1. thread[a].pc = "save" /\ thread[a].pc \in Saving /\ Returns(a)
    BY <1>8 DEF SaveResult, KeepInv, MutexInv
  <2>2. PICK t : /\ thread' = [thread EXCEPT ![a] = t]
                 /\ t.pc # "idle" => t.job = thread[a].job /\ t.want = thread[a].want
                 /\ \/ t.pc = thread[a].ok /\ file' = thread[a].buf
                    \/ t.pc = thread[a].err /\ file' = file
    BY <1>8, <2>1 DEF SaveResult, OneProcess
  <2>3. UNCHANGED <<trigger, up>>
    BY <1>8 DEF SaveResult, sharedVars
  <2>4. thread'[a] = t /\ \A b \in Actor \ {a} : thread'[b] = thread[b]
    BY <1>1, <2>2
  <2>5. t.pc \notin Saving
    BY <2>1, <2>2 DEF Returns, Saving, Actor
  <2>6. \A b \in Actor : thread'[b].pc \notin Saving
    BY <2>1, <2>4, <2>5, OneSaver
  <2>7. CASE a \in Worker
    <3>1. \A j \in Job : Wanted(file'[j]) = Wanted(file[j])
      BY <1>2, <2>1, <2>2, <2>7 DEF TriggerInv
    <3>2. \A b \in Admin : thread'[b] = thread[b]
      BY <1>2, <2>4, <2>7
    <3>3. \A b \in Admin : thread[b].pc # "idle" => thread[b].job \in Job
      BY DEF MutexInv
    <3>4. \A b \in Admin : thread'[b].pc \in {"unregister", "register"} =>
            thread'[b].want = Wanted(file'[thread'[b].job])
      BY <3>1, <3>2, <3>3 DEF TriggerInv
    <3>5. \A p \in up \cap SchedulerProc, j \in Job :
            \/ trigger[p][j] = Wanted(file'[j])
            \/ \E b \in Admin : /\ thread'[b].job = j
                                /\ thread'[b].pc \in {"unregister", "register"}
      BY <3>1, <3>2 DEF TriggerInv
    <3>. QED BY <2>3, <2>6, <3>4, <3>5, <1>2 DEF TriggerInv
  <2>8. CASE a \in Admin
    <3>1. \A b \in Admin : b = a
      BY <2>8 DEF OneAdmin
    <3>2. \A p \in up \cap SchedulerProc, j \in Job : trigger[p][j] = Wanted(file[j])
      BY <2>1, <3>1 DEF TriggerInv
    <3>3. thread[a].want = Wanted(thread[a].buf[thread[a].job])
      BY <2>1, <2>8 DEF TriggerInv
    <3>4. \A j \in Job :
            \/ Wanted(thread[a].buf[j]) = Wanted(file[j])
            \/ thread[a].job = j /\ (thread[a].ok # "idle" \/ SchedulerProc = {})
      BY <2>1 DEF TriggerInv
    <3>5. CASE t.pc = thread[a].err /\ file' = file
      <4>1. t.pc = "idle"
        BY <2>1, <2>8, <3>5 DEF Returns
      <4>. QED BY <2>3, <2>4, <2>6, <3>1, <3>2, <3>5, <4>1, <1>2 DEF TriggerInv
    <3>6. CASE t.pc = thread[a].ok /\ file' = thread[a].buf
      <4>1. t.pc \in {"idle", "register", "unregister"}
        BY <2>1, <2>8, <3>6 DEF Returns
      <4>2. ASSUME NEW p \in up \cap SchedulerProc, NEW j \in Job
            PROVE  \/ trigger[p][j] = Wanted(file'[j])
                   \/ t.job = j /\ t.pc \in {"unregister", "register"}
        BY <2>2, <3>2, <3>4, <3>6, <4>1
      <4>3. t.pc \in {"unregister", "register"} => t.want = Wanted(file'[t.job])
        BY <2>2, <3>3, <3>6
      <4>. QED BY <2>3, <2>4, <2>6, <2>8, <3>1, <4>2, <4>3, <1>2 DEF TriggerInv
    <3>. QED BY <2>2, <3>5, <3>6
  <2>. QED BY <2>7, <2>8 DEF Actor
<1>9. ASSUME NEW r \in Run, Expire(r) PROVE TriggerInv'
  BY <1>9 DEF Expire, sharedVars, TriggerInv
<1>10. ASSUME NEW p \in Proc, Crash(p) PROVE TriggerInv'
  <2>1. \A a \in Actor : thread'[a] = Idle
    BY <1>10, TopologyAssumption DEF Crash, OneProcess
  <2>2. up' = {}
    BY <1>10 DEF Crash, OneProcess, LockInv, TypeOK
  <2>. QED BY <1>2, <2>1, <2>2 DEF TriggerInv, Idle, Saving
<1>11. ASSUME NEW p \in Proc, init_scheduler(p) PROVE TriggerInv'
  <2>1. /\ trigger' = [trigger EXCEPT ![p] = FreshTriggers(p, Load)]
        /\ up' = up \cup {p} /\ file' = file /\ thread' = thread
    BY <1>11 DEF init_scheduler
  <2>2. trigger \in [Proc -> [Job -> Schedule \cup {NoTrigger}]] /\ up \subseteq Proc
    BY DEF LockInv, TypeOK
  <2>3. \A q \in up' \cap SchedulerProc : q = p /\ q \in SchedulerProc
    BY <2>1, <2>2 DEF OneProcess
  <2>4. \A q \in up' \cap SchedulerProc, j \in Job : trigger'[q][j] = Wanted(file[j])
    BY <1>1, <2>1, <2>2, <2>3 DEF FreshTriggers
  <2>. QED BY <2>1, <2>4 DEF TriggerInv
<1>12. CASE UNCHANGED vars
  BY <1>12 DEF vars, sharedVars, TriggerInv
<1>. QED BY <1>4, <1>5, <1>6, <1>7, <1>8, <1>9, <1>10, <1>11, <1>12, NextCases

----------------------------------------------------------------------------
(* Theorems about the flags, the run records and the file                   *)

\* Every deployment: a thread between taking and giving back _lock is its holder, so
\* that in one process loads and saves of the jobs file do not overlap.
THEOREM OneLockHolder == Spec => []MutexInv
BY InitMutexInv, NextMutexInv, FlocksHeld, PTL DEF Spec

\* Every deployment: the history of a job shows "ok" only for runs whose report was
\* handed to the mail server, also with an in-place file that several processes
\* overwrite, failing saves and crashes (_append_run after send_email).
THEOREM OkMeansMailed == Spec => []OkRecordMeansMailed
<1>1. MailInv => OkRecordMeansMailed
  BY DEF MailInv, Mailed, OkRecordMeansMailed
<1>. QED BY <1>1, InitMailInv, NextMailInv, FlocksHeld, OneLockHolder, PTL DEF Spec

\* Every deployment: _running_jobs of a process holds the jobs that its threads
\* execute, from the flock to the finally block.
THEOREM RunningFlags == Spec => []RunningFlagExact
<1>1. LockInv /\ RunningInv => RunningFlagExact
  <2>. SUFFICES ASSUME LockInv, RunningInv PROVE RunningFlagExact
    OBVIOUS
  <2>1. \A a \in Worker, j \in Job :
          Executing(a, j) /\ ~At(a, "unlock") => j \in running[ProcOf[a]]
    BY DEF RunningInv, Executing, At, Shown
  <2>2. \A p \in Proc : \A j \in running[p] :
          \E a \in Worker : ProcOf[a] = p /\ Executing(a, j)
    BY DEF RunningInv, Executing, Shown
  <2>. QED BY <2>1, <2>2 DEF RunningFlagExact
<1>. QED BY <1>1, InitRunningInv, NextRunningInv, FlocksHeld, OneLockHolder, PTL DEF Spec

\* One process, a file that can be renamed over, any number of threads: a save takes
\* nothing out of the file but deleted jobs and expired records, and brings no deleted
\* job back, because the file does not change between a load and its save.
THEOREM NothingIsLost == OneProcess => (Spec => NothingLost)
<1>. SUFFICES ASSUME OneProcess PROVE Spec => NothingLost
  OBVIOUS
<1>1. LockInv /\ MutexInv /\ KeepInv /\ [Next]_vars => KeepInv'
  BY NextKeepInv
<1>2. LockInv /\ MutexInv /\ KeepInv /\ [Next]_vars => [Keeps(file, file')]_file
  BY SavesKeep
<1>. QED BY <1>1, <1>2, InitKeepInv, FlocksHeld, OneLockHolder, PTL DEF Spec, NothingLost

\* One process and one request at a time, any number of executions: the triggers are
\* those the file asks for, between requests and after a restart.
THEOREM TriggersAreRight == OneProcess /\ OneAdmin => (Spec => []TriggersFollowFile)
<1>. SUFFICES ASSUME OneProcess, OneAdmin PROVE Spec => []TriggersFollowFile
  OBVIOUS
<1>1. LockInv /\ MutexInv /\ KeepInv /\ [Next]_vars => KeepInv'
  BY NextKeepInv
<1>2. LockInv /\ MutexInv /\ KeepInv /\ TriggerInv /\ [Next]_vars => TriggerInv'
  BY NextTriggerInv
<1>3. KeepInv /\ TriggerInv => TriggersFollowFile
  BY DEF KeepInv, TriggerInv, TriggersFollowFile, Load
<1>. QED BY <1>1, <1>2, <1>3, InitKeepInv, InitTriggerInv, FlocksHeld, OneLockHolder, PTL
        DEF Spec

=============================================================================
