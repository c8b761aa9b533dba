--------------------------- MODULE ScheduledJobs ---------------------------
(***************************************************************************)
(* The scheduled Config-Delta jobs of app/config_diff_scheduler.py: a JSON *)
(* jobs file shared by several processes, one APScheduler instance in each *)
(* process that started the schedulers, admin requests that edit the jobs, *)
(* and worker threads that execute them.                                   *)
(*                                                                         *)
(* Three locks are involved and they have three different scopes:          *)
(*   - mutex[p]     the module's threading.Lock: one per process;          *)
(*   - joblock[h]   the flock files in the temp directory: one per host    *)
(*                  (a container), shared by its processes;                *)
(*   - nothing      protects the jobs file itself across processes.        *)
(*                                                                         *)
(* A report's content is abstracted away: a run is a number, and what is   *)
(* kept of it is whether its email was sent and which records it left in   *)
(* the job's run history.                                                  *)
(***************************************************************************)
EXTENDS Naturals, FiniteSets

CONSTANTS
    Proc,           \* operating system processes (gunicorn workers, collector)
    Host,           \* machines or containers, each with its own temp directory
    HostOf,         \* the host of a process
    SchedulerProc,  \* the processes with RUN_SCHEDULERS=inline
    Admin,          \* request threads that edit jobs
    Worker,         \* threads that execute jobs (APScheduler pool, Run Now)
    ProcOf,         \* the process of a thread
    Job,            \* job ids
    Schedule,       \* days_of_week and time of a job, as one value
    InPlace,        \* TRUE when the jobs file is a bind mount (no rename)
    MaxRuns,        \* bound: executions that get past the job lock
    MaxCrashes,     \* bound: process crashes
    MaxEdits,       \* bound: admin requests
    Free,           \* no holder of a lock
    NoJob,          \* no entry with this id in the file
    NoTrigger,      \* no APScheduler trigger for this id
    Torn            \* a jobs file that is not valid JSON: truncated, or mixed up

Actor == Admin \cup Worker

ASSUME TopologyAssumption ==
    /\ HostOf \in [Proc -> Host]
    /\ ProcOf \in [Actor -> Proc]
    /\ SchedulerProc \subseteq Proc
    /\ Admin \cap Worker = {}
ASSUME BoundAssumption ==
    /\ MaxRuns \in Nat
    /\ MaxCrashes \in Nat
    /\ MaxEdits \in Nat
    /\ InPlace \in BOOLEAN

Run    == 1..MaxRuns
Record == [run : Run, status : {"ok", "error"}]
Entry  == [schedule : Schedule, enabled : BOOLEAN, runs : SUBSET Record]
Jobs   == [Job -> Entry \cup {NoJob}]
Empty  == [j \in Job |-> NoJob]

ASSUME SentinelAssumption ==
    /\ Free \notin Actor
    /\ NoJob \notin Entry
    /\ NoTrigger \notin Schedule
    /\ Torn \notin Jobs

VARIABLES
    file,      \* content of config_diff_jobs.json
    mutex,     \* _lock of each process
    joblock,   \* holder of the flock of a job on a host
    running,   \* _running_jobs of each process
    trigger,   \* the jobs registered with each process's APScheduler
    up,        \* the processes that are alive
    thread,    \* program point and local variables of the threads
    used,      \* job ids already generated (uuid4 never repeats)
    runs,      \* number of executions so far
    crashes,   \* number of crashes so far
    edits,     \* number of admin requests so far
    mailed,    \* history: runs whose email was handed to the SMTP server
    expired,   \* runs older than the retention period
    deleted    \* history: jobs an admin asked to delete

sharedVars  == <<joblock, running, trigger>>
historyVars == <<mailed, expired, deleted>>
countVars   == <<used, runs, crashes, edits>>
vars == <<file, mutex, sharedVars, up, thread, countVars, historyVars>>

\* Program points between a successful flock and its release.
Body == {"load", "sweep", "mail", "record", "fail", "prune", "discard", "unlock"}
\* Program points inside a with _lock block that saves.
Saving == {"save", "rewrite"}
PC == {"idle", "unregister", "register", "trylock"} \cup Body \cup Saving

Thread == [pc : PC, job : Job \cup {NoJob}, run : Run \cup {0}, buf : Jobs,
           want : Schedule \cup {NoTrigger}, ok : PC, err : PC]

Idle == [pc |-> "idle", job |-> NoJob, run |-> 0, buf |-> Empty, want |-> NoTrigger,
         ok |-> "idle", err |-> "idle"]

----------------------------------------------------------------------------
(* Persistence *)

\* _load: a missing or unreadable file is an empty list.
Load == IF file = Torn THEN Empty ELSE file

At(a, point) == thread[a].pc = point

\* The thread goes to program point next; a thread that is done forgets its locals.
Continue(t, next) == IF next = "idle" THEN Idle ELSE [t EXCEPT !.pc = next]

GoTo(a, next) == thread' = [thread EXCEPT ![a] = Continue(thread[a], next)]

\* Mutant of LoadModify: the modification is made without taking _lock.
LoadModifyUnlocked(a, t, jobs, ok, err) ==
    /\ ProcOf[a] \in up
    /\ thread' = [thread EXCEPT ![a] =
                    [t EXCEPT !.pc = "save", !.buf = jobs, !.ok = ok, !.err = err]]
    /\ UNCHANGED mutex

\* with _lock: jobs = _load(), then the modification of jobs. The thread t keeps
\* _lock until its save ends. ok and err are where it goes from there.
LoadModify(a, t, jobs, ok, err) ==
    /\ ProcOf[a] \in up
    /\ mutex[ProcOf[a]] = Free
    /\ mutex' = [mutex EXCEPT ![ProcOf[a]] = a]
    /\ thread' = [thread EXCEPT ![a] =
                    [t EXCEPT !.pc = "save", !.buf = jobs, !.ok = ok, !.err = err]]

\* The end of a with _lock block.
Leave(a, next) ==
    /\ mutex' = [mutex EXCEPT ![ProcOf[a]] = Free]
    /\ thread' = [thread EXCEPT ![a] =
                    Continue([thread[a] EXCEPT !.buf = Empty, !.ok = "idle",
                                               !.err = "idle"], next)]

\* _save where os.replace works: the new content appears in one step.
Replace(a) ==
    /\ At(a, "save")
    /\ ~InPlace
    /\ file' = thread[a].buf
    /\ Leave(a, thread[a].ok)
    /\ UNCHANGED <<sharedVars, up, countVars, historyVars>>

\* _save on a bind mount, EBUSY: open(path, "w") truncates the file ...
Truncate(a) ==
    /\ At(a, "save")
    /\ InPlace
    /\ file' = Torn
    /\ thread' = [thread EXCEPT ![a].pc = "rewrite"]
    /\ UNCHANGED <<mutex, sharedVars, up, countVars, historyVars>>

\* ... and the text is written in a later step. Over the text that another
\* process wrote since, it leaves a mixture when it is the shorter of the two.
Rewrite(a) ==
    /\ At(a, "rewrite")
    /\ file' \in IF file = Torn THEN {thread[a].buf} ELSE {thread[a].buf, Torn}
    /\ Leave(a, thread[a].ok)
    /\ UNCHANGED <<sharedVars, up, countVars, historyVars>>

\* _save raises (the temporary file cannot be written): the file is unchanged.
SaveFails(a) ==
    /\ At(a, "save")
    /\ Leave(a, thread[a].err)
    /\ UNCHANGED <<file, sharedVars, up, countVars, historyVars>>

----------------------------------------------------------------------------
(* Admin requests *)

\* The trigger that init_scheduler and _register give a job.
Wanted(entry) ==
    IF entry # NoJob /\ entry.enabled THEN entry.schedule ELSE NoTrigger

\* An edit is a load, a change of job j and a save; APScheduler is touched
\* afterwards, and only in a process that has one (_scheduler is not None).
Edit(a, j, entry, step) ==
    /\ At(a, "idle")
    /\ edits < MaxEdits
    /\ edits' = edits + 1
    /\ LoadModify(a, [Idle EXCEPT !.job = j, !.want = Wanted(entry)],
                  [Load EXCEPT ![j] = entry],
                  IF ProcOf[a] \in SchedulerProc THEN step ELSE "idle", "idle")
    /\ UNCHANGED <<file, sharedVars, up, runs, crashes, mailed, expired>>

create_job(a, j, s, e) ==
    /\ j \notin used
    /\ used' = used \cup {j}
    /\ Edit(a, j, [schedule |-> s, enabled |-> e, runs |-> {}],
            IF e THEN "register" ELSE "idle")
    /\ UNCHANGED deleted

\* Mutant of update_job: the new schedule is saved but not registered.
UpdateWithoutReschedule(a, j, s, e) ==
    /\ Load[j] # NoJob
    /\ Edit(a, j, [Load[j] EXCEPT !.schedule = s, !.enabled = e], "idle")
    /\ UNCHANGED <<used, deleted>>

\* An unknown id is a KeyError and nothing is saved.
update_job(a, j, s, e) ==
    /\ Load[j] # NoJob
    /\ Edit(a, j, [Load[j] EXCEPT !.schedule = s, !.enabled = e], "unregister")
    /\ UNCHANGED <<used, deleted>>

delete_job(a, j) ==
    /\ j \in used
    /\ Edit(a, j, NoJob, "unregister")
    /\ deleted' = deleted \cup {j}
    /\ UNCHANGED used

\* After the lock is released: _unregister, then _register of the edited job
\* (a local variable of the request) if it is enabled.
Unregister(a) ==
    /\ At(a, "unregister")
    /\ trigger' = [trigger EXCEPT ![ProcOf[a]][thread[a].job] = NoTrigger]
    /\ GoTo(a, IF thread[a].want # NoTrigger THEN "register" ELSE "idle")
    /\ UNCHANGED <<file, mutex, joblock, running, up, countVars, historyVars>>

Register(a) ==
    /\ At(a, "register")
    /\ trigger' = [trigger EXCEPT ![ProcOf[a]][thread[a].job] = thread[a].want]
    /\ GoTo(a, "idle")
    /\ UNCHANGED <<file, mutex, joblock, running, up, countVars, historyVars>>

----------------------------------------------------------------------------
(* Executions *)

Start(a, j) ==
    /\ At(a, "idle")
    /\ runs < MaxRuns
    /\ thread' = [thread EXCEPT ![a] = [Idle EXCEPT !.pc = "trylock", !.job = j]]
    /\ UNCHANGED <<file, mutex, sharedVars, up, countVars, historyVars>>

\* APScheduler fires a registered trigger. Its own limit of one instance of a job
\* at a time is left out: the flock has to work without it.
Fire(a, j) ==
    /\ ProcOf[a] \in up
    /\ trigger[ProcOf[a]][j] # NoTrigger
    /\ Start(a, j)

\* Run Now: the route looks the job up under _lock, then starts a thread.
run_job_now(a, j) ==
    /\ ProcOf[a] \in up
    /\ mutex[ProcOf[a]] = Free
    /\ Load[j] # NoJob
    /\ Start(a, j)

LockOf(a) == joblock[HostOf[ProcOf[a]]][thread[a].job]

\* Mutant of TryLock: the result of flock is not looked at.
TryLockIgnored(a) ==
    /\ At(a, "trylock")
    /\ runs < MaxRuns
    /\ joblock' = [joblock EXCEPT ![HostOf[ProcOf[a]]][thread[a].job] = a]
    /\ running' = [running EXCEPT ![ProcOf[a]] = @ \cup {thread[a].job}]
    /\ runs' = runs + 1
    /\ thread' = [thread EXCEPT ![a] = [thread[a] EXCEPT !.pc = "load", !.run = runs + 1]]
    /\ UNCHANGED <<file, mutex, trigger, up, used, crashes, edits, historyVars>>

\* _try_acquire_job_lock, which does not block, then _running_jobs.add.
TryLock(a) ==
    /\ At(a, "trylock")
    /\ LockOf(a) = Free
    /\ runs < MaxRuns
    /\ joblock' = [joblock EXCEPT ![HostOf[ProcOf[a]]][thread[a].job] = a]
    /\ running' = [running EXCEPT ![ProcOf[a]] = @ \cup {thread[a].job}]
    /\ runs' = runs + 1
    /\ thread' = [thread EXCEPT ![a] = [thread[a] EXCEPT !.pc = "load", !.run = runs + 1]]
    /\ UNCHANGED <<file, mutex, trigger, up, used, crashes, edits, historyVars>>

\* "already running in another worker - skipping". An execution beyond the
\* bound MaxRuns stops here too.
SkipRun(a) ==
    /\ At(a, "trylock")
    /\ LockOf(a) # Free \/ runs = MaxRuns
    /\ GoTo(a, "idle")
    /\ UNCHANGED <<file, mutex, sharedVars, up, countVars, historyVars>>

\* Mutant of LoadJob: the early return is outside the try, so finally is skipped.
LoadJobNoFinally(a) ==
    /\ At(a, "load")
    /\ mutex[ProcOf[a]] = Free
    /\ GoTo(a, IF Load[thread[a].job] = NoJob THEN "idle" ELSE "sweep")
    /\ UNCHANGED <<file, mutex, sharedVars, up, countVars, historyVars>>

\* The job is read under _lock. A job deleted meanwhile ends the run through
\* the finally block; enabled is not looked at.
LoadJob(a) ==
    /\ At(a, "load")
    /\ mutex[ProcOf[a]] = Free
    /\ GoTo(a, IF Load[thread[a].job] = NoJob THEN "discard" ELSE "sweep")
    /\ UNCHANGED <<file, mutex, sharedVars, up, countVars, historyVars>>

\* bulk_preview_adom and the report. evaluate_alerts, called in between, has a
\* file and a lock of its own (module PackageAlerts) and its errors are swallowed.
Sweep(a, ok) ==
    /\ At(a, "sweep")
    /\ GoTo(a, IF ok THEN "mail" ELSE "fail")
    /\ UNCHANGED <<file, mutex, sharedVars, up, countVars, historyVars>>

\* Mutant of send_email: a failed delivery is swallowed.
SendEmailSwallowed(a, ok) ==
    /\ At(a, "mail")
    /\ GoTo(a, "record")
    /\ mailed' = IF ok THEN mailed \cup {thread[a].run} ELSE mailed
    /\ UNCHANGED <<file, mutex, sharedVars, up, countVars, expired, deleted>>

send_email(a, ok) ==
    /\ At(a, "mail")
    /\ GoTo(a, IF ok THEN "record" ELSE "fail")
    /\ mailed' = IF ok THEN mailed \cup {thread[a].run} ELSE mailed
    /\ UNCHANGED <<file, mutex, sharedVars, up, countVars, expired, deleted>>

\* jobs with rec in the history of job j, if j is still there.
WithRecord(jobs, j, rec) ==
    IF jobs[j] = NoJob THEN jobs
    ELSE [jobs EXCEPT ![j].runs = @ \cup {rec}]

\* _append_run, for the two kinds of record a run can leave.
AppendRun(a, status, ok, err) ==
    /\ LoadModify(a, thread[a],
                  WithRecord(Load, thread[a].job,
                             [run |-> thread[a].run, status |-> status]),
                  ok, err)
    /\ UNCHANGED <<file, sharedVars, up, countVars, historyVars>>

AppendOk(a)    == At(a, "record") /\ AppendRun(a, "ok", "prune", "fail")
AppendError(a) == At(a, "fail") /\ AppendRun(a, "error", "discard", "discard")

Pruned(jobs, j) ==
    IF jobs[j] = NoJob THEN jobs
    ELSE [jobs EXCEPT ![j].runs = {r \in @ : r.run \notin expired}]

\* _prune_runs; a failure here takes the run to the except branch.
PruneRuns(a) ==
    /\ At(a, "prune")
    /\ LoadModify(a, thread[a], Pruned(Load, thread[a].job), "discard", "fail")
    /\ UNCHANGED <<file, sharedVars, up, countVars, historyVars>>

\* Mutant of Discard: the running flag is left behind.
DiscardForgotten(a) ==
    /\ At(a, "discard")
    /\ GoTo(a, "unlock")
    /\ UNCHANGED <<file, mutex, sharedVars, up, countVars, historyVars>>

\* finally: _running_jobs.discard first ...
Discard(a) ==
    /\ At(a, "discard")
    /\ running' = [running EXCEPT ![ProcOf[a]] = @ \ {thread[a].job}]
    /\ GoTo(a, "unlock")
    /\ UNCHANGED <<file, mutex, joblock, trigger, up, countVars, historyVars>>

\* ... and only then the flock is released.
Unlock(a) ==
    /\ At(a, "unlock")
    /\ joblock' = [joblock EXCEPT ![HostOf[ProcOf[a]]][thread[a].job] = Free]
    /\ GoTo(a, "idle")
    /\ UNCHANGED <<file, mutex, running, trigger, up, countVars, historyVars>>

----------------------------------------------------------------------------
(* Environment *)

\* Days pass: a finished run grows older than the retention period.
Expire(r) ==
    /\ r \in 1..runs
    /\ r \notin expired
    /\ \A a \in Worker : thread[a].run # r
    /\ expired' = expired \cup {r}
    /\ UNCHANGED <<file, mutex, sharedVars, up, thread, countVars, mailed, deleted>>

\* A process dies. Its threads, its memory and its flocks go with it.
Crash(p) ==
    /\ p \in up
    /\ crashes < MaxCrashes
    /\ crashes' = crashes + 1
    /\ up' = up \ {p}
    /\ mutex' = [mutex EXCEPT ![p] = Free]
    /\ joblock' = [h \in Host |-> [j \in Job |->
                     IF joblock[h][j] # Free /\ ProcOf[joblock[h][j]] = p
                     THEN Free ELSE joblock[h][j]]]
    /\ running' = [running EXCEPT ![p] = {}]
    /\ trigger' = [trigger EXCEPT ![p] = [j \in Job |-> NoTrigger]]
    /\ thread' = [a \in Actor |-> IF ProcOf[a] = p THEN Idle ELSE thread[a]]
    /\ UNCHANGED <<file, used, runs, edits, historyVars>>

\* The triggers of a freshly started process: in a scheduler process,
\* init_scheduler registers every enabled job of the file.
FreshTriggers(p, jobs) ==
    [j \in Job |-> IF p \in SchedulerProc THEN Wanted(jobs[j]) ELSE NoTrigger]

init_scheduler(p) ==
    /\ p \in Proc \ up
    /\ up' = up \cup {p}
    /\ trigger' = [trigger EXCEPT ![p] = FreshTriggers(p, Load)]
    /\ UNCHANGED <<file, mutex, joblock, running, thread, countVars, historyVars>>

----------------------------------------------------------------------------
(* Specification *)

\* The system starts from a jobs file left by earlier operation, its histories
\* already pruned, with every process freshly started.
Init ==
    /\ file \in [Job -> [schedule : Schedule, enabled : BOOLEAN, runs : {{}}]
                        \cup {NoJob}]
    /\ used = {j \in Job : file[j] # NoJob}
    /\ mutex = [p \in Proc |-> Free]
    /\ joblock = [h \in Host |-> [j \in Job |-> Free]]
    /\ running = [p \in Proc |-> {}]
    /\ trigger = [p \in Proc |-> FreshTriggers(p, file)]
    /\ up = Proc
    /\ thread = [a \in Actor |-> Idle]
    /\ runs = 0 /\ crashes = 0 /\ edits = 0
    /\ mailed = {} /\ expired = {} /\ deleted = {}

AdminStep(a) ==
    \/ \E j \in Job, s \in Schedule, e \in BOOLEAN :
          create_job(a, j, s, e) \/ update_job(a, j, s, e)
    \/ \E j \in Job : delete_job(a, j)
    \/ Unregister(a)
    \/ Register(a)

\* The steps of an execution that has started.
RunStep(a) ==
    \/ TryLock(a) \/ SkipRun(a)
    \/ LoadJob(a)
    \/ \E ok \in BOOLEAN : Sweep(a, ok) \/ send_email(a, ok)
    \/ AppendOk(a) \/ AppendError(a) \/ PruneRuns(a)
    \/ Discard(a) \/ Unlock(a)

SaveStep(a) == Replace(a) \/ Truncate(a) \/ Rewrite(a) \/ SaveFails(a)

\* Nothing under way and the bounds used up: the modelled part of the day is over.
Quiescent ==
    /\ up = Proc
    /\ \A a \in Actor : At(a, "idle")
    /\ UNCHANGED vars

Next ==
    \/ \E a \in Admin : AdminStep(a)
    \/ \E a \in Worker : RunStep(a) \/ \E j \in Job : Fire(a, j) \/ run_job_now(a, j)
    \/ \E a \in Actor : SaveStep(a)
    \/ \E r \in Run : Expire(r)
    \/ \E p \in Proc : Crash(p) \/ init_scheduler(p)
    \/ Quiescent

Spec == Init /\ [][Next]_vars

\* Threads that have started keep running: sweeps and SMTP calls have timeouts,
\* and _lock is only ever held for one load and one save.
FairSpec ==
    /\ Spec
    /\ \A a \in Actor : WF_vars(SaveStep(a))
    /\ \A a \in Worker : WF_vars(RunStep(a))

----------------------------------------------------------------------------
(* Properties *)

TypeOK ==
    /\ file \in Jobs \cup {Torn}
    /\ mutex \in [Proc -> Actor \cup {Free}]
    /\ joblock \in [Host -> [Job -> Actor \cup {Free}]]
    /\ running \in [Proc -> SUBSET Job]
    /\ trigger \in [Proc -> [Job -> Schedule \cup {NoTrigger}]]
    /\ up \subseteq Proc
    /\ thread \in [Actor -> Thread]
    /\ used \subseteq Job
    /\ runs \in 0..MaxRuns
    /\ crashes \in Nat /\ edits \in Nat
    /\ mailed \subseteq Run /\ expired \subseteq Run /\ deleted \subseteq Job

\* Worker a is executing job j: it is past the flock and has not released it.
Executing(a, j) ==
    thread[a].job = j /\ thread[a].pc \in Body \cup Saving

\* Two threads of one host, of the same process or not, never execute the same job
\* at once (the "already running in another worker" check of _execute_job).
OneRunPerHost ==
    \A a, b \in Worker, j \in Job :
        Executing(a, j) /\ Executing(b, j) /\ HostOf[ProcOf[a]] = HostOf[ProcOf[b]]
            => a = b

\* _running_jobs is what its comment says, the jobs currently executing in this
\* process: a run is shown from its start until it is about to drop its flock, and
\* no job is shown that nothing executes.
RunningFlagExact ==
    /\ \A a \in Worker, j \in Job :
          Executing(a, j) /\ ~At(a, "unlock") => j \in running[ProcOf[a]]
    /\ \A p \in Proc : \A j \in running[p] :
          \E a \in Worker : ProcOf[a] = p /\ Executing(a, j)

\* A history shows status "ok" only for a run whose report was handed to the mail
\* server, whatever failed, crashed or was retried since.
OkRecordMeansMailed ==
    file # Torn =>
        \A j \in Job : file[j] # NoJob =>
            \A r \in file[j].runs : r.status = "ok" => r.run \in mailed

\* What a save may take out of the jobs file: jobs that an admin deleted and run
\* records past the retention period, and nothing that somebody else just wrote.
\* Nor does it bring a deleted job back.
Keeps(old, new) ==
    \A j \in Job :
        IF old[j] = NoJob THEN new[j] = NoJob \/ j \notin deleted
        ELSE \/ new[j] = NoJob /\ j \in deleted
             \/ /\ new[j] # NoJob
                /\ \A r \in old[j].runs : r \in new[j].runs \/ r.run \in expired

\* With a single process (RUN_SCHEDULERS=inline) and a file that can be renamed over,
\* edits, run records and pruning by several threads lose nothing of each other's.
NothingLost == [][Keeps(file, file')]_file

\* In a scheduler process the registered triggers are those the jobs file asks for,
\* except for a job whose edit is saved and about to be registered. Holds for one
\* request at a time in one process.
TriggersFollowFile ==
    \A p \in up \cap SchedulerProc, j \in Job :
        \/ trigger[p][j] = Wanted(Load[j])
        \/ \E a \in Admin : thread[a].job = j /\ thread[a].pc \in {"unregister", "register"}

\* "Enabled - uncheck to pause the job without deleting it" (the help page): once no
\* edit is under way, a job that is disabled in the file has no trigger anywhere.
PausedJobsDoNotFire ==
    (\A a \in Admin : At(a, "idle")) =>
        \A p \in up, j \in Job :
            Load[j] # NoJob /\ ~Load[j].enabled => trigger[p][j] = NoTrigger

\* Every flock is given back: no path through _execute_job, its early returns and
\* failures included, keeps a job locked out for ever.
RunsEnd ==
    \A h \in Host, j \in Job : joblock[h][j] # Free ~> joblock[h][j] = Free

=============================================================================
