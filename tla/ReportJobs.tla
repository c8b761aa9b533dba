----------------------------- MODULE ReportJobs -----------------------------
(***************************************************************************)
(* The other scheduled jobs: rule hygiene, NAT and rule policy reports,    *)
(* device reviews and backups.  A run takes the job's file lock, loads the *)
(* job, collects its data, delivers the report in one or more mails and    *)
(* stores a record of how it went in the job's history.  The three reports *)
(* store the record in a finally block before they clear the running flag; *)
(* reviews and backups store it inside the try block and once more, as an  *)
(* error, when something there raises.                                     *)
(***************************************************************************)
EXTENDS Naturals, Sequences

CONSTANTS
    HygieneJobs, NatJobs, PolicyJobs, ReviewJobs, BackupJobs,  \* the jobs of each scheduler
    MaxParts,                               \* bound: mails of one report
    MaxRuns                                 \* bound: records of one job

ASSUME ReportAssumption ==
    /\ MaxParts \in Nat \ {0} /\ MaxRuns \in Nat
    /\ HygieneJobs \cap (NatJobs \cup PolicyJobs \cup ReviewJobs \cup BackupJobs) = {}
    /\ NatJobs \cap (PolicyJobs \cup ReviewJobs \cup BackupJobs) = {}
    /\ PolicyJobs \cap (ReviewJobs \cup BackupJobs) = {}
    /\ ReviewJobs \cap BackupJobs = {}

ReportJob == HygieneJobs \cup NatJobs \cup PolicyJobs    \* jobs whose record is stored in a finally block
Job    == ReportJob \cup ReviewJobs \cup BackupJobs

VARIABLES
    job,       \* the job file: "absent", "on" or "off"
    stage,     \* where the job's thread stands
    status,    \* record["status"]
    told,      \* record["emails_sent"], or 1 for a delivered review or backup
    parts,     \* mails the report needs
    running,   \* _running_jobs
    locked,    \* jobs whose file lock is held
    runs,      \* the job's history in the file, newest first
    rollup,    \* the device review rollup file: jobs whose run it holds
    read,      \* what a review read of the rollup file
    sent,      \* history: mails that left during the current run
    recorded,  \* history: records stored for the current run
    broken     \* history: jobs whose current run met a failing save or a restart

reportVars == <<job, stage, status, told, parts, running, locked, runs, rollup, read,
                sent, recorded, broken>>
history == <<job, rollup, read, sent, recorded, broken>>

RunRecord == [status : {"ok", "error"}, told : 0..MaxParts, sent : 0..MaxParts, parts : 0..MaxParts]
RunStages == {"idle", "load", "collect", "rollup", "store", "mail", "raised", "append",
              "prune", "clear"}

ReportTypeOK ==
    /\ job \in [Job -> {"absent", "on", "off"}]
    /\ stage \in [Job -> RunStages]
    /\ status \in [Job -> {"ok", "error"}]
    /\ told \in [Job -> 0..MaxParts]
    /\ parts \in [Job -> 0..MaxParts]
    /\ running \subseteq Job
    /\ locked \subseteq Job
    /\ runs \in [Job -> Seq(RunRecord)]
    /\ rollup \subseteq ReviewJobs
    /\ read \in [ReviewJobs -> SUBSET ReviewJobs]
    /\ sent \in [Job -> 0..MaxParts]
    /\ recorded \in [Job -> 0..2]
    /\ broken \subseteq Job

ReportInit ==
    /\ job \in [Job -> {"on", "off"}]
    /\ stage = [j \in Job |-> "idle"]
    /\ status = [j \in Job |-> "error"]
    /\ told = [j \in Job |-> 0]
    /\ parts = [j \in Job |-> 0]
    /\ running = {}
    /\ locked = {}
    /\ runs = [j \in Job |-> << >>]
    /\ rollup = {}
    /\ read = [j \in ReviewJobs |-> {}]
    /\ sent = [j \in Job |-> 0]
    /\ recorded = [j \in Job |-> 1]
    /\ broken = {}

Enter(j, s) == stage' = [stage EXCEPT ![j] = s]

-----------------------------------------------------------------------------
(* The job file                                                            *)

update_job(j) ==
    /\ job[j] # "absent"
    /\ job' = [job EXCEPT ![j] = IF @ = "on" THEN "off" ELSE "on"]
    /\ UNCHANGED <<stage, status, told, parts, running, locked, runs, rollup, read,
                   sent, recorded, broken>>

delete_job(j) ==
    /\ job[j] # "absent"
    /\ job' = [job EXCEPT ![j] = "absent"]
    /\ runs' = [runs EXCEPT ![j] = << >>]
    /\ UNCHANGED <<stage, status, told, parts, running, locked, rollup, read,
                   sent, recorded, broken>>

-----------------------------------------------------------------------------
(* _execute_job                                                            *)

(* A trigger fires or somebody asks for a run.  A run that finds the lock  *)
(* taken is skipped.                                                       *)
_execute_job(j) ==
    /\ stage[j] = "idle"
    /\ j \notin locked
    /\ Len(runs[j]) < MaxRuns
    /\ locked' = locked \cup {j}
    /\ running' = running \cup {j}
    /\ status' = [status EXCEPT ![j] = "error"]
    /\ told' = [told EXCEPT ![j] = 0]
    /\ parts' = [parts EXCEPT ![j] = 0]
    /\ sent' = [sent EXCEPT ![j] = 0]
    /\ recorded' = [recorded EXCEPT ![j] = 0]
    /\ broken' = broken \ {j}
    /\ Enter(j, "load")
    /\ UNCHANGED <<job, runs, rollup, read>>

(* Mutant of Load: a run with nothing to do skips the finally block's      *)
(* record.                                                                 *)
LoadUnrecorded(j) ==
    /\ stage[j] = "load"
    /\ Enter(j, IF job[j] = "absent" \/ (j \in PolicyJobs /\ job[j] = "off")
                THEN "clear" ELSE "collect")
    /\ UNCHANGED <<history, status, told, parts, running, locked, runs>>

(* A missing job ends the run, and so does a disabled one of rule policy;  *)
(* the finally block of a report still stores the initial record.          *)
Load(j) ==
    /\ stage[j] = "load"
    /\ Enter(j, IF job[j] = "absent" \/ (j \in PolicyJobs /\ job[j] = "off")
                THEN IF j \in ReportJob THEN "append" ELSE "clear"
                ELSE "collect")
    /\ UNCHANGED <<history, status, told, parts, running, locked, runs>>

Collected(j, n, st, next) ==
    /\ parts' = [parts EXCEPT ![j] = n]
    /\ status' = [status EXCEPT ![j] = st]
    /\ Enter(j, next)
    /\ UNCHANGED <<told, sent>>

CollectRaises(j) == Enter(j, "raised") /\ UNCHANGED <<parts, status, told, sent>>

Collecting(j) ==
    /\ stage[j] = "collect"
    /\ UNCHANGED <<job, rollup, read, recorded, broken, running, locked, runs>>

(* The reports of rule hygiene and rule policy are marked ok as soon as    *)
(* they are collected, and go out in batches.                              *)
CollectHygiene(j) ==
    /\ j \in HygieneJobs
    /\ Collecting(j)
    /\ \/ \E n \in 1..MaxParts : Collected(j, n, "ok", "mail")
       \/ CollectRaises(j)

CollectPolicy(j) ==
    /\ j \in PolicyJobs
    /\ Collecting(j)
    /\ \/ \E n \in 1..MaxParts : Collected(j, n, "ok", "mail")
       \/ CollectRaises(j)

(* NAT: raises too when FortiManager returned no package.                  *)
CollectNat(j) ==
    /\ j \in NatJobs
    /\ Collecting(j)
    /\ Collected(j, 1, "error", "mail") \/ CollectRaises(j)

CollectReview(j) ==
    /\ j \in ReviewJobs
    /\ Collecting(j)
    /\ Collected(j, 1, "error", "rollup") \/ CollectRaises(j)

(* A backup delivers by writing its archive; the transfer that may follow  *)
(* fails without a consequence for the record's status.                    *)
CollectBackup(j) ==
    /\ j \in BackupJobs
    /\ Collecting(j)
    /\ \/ /\ parts' = [parts EXCEPT ![j] = 1]
          /\ sent' = [sent EXCEPT ![j] = 1]
          /\ told' = [told EXCEPT ![j] = 1]
          /\ status' = [status EXCEPT ![j] = "ok"]
          /\ Enter(j, "append")
       \/ CollectRaises(j)

(* A review appends to the rollup file, without a lock, before it mails.   *)
ReadRollup(j) ==
    /\ stage[j] = "rollup"
    /\ read' = [read EXCEPT ![j] = rollup]
    /\ Enter(j, "store")
    /\ UNCHANGED <<job, status, told, parts, running, locked, runs, rollup, sent, recorded, broken>>

StoreRollup(j) ==
    /\ stage[j] = "store"
    /\ \/ rollup' = read[j] \cup {j} /\ Enter(j, "mail")
       \/ Enter(j, "raised") /\ UNCHANGED rollup
    /\ UNCHANGED <<job, read, status, told, parts, running, locked, runs, sent, recorded, broken>>

Mailing(j) ==
    /\ stage[j] = "mail"
    /\ UNCHANGED <<job, rollup, read, parts, running, locked, runs, recorded, broken>>

MailFails(j) == Enter(j, "raised") /\ UNCHANGED <<sent, told, status>>

(* One mail of a batch.  emails_sent is set once all of them are out.      *)
MailBatch(j) ==
    /\ j \in HygieneJobs \cup PolicyJobs
    /\ Mailing(j)
    /\ \/ /\ sent' = [sent EXCEPT ![j] = @ + 1]
          /\ IF sent[j] + 1 = parts[j]
             THEN told' = [told EXCEPT ![j] = parts[j]] /\ Enter(j, "append")
             ELSE UNCHANGED <<told, stage>>
          /\ UNCHANGED status
       \/ MailFails(j)

(* The only mail of a NAT report or a device review, ok once it is out.    *)
MailOnce(j) ==
    /\ j \in NatJobs \cup ReviewJobs
    /\ Mailing(j)
    /\ \/ /\ sent' = [sent EXCEPT ![j] = 1]
          /\ told' = [told EXCEPT ![j] = 1]
          /\ status' = [status EXCEPT ![j] = "ok"]
          /\ Enter(j, "append")
       \/ MailFails(j)

Stored(j) == [status |-> status[j], told |-> told[j], sent |-> sent[j], parts |-> parts[j]]

(* _append_run: a save that succeeds stores the record if the job is still *)
(* there.                                                                  *)
_append_run(j) ==
    IF job[j] = "absent"
    THEN UNCHANGED <<runs, recorded>>
    ELSE /\ runs' = [runs EXCEPT ![j] = <<Stored(j)>> \o @]
         /\ recorded' = [recorded EXCEPT ![j] = @ + 1]

(* Mutant of Raised: the handler forgets to set the status back.           *)
RaisedStillOk(j) ==
    /\ stage[j] = "raised"
    /\ IF j \in ReportJob
       THEN /\ Enter(j, "append")
            /\ UNCHANGED <<runs, recorded, broken, status>>
       ELSE /\ status' = [status EXCEPT ![j] = "error"]
            /\ \/ _append_run(j) /\ UNCHANGED broken
               \/ broken' = broken \cup {j} /\ UNCHANGED <<runs, recorded>>
            /\ Enter(j, "clear")
    /\ UNCHANGED <<job, rollup, read, told, parts, running, locked, sent>>

(* The except block.  A report goes on to its finally block; a review or a *)
(* backup stores an error record here.                                     *)
Raised(j) ==
    /\ stage[j] = "raised"
    /\ status' = [status EXCEPT ![j] = "error"]
    /\ IF j \in ReportJob
       THEN /\ Enter(j, "append")
            /\ UNCHANGED <<runs, recorded, broken>>
       ELSE /\ \/ /\ IF job[j] = "absent"
                     THEN UNCHANGED <<runs, recorded>>
                     ELSE /\ runs' = [runs EXCEPT ![j] = <<[Stored(j) EXCEPT !.status = "error"]>> \o @]
                          /\ recorded' = [recorded EXCEPT ![j] = @ + 1]
                  /\ UNCHANGED broken
               \/ broken' = broken \cup {j} /\ UNCHANGED <<runs, recorded>>
            /\ Enter(j, "clear")
    /\ UNCHANGED <<job, rollup, read, told, parts, running, locked, sent>>

(* A save that fails ends a report's thread in the middle of its finally   *)
(* block: the running flag stays, and the lock goes with the file object.  *)
(* In a review or a backup it raises inside the try block.                 *)
SaveFails(j) ==
    /\ broken' = broken \cup {j}
    /\ IF j \in ReportJob
       THEN Enter(j, "idle") /\ locked' = locked \ {j}
       ELSE Enter(j, "raised") /\ UNCHANGED locked
    /\ UNCHANGED <<runs, recorded>>

Append_run(j) ==
    /\ stage[j] = "append"
    /\ \/ _append_run(j) /\ Enter(j, "prune") /\ UNCHANGED <<broken, locked>>
       \/ SaveFails(j)
    /\ UNCHANGED <<job, rollup, read, status, told, parts, running, sent>>

(* Records older than the retention time, the last ones, are dropped.      *)
_prune_runs(j) ==
    /\ stage[j] = "prune"
    /\ \/ /\ IF runs[j] = << >> THEN UNCHANGED runs
             ELSE \E n \in 1..Len(runs[j]) : runs' = [runs EXCEPT ![j] = SubSeq(@, 1, n)]
          /\ Enter(j, "clear")
          /\ UNCHANGED <<broken, locked, recorded>>
       \/ SaveFails(j)
    /\ UNCHANGED <<job, rollup, read, status, told, parts, running, sent>>

(* The end of the finally block.                                           *)
Clear(j) ==
    /\ stage[j] = "clear"
    /\ running' = running \ {j}
    /\ locked' = locked \ {j}
    /\ Enter(j, "idle")
    /\ UNCHANGED <<history, status, told, parts, runs>>

(* The process restarts: threads, flags and locks are gone.                *)
RestartProcess ==
    /\ \E j \in Job : stage[j] # "idle"
    /\ broken' = broken \cup {j \in Job : stage[j] # "idle"}
    /\ stage' = [j \in Job |-> "idle"]
    /\ running' = {}
    /\ locked' = {}
    /\ UNCHANGED <<job, rollup, read, sent, recorded, status, told, parts, runs>>

-----------------------------------------------------------------------------

RunStep(j) ==
    \/ _execute_job(j)
    \/ Load(j)
    \/ CollectHygiene(j) \/ CollectPolicy(j) \/ CollectNat(j) \/ CollectReview(j) \/ CollectBackup(j)
    \/ MailBatch(j) \/ MailOnce(j)
    \/ Append_run(j)
    \/ _prune_runs(j)
    \/ Raised(j)
    \/ Clear(j)

ReportNext ==
    \/ \E j \in Job : RunStep(j) \/ update_job(j) \/ delete_job(j)
    \/ \E j \in ReviewJobs : ReadRollup(j) \/ StoreRollup(j)
    \/ RestartProcess

ReportSpec == ReportInit /\ [][ReportNext]_reportVars

-----------------------------------------------------------------------------
(* Properties                                                              *)

(* A record that says ok stands for a report all of whose mails left, and  *)
(* its emails_sent is their number, although two of the schedulers mark    *)
(* the record ok before the first mail.                                    *)
OkRecordsDelivered ==
    \A j \in Job : \A i \in DOMAIN runs[j] :
        runs[j][i].status = "ok" =>
            runs[j][i].sent = runs[j][i].parts /\ runs[j][i].told = runs[j][i].parts

(* A run that met no failing save leaves exactly one record in the history *)
(* of a job that still exists, whichever step raised.  The except blocks   *)
(* of reviews and backups cannot tell a report that failed from a record   *)
(* that was stored already; only a failing save makes the difference.      *)
OneRecordPerRun ==
    \A j \in Job :
        stage[j] = "idle" /\ j \notin broken /\ job[j] # "absent" => recorded[j] = 1

(* A job that is shown as running has a thread at work, or a failing save  *)
(* ended the report's finally block half way.                              *)
RunningFlagFollows ==
    \A j \in running : stage[j] # "idle" \/ (j \in ReportJob /\ j \in broken)
=============================================================================
