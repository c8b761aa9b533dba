# Formal models of 4THealth+

TLA+ models of [4THealth+](../src/README.md), a Flask dashboard for FortiManager that
runs scheduled jobs, keeps caches of slow sweeps, reviews and plans firewall rules and
emails reports. The modules model the parts of `src/app` where threads, processes, files,
crashes and failing remote calls meet, and the algorithms whose answers engineers act on.
TLC checks them on small instances, and TLAPS proves the most important of their
properties for every instance.

    tlc -workers 2 -config services.cfg MCServices      # one run of the table below
    tlapm Services_proofs.tla                           # one module of proofs

`PROJECT.json` lists the components, runs, mutants, hazards and theorems, and maps every
definition to the lines it models.

## 1. The system

### Deployment

* **inline**: one process serves the pages and runs the schedulers
  (`RUN_SCHEDULERS=inline`).
* **split** (`docker-compose.yml`): the `web` container runs gunicorn (two worker
  processes, four threads each) without schedulers, and the `collector` container
  (`python -m app.collector`) runs the schedulers. The JSON and SQLite files are
  bind mounts that both share. A bind-mounted file cannot be renamed over. `/tmp`,
  where the flock files live, is private to each container.
* **bare metal** (`docs/deployment.md`): gunicorn workers and collector on one host
  share `/tmp`, and files can be renamed over.

A lock therefore has one of three scopes: a `threading.Lock` covers the threads of one
process, a flock the processes of one host or container, and between containers
nothing excludes anything. The models make this explicit with the constants `Proc`,
`Host`, `HostOf`, `SchedulerProc` and `ProcOf`.

### Components

| Component | State | Operations | What makes it correct |
|---|---|---|---|
| Config-Delta jobs (`config_diff_scheduler.py`) | jobs file, `_lock`, `_running_jobs`, flocks, APScheduler triggers | create, update, delete, Run Now, scheduled run, run history | one run of a job at a time on a host; nobody's edit or run record lost; triggers follow the file; history tells the truth |
| Other jobs (`device_review_`, `nat_report_`, `rule_hygiene_`, `rule_policy_scheduler.py`, `backup_scheduler.py`) | the same, and the report rollups | the same | one record per run, and a true one, although each orders its record, flag and flock differently |
| Package change alerts (`package_change_alerts.py`) | rules file with the dedupe state `sent` | rule edits, evaluation after each Config-Delta sweep | no diff emailed twice, none lost; edits survive evaluations |
| Install preview (`fmg_client.py`, `pending_changes_routes.py`) | staging context of the ADOM in FortiManager, flock, task files | stage, preview, result, cancel; polling | one context at a time; a finished preview is complete; nothing stays staged |
| File writes (`atomic_io.py`) | target, temporary file | `atomic_write_text` | atomic; what returned is there |
| Version cache (`versions_cache.py`, `collector_store.py`) | `_store` and `_running` of each process, one SQLite row | sweep, refresh, read-through | true status; fresh data in the end |
| Executive summary (`executive_summary_cache.py`) | one store for two sweeps, one row each | device sweep, hygiene sweep, refresh, read-through | neither sweep blanks the other's data; the shared status settles |
| Other sweep caches (pending status, licenses, backups, change control, map, ADOMs, summary job) | a value, a flag, an error each | as the version cache | a newer value is not replaced by an older one; a failure is made up for |
| PSIRT (`psirt/`, `psirt_store.py`, `psirt_reassess_scheduler.py`, `psirt_routes.py`) | advisories, assessments | assess, close, re-assess | nothing to do is only said of what was read; closed stays closed |
| NAT report, rule policy export (`nat_report_scheduler.py`, `rule_policy_scheduler.py`) | none; the packages they read change meanwhile | collect, expand, report | every use and every rule that was there is in the report |
| Rule hygiene (`hygiene.py`, `hygiene_fix.py`, `hygiene_routes.py`) | the report of the last run | checks, fixes | what is called shadowed is never hit, as far as the checks look; fixes decide nothing otherwise |
| Device review (`device_review.py`) | cached resolutions | the checks | PASS means compliant, a finding means not |
| Group expansion, rule lookup (`hygiene.py`, `rule_lookup.py`, `planner/`) | none | expansion, search | nothing below a group is lost; a search misses nothing |
| Zone database (`zone_db.py`, `zone_routes.py`) | zones and policies, one file | edits, restore, verdicts | inheritance reaches every ancestor; ALLOWED means nothing blocks |
| Change planner, FQDN planner (`planner/`) | the last plan; packages change meanwhile | plan, implement | an implemented plan takes effect, and its warnings are true |
| Rule review (`rule_review.py`, `rule_review_routes.py`) | the last results | analyse | followed advice takes effect; the path is the one packets take |
| Users and access, FortiManager client, pages, metrics, AI narrative | little or none | I/O, formatting, access control | left to tests |

### How they interact

A Config-Delta execution previews every device of its ADOM (`bulk_preview_adom`), hands
the results to `evaluate_alerts`, mails its own report and records the run. Jobs and
alert rules are saved with `atomic_write_json`. Sweeps run in threads of the
scheduler process, or of a web worker when a user asks for a refresh, and reach the
other processes through SQLite rows. The PSIRT re-assessment reads the inventory of the
executive summary's device sweep. Reports read FortiManager page by page and object by
object while its admins work. Planners and reviews produce CLI that an engineer pastes:
the models include that step, because it is where a wrong answer shows.

### What is hard

* read-modify-write of whole files by threads of several processes;
* results used minutes after the state they belong to was read;
* executions that fail at any of a dozen points, and must give back locks and flags;
* crashes between two steps, with files, emails and flocks on different sides;
* a remote system whose errors often look like empty answers;
* triggers that live in one process and edits that arrive in another;
* overlap flags that are tested and set in two steps;
* names that resolve to nothing, to overlapping networks or to themselves, in rules whose
  order, negation, schedule and status decide what a packet meets.

`PROJECT.json` lists these as hazards, at their lines, with the properties that cover each
one or why none does.

## 2. Modules

| Module | Models | Checked by | Proofs |
|---|---|---|---|
| `ScheduledJobs` | Config-Delta jobs | `MCJobs` | `ScheduledJobs_proofs` |
| `PackageAlerts` | package change alerts | `MCAlerts` | `PackageAlerts_proofs` |
| `AtomicFile` | what a file write promises (abstract) | through `AtomicIO` | |
| `AtomicIO` | `atomic_io.py`, implements `AtomicFile` | `MCServices`, `MCAtomic` | `AtomicIO_proofs` |
| `ReportJobs` | an execution of the five other schedulers | `MCServices` | `Services_proofs` |
| `PreviewStaging` | install previews and their staging lock | `MCServices` | `PreviewStaging_proofs` |
| `Psirt` | advisories, assessments, re-assessment | `MCServices` | `Services_proofs` |
| `NatReport` | the NAT report | `MCServices` | `Services_proofs` |
| `PolicyReports` | rule policy export, live hit counts | `MCServices` | `Services_proofs` |
| `RuleHygiene` | hygiene checks and fixes | `MCServices` | `Services_proofs` |
| `DeviceReview` | the checks of a device review | `MCServices` | `Services_proofs` |
| `SweepCache` | version cache and shared row | `MCCaches` | `Caches_proofs` |
| `ExecutiveSummary` | the two sweeps of the summary | `MCCaches` | `Caches_proofs` |
| `FleetCaches` | the other sweep caches | `MCCaches` | `Caches_proofs` |
| `ObjectGroups` | the three ways groups are expanded | `MCFlows` | `ObjectGroups_proofs` |
| `RuleLookup` | search of cached rules | `MCFlows` | `Flows_proofs` |
| `ZonePolicy` | zone database and verdicts | `MCFlows` | `Flows_proofs` |
| `ChangePlanner` | a plan for one package and its implementation | `MCFlows` | `Flows_proofs` |
| `FqdnPlanner` | FQDN allowlists on several firewalls | `MCFlows` | `Flows_proofs` |
| `RuleReview` | rule validation and its advice | `MCFlows` | `Flows_proofs` |

Each module begins with its constants and their assumptions, then the state, the
actions in the order of the code, the specification and the properties. Definitions
whose comment begins with "Mutant of" are not part of the specification: each is a
deliberately wrong variant of the definition that follows it. Substituted for that
definition, it breaks the property it was written for, and so shows that the property
depends on the code being right there.

`MCFlows`, `MCServices` and `MCCaches` put several modules in one run. These do not share
state: the variable `focus`, chosen in the initial state and never changed, names the
component (in `MCServices` also the report job, in `MCCaches` the cache) whose steps a
behaviour consists of, and the others keep their initial state. Every property of the
run holds of every behaviour. Where a property speaks of the component alone, its module
states it, and where fairness is involved the MC module restricts it to the focus.

### ScheduledJobs

A job entry keeps its schedule, `enabled` and its run history, a set of records with
a run number and a status. A thread has a program point for each place in the code
where another thread can come between: the wait for the flock, the load, the sweep,
the mail, the record, the retention, the two steps of `finally`, and inside a
`with _lock` block the save. `LoadModify` is the load and the change under `_lock`,
`Replace` a save by rename, `Truncate` and `Rewrite` the two halves of a save in
place, `SaveFails` one that raises; `ok` and `err` say where the thread goes then.
`_load` turns an unreadable file (`Torn`) into no jobs. `Crash` kills a process
with its threads, memory and flocks; `init_scheduler` starts it again and registers
the enabled jobs. The sweep may fail; its results go to the alerts, whose errors the
code swallows and whose model is separate. APScheduler's own limit of one instance
per job is left out, so that the flock is checked without its help.

### PackageAlerts

The state is the rules file, the change pending on each device, and the evaluations
under way, each with the results, the rules, the targets and the dedupe state it is
working on. A diff is what `diff_hash` can tell apart: which device has which policy
change. The steps are those of `evaluate_alerts` and `_evaluate_rule`: the load of
the enabled rules, the lookup of packages and groups, for each rule the comparison,
one step per email, and the save that reloads the file. Failures are those of the
code: unreadable devices, packages not found, groups not listed, the members of a
group returned empty, reports, emails and saves. Admins edit rules at any time, and
`Stage` changes what is pending. `asked`, `delivered` and `told` are history variables.

### AtomicIO and AtomicFile

`AtomicIO` has the file system calls of `atomic_write_text`, on inodes: a name refers
to an inode, and an open file keeps its inode whatever becomes of its name. A crash or
an error can come at every call. `AtomicFile` is the promise: a write is called,
takes effect in one step, and returns, or has no effect. The refinement mapping takes
the content of the target's inode for the abstract file, and `idle`, `done` and any
other program point for the three abstract phases.

### ReportJobs and the reports

`ReportJobs` follows one execution through claim, load, collection, each of its mails,
record, retention and release. A step that raises leads to the handler of its scheduler:
the three reports store their record in a `finally` block, reviews and backups inside
the `try` and again in the `except`. A save may fail at each of them. Retention, edits and
deletions of the job and restarts interleave. `ReadRollup` and `StoreRollup` are the
unlocked read and write of the review history.

What is in the reports is the subject of two modules. `NatReport` collects VIPs and
pools, the groups, and the rules of each package page by page, with admins adding,
deleting and moving rules and changing groups in between; `steady` records which uses
held all the time and `shifted` the packages whose pages moved. `PolicyReports` makes
the export of one package, its catalogs of nested groups and its live hit counts, and
the hygiene report on rules that were never hit.

### PreviewStaging

A preview asks for the package of each VDOM of its device (`VdomsOf`, `PackageOf`). A call
that fails here is an empty answer, of which nothing is told: `pkg_vdoms` has the VDOMs
whose package was learnt, and the preview goes on with these. It waits for the lock of its
ADOM (a flock per container, with a deadline), stages each package for the VDOMs that have
it (`ScopeOf`), polls, generates, polls, fetches and cancels; every call may be refused, and
a process may die. FortiManager keeps one context per ADOM, and a staging replaces it.
Task files are written, read, evicted and read again by the page.

### Psirt

An assessment is computed from an advisory, what FortiManager answers (its version, the
ADOMs, the devices of each, any of which may fail) and two web sites. A user's request
computes first and saves later; one for several ADOMs is merged from a result per ADOM.
The re-assessment copies the open advisories and the device sweep's inventory, and then
assesses and saves one after the other. `missed` is a history field: something of the
scope was not read.

### SweepCache, ExecutiveSummary, FleetCaches

`SweepCache` has per process a store and the `_running` flag, which is tested and set in
separate steps as in the code; the sweep ADOM by ADOM, the publication under `_lock`, the
write of the shared row, the `except` and `finally` branches; changes in FortiManager,
restarts, user refreshes and failures at any time. `ExecutiveSummary` has two kinds of
sweep over one store: each marks the status, publishes its part under the lock and builds
the snapshot from what the store has afterwards. `FleetCaches` is one model of seven
sweeps, with the flag, order, ADOM handling and start-up of each; a device is a version
number, and what a cache serves is the version it saw.

### RuleHygiene, DeviceReview

`RuleHygiene` has packages of rules with names for addresses that denote networks or
nothing known; a run reports, fixes are applied to the package as it is by then, and admins
edit it in between. The reference is the first rule that a packet matches: a packet comes on
an interface, from a user, while some schedules are active, and a rule has interfaces, users,
a schedule and sides that may be negated. `_covers` and the two scope checks look at names,
networks, users and actions, as the code does, and at nothing else of this. `InView` are the
packets that their comparison can mean: on the interfaces and during the schedule of the rule
above, with neither rule negated.
`DeviceReview` draws a check, the settings of a device (read or unread), expected values and
resolutions, runs it, and compares the verdict with what compliance means.

### ObjectGroups, RuleLookup, ZonePolicy

`ObjectGroups` has one action, an admin who edits a group, and compares the three
expansions of every resulting tree, cycles included, with reachability. `RuleLookup` draws
rules and searches them. `ZonePolicy` has requests that load the database, change it and
save it without a lock, so that two can overlap, and compares verdicts with what the
policies of all ancestors say.

### ChangePlanner, FqdnPlanner, RuleReview

A package is a sequence of rules as FortiManager has it. What a packet meets is defined on
the firewall: on the addresses (`AddrMeans`) and pairs of ports and source ports
(`SvcMeans`) that names stand for there, on its schedules and on its interfaces, by the most
specific of its subnets and routes (`InterfaceOf`). The planner has a `snapshot` of what
`fetch_device_snapshot` returned for its plan: `Complete`, or one in which calls failed. The
device may be missing, which ends the plan; a package that could not be fetched degrades it;
packages that could not be listed, lost interfaces, routes, addresses, groups or services
look like empty lists and change nothing else (`fmg_client.py:1100`, `1439`,
`planner/fetch.py:96`). Even `Complete` knows less than the firewall: the networks of a group
are those of its resolvable members, and of a service the source ports are cut off.

An engineer asks for a plan, an admin may edit the package before it is
implemented, and `Implement` does what the CLI of the plan does. `FqdnPlanner` does so for
firewalls that share the objects of an ADOM, so that the implementation of one plan is
seen by the others. `RuleReview` analyses a flow against the packages of several ADOMs,
whose objects it merges by name, and the engineer adds the service or pastes the rule. The
interfaces and the routes of a firewall are two calls, and each that fails leaves its
`Table` empty (`DataRead`); a port 0 makes a service any service, as in the code.

## 3. Runs

| Run | Instance | Shows |
|---|---|---|
| `jobs_inline` | 1 process, 1 admin, 2 workers, 2 jobs, 2 runs, 2 edits, 1 crash | `OkRecordMeansMailed`, `TriggersFollowFile`, `NothingLost` hold |
| `jobs_shared` | 2 gunicorn workers on one host, in-place writes, 2 runs, 1 edit, 1 crash | `OneRunPerHost`, `RunningFlagExact` and `RunsEnd` hold |
| `jobs_paused` | a web worker and the collector | `PausedJobsDoNotFire` is **violated** |
| `alerts` | 1 rule, 2 packages, 2 devices, 1 group, 3 failures | `NeverEmailedTwice` holds when group members can be read and saves succeed |
| `alerts_faults` | 1 rule, 1 package on a device and a group, a crash, a failure of any kind | `SentWasDelivered`, `EditsPreserved` and `EventuallyTold` hold |
| `alerts_rearm` | as `alerts`, the member lookup may fail | `NeverEmailedTwice` is **violated** |
| `atomic_processes` | 2 processes, no common lock | `ReadersSeeWholeText` is **violated** |
| `caches` | versions: collector with 2 sweeping threads and a web worker; summary: 2 device sweeps and a hygiene sweep; fleet: 1 device in 2 ADOMs, scheduler, user and start-up threads; a change, a failure, a restart | `RunningMeansSweeping`, `StatusSettles`, `ServedDataStays`, `SweepsConverge`, `PendingNeverGoesBack`, `CachesConverge` hold |
| `map_retry` | the same | `RetryRecovers` is **violated** |
| `flows` | 3 groups with up to 2 members, cycles included; 5 rules to search; 3 zones, 2 policies; packages of 2 rules out of 10 shapes, 9 snapshots: all read, or one call of the fetch lost; 3 FQDNs on 2 firewalls; 2 packages of 2 ADOMs under review, any of the tables of their firewalls lost | the eleven properties of the flow modules hold |
| `services` | packages of 3 rules for hygiene, with a schedule, a second interface, users and a negated side; every check with its settings; 2 previews of one ADOM, 4 VDOMs, any lookup lost; 5 jobs, 2 mails, 2 records; 1 advisory, 2 ADOMs, 2 devices, a restricted user; 2 writers; 2 NAT packages, 1 edit while the report is made; 1 package on 2 devices, 2 changes | the thirteen properties of the service modules hold |
| `zone_block_only` | the zones of `flows`, two "block only" policies on different services | `BlockOnlyBinds` is **violated** |

### What the properties say

Flows:

* `ExpansionsAreRight`: what an expansion calls resolved is all of the group, and every
  object below a group is found through cycles and shared subgroups.
* `LookupIsRight`: an exact, containing or overlapping match is one of the address sets,
  and no rule that could carry the traffic is missing, negated ones apart, which are listed.
* `InheritedPoliciesApply`, `AllowedMeansNoBlock`: policies of every ancestor count, and a
  consolidated ALLOWED has no blocking policy between any two addresses it speaks of.
* `CoverageIsReal`, `PlanTakesEffect`, `ShadowWarningsTrue`, `AlternativeExact`: what is
  said to be covered is accepted by a rule that the plan names and that is always on, a new
  rule permits the request where it is put and shadows what it is said to shadow, and the
  alternative changes only the rules it names. They hold whichever of the tables, objects
  and groups were lost when the plan was made; a new rule needs the rules to have been read.
  They are limited in three ways, where the code falls short of more, and each limit has a
  deviation below. They speak of the packets on the
  interfaces that the plan names (`OnInterfaces`), and of any where it resolved none
  (`OnResolved`). A rule that is to cover may not have source ports nor exclude a group of
  which only a part is known (`CoversAsRead`), and a rule that is to be seen, a deny before
  the new rule or one that is shadowed, may not name such a group (`SeenInFull`). And the
  blast radius is that of the groups and packages that were read (`ReadForBlast`). Names
  that are unknown altogether, negation, schedules, disabled rules and rules of other
  interfaces are not excluded anywhere.
* `ImplementedPlansCover`: after the plans of an FQDN request are implemented, in any order,
  a new search finds everything covered.
* `PathIsForwarding`, `AdviceTakesEffect`: a firewall is reported in the path exactly if it
  would forward between two interfaces, if the table that was lost, or none, has no way that
  the other lacks (`NothingMissing`), and followed advice lets the flow through.

Services:

* `ShadowedNeverHit`, `FixesKeepDecisions`: no packet in the view of the finding (`InView`)
  reaches a rule reported as shadowed, and disabling what a run reported, one rule after the
  other, changes no decision on the packets in the view of its findings, whatever schedules
  and negated sides the other rules have.
* `VerdictsAreRight`: PASS means compliant, a finding means not, cached resolutions included.
* `DiffComplete`, `StagingEndsClean`: a finished preview shows the pending changes of every
  VDOM whose package it learnt, unless FortiManager refused the package, and no context stays
  behind.
* `OkRecordsDelivered`, `OneRecordPerRun`: an ok record stands for delivered mails, and a run
  without a failing save leaves exactly one record.
* `InformationalIsSafe`, `ClosedStaysClosed`: nothing to do is only said of a scope that was
  read, and no assessment that was under way reopens an advisory.
* `UsesAreReported`, `ReportsSayWhatIsThere`: what held from the beginning of a report to its
  end is in it, although admins work and traffic flows meanwhile.
* `ReturnedWriteIsThere`, `WritesAreAtomic`: a write that returned took effect, and
  `AtomicIO` implements `AtomicFile`.

Jobs, alerts and caches: `OneRunPerHost`, `RunningFlagExact` and `RunsEnd` are mutual
exclusion, exactness of the displayed state and termination of the Config-Delta runs;
`NothingLost` says that only a deletion removes a job, an edit or a record and that a save
never brings a deleted job back; `OkRecordMeansMailed` and `TriggersFollowFile` tie the
history to the mail and the scheduler to the file. `NeverEmailedTwice`,
`SentWasDelivered`, `EditsPreserved` and `EventuallyTold` are the promises of the alerts.
`RunningMeansSweeping`, `StatusSettles`, `ServedDataStays`, `PendingNeverGoesBack`,
`SweepsConverge` and `CachesConverge` say that the caches show a true status, never lose or
age what they serve where the code excludes it, and serve the current state in the end.

### Bounds

* Two workers are enough for every race in `ScheduledJobs` between an execution and
  its competitor; the admin is the third party. Two runs let a second execution
  start after, or during, the first one's failure. Two edits allow one job to be
  created and deleted, or edited after its creation. One crash, which can come at
  every step, is followed by a restart from the file.
* Two packages with a common device let one be clean, one changed and one unreadable
  in the same sweep, in any combination; three failures reach every pair of failure and
  retry. The evaluations are unlimited in number.
* In `AtomicIO` nothing is bounded but the number of inodes: four are more than two names
  and two open files can use.
* Sweeps overlap with one ADOM as with many; the ADOM by ADOM failure needs two, which the
  fleet and the assessments have. Three sweeping threads let the first end clear a flag for
  the third.
* Two rules have an order and an effect on each other, and the planner inserts a third. It
  has one plan at a time, as another one is as if it were the first. In the instance each
  plan loses at most one kind of answer of its fetch; the proofs have any combination, of
  which `SnapshotAssumption` only says that what was read was there.
* The rules of the planner's packages include a group with a member that has no networks, a
  service with source ports, and one without a range; hygiene has three rules at a time, since a fix may act on what another finding rested on. The shapes
  of the rules are chosen for what the code distinguishes: wildcards, groups of
  groups, names without networks, negation, schedules, disabled rules.
* Three addresses and three ports suffice for disjoint, nested and overlapping sets. Two
  members for each of three groups give every cycle, and a shared and a diamond subgroup.
* The report modules read two devices or packages, so that one can fail and the other not;
  one edit at any point is enough for rows that move between two pages of two rules.
* Symmetry is used for workers and jobs, groups and inodes, in runs whose properties do not
  name them and that check no liveness under it.

`CHECK_DEADLOCK FALSE` stands where the instance may stop: when its bounded edits, failures
or requests are used up.

### Fairness

* `ScheduledJobs`: a thread that has started keeps going (`WF` of its steps), since
  sweeps and SMTP calls have timeouts and `_lock` covers one load and one save.
  Nothing makes an admin, a trigger or a crash happen.
* `PackageAlerts`: each Config-Delta job is run again by its schedule, and an evaluation
  under way goes on. No fairness on rule edits or on what is staged.
* `SweepCache`, `FleetCaches`: a triggered sweep goes on, the interval trigger keeps firing,
  and a start-up thread starts; user refreshes need not happen, and failures end because
  they are bounded.
* The other modules have no liveness property and no fairness.

### Disagreements found

* **A paused job keeps firing in the split deployment** (`jobs_paused`). `update_job` and
  `delete_job` touch APScheduler only in a process that has one
  (`config_diff_scheduler.py:123`), which the process that serves the request is not,
  and `_execute_job` does not look at `enabled`. The help page says that unchecking
  *Enabled* pauses the job. (`rule_policy_scheduler.py` does check it.)
* **A failed group lookup re-arms an alert** (`alerts_rearm`). `get_device_group_members`
  returns an empty list on an error, the package then has no target left that could be
  unreadable or have a diff, and its dedupe entry is dropped. `docs/features.md:202`
  promises that a failed lookup leaves the state untouched.
* **Two processes share the temporary file** (`atomic_processes`). On bare metal, where
  rename works, a gunicorn worker can rename the temporary file while another one has
  just truncated it.
* **The map's start-up retry waits for itself** (`map_retry`). `_startup` in
  `map_cache.py:232` runs the sweep again inside `with _lock`, which the sweep takes to
  publish: after a failed first sweep the lock is held for ever, and with it every reader
  of the map. `summary_job.py` leaves the lock first.
* **The second "block only" policy is dropped** (`zone_block_only`). Policies are
  deduplicated without their services (`zone_db.py:194`): of two denylists of one set
  between the same zones only the first counts.

### Smaller deviations

These were met while modelling, and have a definition in their module but no run, or
only limit what a property says:

* `get_cached` of the versions and of the ADOMs falls back to the shared row only while the
  status is `pending`; the docstrings say until a sweep has completed.
* A re-assessment without findings that is degraded is saved (`psirt_reassess_scheduler.py:135`,
  `Psirt!DegradedIsNotSaved`), although its docstring says that saving is skipped. A
  re-assessment is always degraded, because the inventory has no FortiManager version.
* `_run_log_severity` passes a coarser setting than expected (`DeviceReview!SeverityCaptured`).
  List checks may pass on settings that could not be read, and resolutions are never refreshed.
* The unused object check marks a nested group as visited before its turn to be expanded
  comes, so that what is used only through a group of groups is listed as unused
  (`_expand_group_members`, `hygiene.py:875`; `ObjectGroups!UsedThroughGroups`).
* The scope checks of the hygiene look at no schedule, no interface and no negated side
  (`hygiene.py:354`, `404`). A rule below one that is limited by a schedule, applies to
  other interfaces or excludes addresses is reported as "will never be hit because an
  earlier rule already matches every connection that could reach them" (`hygiene.py:310`),
  and is hit by the packets the rule above leaves
  (`RuleHygiene!ShadowedNeverHitAtAll`). Disabling it, or one reported as redundant, then
  changes what the firewall does. Narrowing a shadowing rule does not always end the
  shadowing (`RuleHygiene!NarrowEndsShadow`).
* `get_package_info` and `get_device_vdoms` answer an error with nothing
  (`fmg_client.py:1063`, `992`): a finished preview then lists a VDOM whose package it never
  learnt with no pending changes (`PreviewStaging!EveryVdomIsAsked`).
* "already covered" does not look at denies before the covering rule
  (`ChangePlanner!CoveredMeansPermitted`), and a new rule may have fewer ports than were
  asked for (`NewRuleCoversFlow`).
* When the addresses of one side of a request are behind different interfaces, the planner
  resolves none, and `_intf_scoped` then lets every rule count: a request is called covered
  by a rule that only applies to one of them (`ChangePlanner!CoveredOnItsInterfaces`),
  although `planner/engine.py:277` says that coverage is only judged against rules of the
  flow's interfaces.
* A failed lookup of the connected subnets or of the routing table is an empty list, and does
  not degrade the plan: `planner/fetch.py:102` says that it does not affect coverage analysis.
  The planner then resolves an address through what is left, a default route for example, to
  another interface (`ChangePlanner!InterfacesAreRight`), although `resolve_interfaces` calls
  an interface it cannot resolve "never a silent guess". Coverage is judged on the rules of
  that interface, and the new rule is bound to it.
* A package list that fails is empty as well: the plan is a new rule at the end of a package
  that it has not read, is not degraded, and may have no effect
  (`ChangePlanner!UndegradedTakesEffect`), and the blast radius of a group misses rules
  (`BlastRadiusIsWhole`).
* A service is read without its source ports (`planner/matching.py:292`), and a group counts
  as known as soon as one of its members is (`matching.py:377`, `ObjectGroups!UnknownResolvesToNone`):
  a rule for some source ports, or one that excludes a group with an FQDN among its members,
  is called fully covering (`ChangePlanner!CoveredAsWritten`), and a deny of such a group is
  not seen where the new rule is put.
* The alternative appends to a group of one side of a rule. If that group is excluded on the
  other, negated side, it changes what the rule matches there as well; `RulesApart` excludes
  such rules.
* A new FQDN rule is appended and may sit behind a deny. With missing data it may ask for all
  services, and what it sets may replace an object or a group of the same name
  (`FqdnPlanner!OnlyRequestedServices`, `CoverageIsKept`).
* The rule review merges the objects of all selected ADOMs by name, cuts port ranges to 100
  ports, pastes the rule for an explicitly denied flow at the end, and calls a flow permitted
  without looking at denies before the rule (`RuleReview!AdomsAreApart`,
  `PastedRuleTakesEffect`, `PermittedIsPermitted`). Its matching ignores negation, so
  `AdviceTakesEffect` speaks of packages whose enabled rules are read right (`ReadRight`).
  Of two routes to the same network it takes the first, so `PathIsForwarding` leaves equal
  cost paths out (`ConnectedFirst`). Interfaces and routes are lost separately
  (`fmg_client.py:1480`, `1512`), and "unknown" is only said when both are empty: with the
  routes alone lost, a firewall that forwards the flow is reported as not in the path
  (`RuleReview!ForwardingIsSeen`).
  `rr_analyze` turns a package that cannot be read into one without rules.
* The NAT report lists objects as unused when the groups or a package could not be read, and
  misses a rule when another is deleted between two pages. Hygiene calls a rule never hit
  when devices do not answer or are beyond the first ten; the export overwrites the count of
  one device by that of the next (`rule_policy_scheduler.py:541`).
* Revisions are matched to devices by the prefix of their names, so that `fw` takes those of
  `fw-1` (`device_backup_cache.py`); a failed ADOM list drops its devices from the licenses.
* Previews: running tasks are evicted with the finished ones (`pending_changes_routes.py:67`),
  and two containers do not exclude one another.
* A save that fails in a `finally` block of a report scheduler keeps the running flag.

## 4. Proofs

| Theorem | For every | Inductive invariant and argument |
|---|---|---|
| `ScheduledJobs_proofs!TypeCorrect`, `FlocksHeld`, `MutualExclusion` | processes, hosts, threads, jobs, deployment, bounds | `LockInv`: types, and every thread past the job lock is the holder of its job's flock on its host. Exclusion then follows because a flock has one holder |
| `ScheduledJobs_proofs!OneLockHolder` | the same | `MutexInv`: a thread inside a `with _lock` block is the holder of the lock of its process, and knows where it returns to |
| `ScheduledJobs_proofs!OkMeansMailed` | the same | `MailInv`: also the copies of the jobs that threads are about to save, and the runs about to be recorded as ok, were mailed |
| `ScheduledJobs_proofs!RunningFlags` | the same | `RunningInv`: between the marking and the last step of a run its job is in the set, and nothing else is |
| `ScheduledJobs_proofs!NothingIsLost` | jobs, threads, edits; one process whose file can be renamed over (`OneProcess`) | `KeepInv`: while a copy waits to be saved, nobody else saves, so that it keeps what is in the file |
| `ScheduledJobs_proofs!TriggersAreRight` | the same, with one edit at a time (`OneAdmin`) | `TriggerInv`: triggers, file and the copies that wait to be saved agree, except on the job of an edit that will register it |
| `PackageAlerts_proofs!TypeCorrect`, `OnlyDeliveredIsRemembered`, `EditsSurvive` | rules, packages, groups, concurrent evaluations, failures, crashes | `AlertInv`: the dedupe state in the file, and both copies an evaluation holds of it (the rules it loaded, the state it builds), are backed by deliveries |
| `PackageAlerts_proofs!EmailedOnce` | rules, packages, groups, failing previews, listings, reports and emails; one evaluation at a time, readable group members, saves that succeed, no crash (`Reliable`) | `OnceInv`: a diff that was told and is still pending is remembered by the file, the snapshot of an evaluation or the state it builds |
| `AtomicIO_proofs!TypeCorrect`, `WritesTakeEffect`, `NoTornReads` | writers, texts, inodes, if writers share a lock | `FileInv`: one writer at a time, the temporary file is not the target, and the writer finds in it what it put there |
| `AtomicIO_proofs!Refinement` | the same | each step is a step of `AtomicFile` or leaves the mapped state alone; `Replace` is `Commit` |
| `Services_proofs!ReportTypeCorrect`, `RunsAreRecordedOnce`, `RecordsTellTheTruth`, `FlagFollowsThread` | jobs of the five kinds, mails, records | `ReportIInv`: what a thread has delivered and recorded so far is a function of its stage and of the status it would record |
| `Caches_proofs!SweepTypeCorrect`, `StatusIsTrue` | processes, threads, ADOMs, bounds | a running status has a sweeping thread of the same process behind it, at every stage at which it can be overwritten |
| `Caches_proofs!SummaryTypeCorrect`, `ServedDataIsKept`, `SharedStatusIsTrue` | sweeps of both kinds, ADOMs, devices | what a sweep is about to publish keeps the other's part, and a shared running status has a fetching sweep |
| `Caches_proofs!PendingOnlyAdvances` | ADOMs, devices, threads, failures, restarts | `PendingIInv`: one refresh is at work at a time, what it has read was there, and what is served is no newer than that |
| `PreviewStaging_proofs!PreviewTypeCorrect`, `StagingIsCleaned`, `DiffsAreComplete` | previews, ADOMs, containers, packages, VDOMs, lost lookups | `PreviewIInv`: a context belongs to a holder of the lock (`StagingIInv`), it is the holder's own (`ContextsAreOwn`), and the diff so far lacks, of the VDOMs whose package was learnt, only those of packages that are still to do or were refused (`Progress`) |
| `Services_proofs!NothingToDoIsTrue` | fleets, advisories, users, failing reads | `PsirtIInv`: the priority of a pending request is the conclusion from its findings, and it is degraded if something was missed; merging and saving keep this |
| `Services_proofs!ClosedIsFinal` | the same | `RowsHaveClosed` gives the rows their shape; a save copies `closed` from the row that is there, whatever it was computed from |
| `Services_proofs!ShadowedIsNeverHit`, `DisablingIsSafe` | packages, names, interfaces, schedules, users, negated sides, edits | `PackageIInv`: the rules of a package have different numbers. Coverage of each dimension by an earlier rule, unknown names included, covers every packet in view (`PairHides`); a first match survives the removal of rules that are never first |
| `Services_proofs!UsesAreFound` | packages, groups, edits, pages; groups no deeper than the code follows them (`ShallowGroups`) | `NatIInv`: a steady use of a package that did not shift is on a page already read or is still to come. A chain of groups is followed level by level (`ChainIsInLevels`) |
| `Services_proofs!ReportsAreTrue` | names, groups, rules, scopes, edits, hits, failing calls; groups no deeper than the code follows them (`ShallowNest`) | `ReportsIInv`: the catalogs are right about the groups that nobody edited since, the counts of a device lie between what it had counted when the report began and what it has counted now. `ExpansionsExist`: the equation of the recursive expansion has a solution, as each call is in one group more; `ExpansionIsBelow`: it finds all and only what chains of groups lead to, by induction along a chain and on the length a chain can still grow |
| `Services_proofs!VerdictsAreTrue` | settings, expected values, hosts and what they resolve to, unread blobs | `DeviceIInv`: what is cached of a host, and what it resolves to, has been answered at some time. One lemma for each check relates its verdict to what compliance means; versions compare as tuples (`VersionsCompare`) |
| `ObjectGroups_proofs!GroupsTypeCorrect`, `ExpansionsHold` | objects, groups, cycles, names that are gone, orders of the groups | `GroupsIInv`: the lists are finite and bounded, so that every call of an expansion leaves less work (`Work`) to the calls it makes. Then the recursive equations have solutions (`Recursion`), and what a call returns is shown by induction on its work: for the walks, that what is still to find is below what is on the stack (`WalkGoesOn`); for the planner's recursion, that it has seen all that is below its names (`Resolves`); for the hygiene checks, that the memo is right whenever it is read (`RightMemo`), which needs that a name met again on the path is a cycle (`OnPath`) and that a cycle makes one of the members opaque (`OpaqueGroup`) |
| `Flows_proofs!InheritedApply`, `AllowedIsUnblocked` | zone hierarchies, with cycles and missing parents, policies, concurrent edits | `ZoneIInv`: the database and every copy an edit works on are databases. The walk to the ancestors visits every ancestor (`AncestorsAreAbove`), by a minimal counterexample on the length of the walk |
| `Flows_proofs!CoverageHolds`, `PlannedRulesWork`, `ShadowsAreTrue` | rules, objects, requests, interfaces, routes, every combination of lost answers | `PlannerIInv`: rule numbers are unique, what a plan names is there, and a fresh plan is the one computed from the package as it is and from its snapshot. Then each dimension of `evaluate` and of the insertion is related to the packets it stands for; before the new rule are rules of other interfaces, rules that do not hit the packet, and rules that accept it |
| `Flows_proofs!AlternativesAreExact` | the same, rules that do not exclude on one side a group they have on the other (`RulesApart`); the second half for groups and packages that were read | the groups a name lies in are exactly those that change, and a rule without them does not |
| `Flows_proofs!LookupsAreRight` | address and port spaces, rules, objects, searches | `LookupIInv`: what is searched and what values resolve to are blocks and ranges. A block inside a union of blocks is inside one of the largest in it (`LargestAbove`), so comparing with the collapsed networks is comparing addresses; a row's place is the number of rows that score better or come before it, so places differ |
| `Flows_proofs!ImplementedCover` | firewalls that share objects, packages and their scopes, requests, faults, edits | `FqdnIInv`: every plan has, for each name of the request, an object it writes, or one that is there and that no plan of the request writes (`PlanReaches`), and from the first implementation on the group has them (`GroupReaches`). The search for a free name ends with one (`FreeNameIsFree`, by the pigeonhole principle) and what is in a group is found below it (`MembersAreBelow`) |
| `Flows_proofs!PathsAreForwarding`, `AdviceWorks` | routing tables, lost ones, packages, flows, edits, unreadable packages | `ReviewIInv`: a result is the analysis of its package, or of an empty one. Blocks are nested or disjoint (`WaysAreBlocks`), so the longest prefix that contains a network is the egress of its addresses |

None of the properties is inductive by itself. `OneRunPerHost` says nothing of who
holds a flock, so nothing would keep a second thread out after a crash in the first
one's process: the holder must be tied to the thread (`HoldsFlock`). `SentWasDelivered`
says nothing of the copies an evaluation will save later, and `OkRecordMeansMailed` and
`TriggersFollowFile` nothing of the copy of the jobs that a thread holds between its load
and its save. `ReadersSeeWholeText` needs the content of the temporary file at the moment
of the rename. `DiffComplete` only speaks of finished previews, and the loss of a context
happens long before. `InformationalIsSafe` needs the degraded mark of every part that is
merged. The properties of plans speak of a plan and of the package it will meet: that the
plan still is the one for this package is `FreshPlan`. `ImplementedPlansCover` speaks of
firewalls whose plan is implemented, and what implementing one of them does to the objects
of another follows from what all plans of the request write.

The assumptions are the named ones of the modules: topology and bounds, well-formed
scopes, distinct sentinels, the types of rules and objects; in `FqdnPlanner` that addresses
and groups share a namespace, as they do in FortiManager, so that a request's group is no
address object, and that the package installed on a firewall has it in its scope; in
`PolicyReports` that no name is used for two groups or for a group and an object; in
`ChangePlanner` that what a snapshot has was there when it was read, and that a network read
for a name is part of what the name stands for (`SnapshotAssumption`); in `RuleHygiene` that
the resolver is right about the names it has networks for (`ResolverSound`); in
`AtomicIO` that all writers share a lock (`Exclusive`). Six theorems have a hypothesis in their statement, without
which they are false, as the models show:

* `OneProcess`: with two, edits and run records overwrite each other (see the hazards);
* `OneAdmin`: two simultaneous edits may register their triggers in the other order;
* `Reliable`: this is what `alerts_rearm` shows;
* `ShallowGroups`, `ShallowNest`: the code stops at a fixed depth;
* `RulesApart`: see the deviations above. `MCFlows` assumes it of its rules, so that TLC
  evaluates it there.

In `DiffsAreComplete` the previews of an ADOM run in one container (`OneContainer`). The
proofs are made of one lemma for each action, and one step for each conjunct that the
action can disturb. Where a definition is recursive, what it computes is proved from its
equation, by a counterexample of minimal length (`WFMin`), level by level along a chain, or
by induction on the work that a call has left.

Every safety property that a passing run checks is also proved. Only model-checked:

* the liveness properties (`RunsEnd`, `EventuallyTold`, `SweepsConverge`, `CachesConverge`):
  TLAPS does not prove liveness under fairness.

## 5. What is not modelled

* Users, sessions, tokens and access control (`auth.py`, `groups.py`, `decorators.py`,
  `api_tokens.py`, `security.py`): outside the scope of this project. That the accounts are
  rewritten without a lock is in the list of hazards.
* The FortiManager client's JSON-RPC and decoding: the models have what its calls return,
  errors and empty answers included.
* The content of emails, attachments, pages and workbooks, CLI text, and the AI narrative.
* Append-only metrics, settings, logs, the infrastructure health and rule caches on disk,
  naming standards and tables of models and regions.
* `ScheduledJobs` has no failure between truncating and rewriting the jobs file, other
  than a crash: `AtomicIO` has it. It also takes a rename to be atomic, which between
  processes on bare metal it is not (`atomic_processes`). Triggers and the locking of the
  jobs file of the other schedulers are those of `ScheduledJobs` and are not repeated.
* `PackageAlerts` has one ADOM and no run records, which have no effect on what is
  sent, and keeps a rule's recipients and format out of the state.
* `ChangePlanner` and `RuleReview` have one address family, and protocols only as ports.
* The components that `PROJECT.json` lists as `not_modelled`.
