----------------------------- MODULE FleetCaches -----------------------------
(***************************************************************************)
(* The other background caches of the process that runs the schedulers.    *)
(* Each has a sweep of its own over the ADOMs of FortiManager, started on  *)
(* a schedule and by users, and differs in what one failing call costs and *)
(* in how it keeps two sweeps apart:                                       *)
(*                                                                         *)
(*   pending   pending_status_cache   replaces ADOM by ADOM, atomic claim  *)
(*   license   license_status_cache   a file, flag tested and set later    *)
(*   backup    device_backup_cache    a file, flag tested and set later    *)
(*   change    change_control_cache   a row, flag tested and set later     *)
(*   map       map_cache              memory and row, flag, a retry        *)
(*   summary   summary_job            memory and row, flag, a retry        *)
(*   adoms     adom_cache             memory and row, nothing              *)
(*                                                                         *)
(* A device is abstracted to the version of what FortiManager knows of it. *)
(* The answers about one ADOM are read in one step.                        *)
(***************************************************************************)
EXTENDS Naturals, FiniteSets, FiniteSetsExt

CONSTANTS
    CacheThread, CacheOf,    \* threads, and the cache a thread sweeps for
    StartupThread,           \* the threads that init_scheduler starts for map and summary
    AdomName,                \* ADOMs whose name does not start with "forti"
    Box, BoxesOf,            \* devices, and the devices each ADOM lists
    NamedAfter,              \* devices whose name is, or begins with, a device's name and a dash
    Located,                 \* pairs of an ADOM and a device it gives coordinates for
    Reachable,               \* devices with conn_status 1
    RootVdom, MgtVdom,       \* devices that answer under root, under their management VDOM
    Payload, Today,          \* license answer of a device at a version
    RevisionAge,             \* age in days of its last revision, NoRevision if none
    NoRevision, NoEntry, NobodyHolds,
    MaxFleetVersion, MaxFleetFaults    \* bounds: versions of a device; failures and restarts

CacheKind == {"pending", "license", "backup", "change", "map", "summary", "adoms"}

ASSUME FleetAssumption ==
    /\ CacheOf \in [CacheThread -> CacheKind]
    /\ BoxesOf \in [AdomName -> SUBSET Box]
    /\ MaxFleetVersion \in Nat

OneCall   == {"change", "adoms"}
Kept      == {"map", "summary", "adoms"}        \* in memory, with a status
Filed     == {"license", "backup", "change"}    \* in a file or a row only
StaleDays == 7

VARIABLES
    device,    \* FortiManager: version of each device
    value,     \* what each cache serves from memory or from its file
    health,    \* the status of those that have one
    saved,     \* rows of the collector's database
    flag,      \* the _running events that are set
    at,        \* program point, ADOMs left and answers of the threads
    mapLock,   \* the thread that sleeps with map_cache._lock held
    retried,   \* the startup threads that have begun their second run
    faults     \* failures so far

fleetVars == <<device, value, health, saved, flag, at, mapLock, retried, faults>>

Rest(pc) == [pc |-> pc, todo |-> {}, got |-> <<>>]

FleetInit ==
    /\ device = [b \in Box |-> 1]
    /\ value = [k \in CacheKind |-> IF k = "pending" THEN [a \in AdomName |-> NoEntry] ELSE NoEntry]
    /\ health = [k \in Kept \cup {"pending"} |-> "pending"]
    /\ saved = [k \in Kept \cup {"pending"} |-> NoEntry]
    /\ flag = {}
    /\ at = [t \in CacheThread |-> Rest("idle")]
    /\ mapLock = NobodyHolds
    /\ retried = {}
    /\ faults = 0

AtPoint(t, pc) == at[t].pc = pc
Goto(t, pc)    == at' = [at EXCEPT ![t] = Rest(pc)]
Fault(f)       == IF f = "none" THEN UNCHANGED faults
                  ELSE faults < MaxFleetFaults /\ faults' = faults + 1

(* with _lock, which the startup thread of map_cache may be holding.       *)
LockFree(k) == k = "map" => mapLock = NobodyHolds

-----------------------------------------------------------------------------
(* What is read about one ADOM.  f says which call fails: the list of its  *)
(* devices, the call about one device, or the second call about the ADOM.  *)

Failures(k, a) ==
    {"none", "devices"} \cup (IF k \in {"license", "pending"} THEN BoxesOf[a] ELSE {})
                        \cup (IF k \in {"backup", "summary"} THEN {"second"} ELSE {})

(* A package status that cannot be fetched is "".                          *)
PendingOf(a, f) ==
    [b \in BoxesOf[a] |-> [version |-> device[b], pkg |-> IF b = f THEN 0 ELSE device[b]]]

parse_license_payload(raw) ==
    CASE raw = NoEntry -> "unknown"
      [] raw # NoEntry /\ raw.status \in {"licensed", "expires_soon"} /\ raw.expires > 0 ->
            IF raw.expires > Today THEN "licensed" ELSE "expired"
      [] OTHER -> "unregistered"

(* A device whose management VDOM is not root gives an empty answer under  *)
(* the default one and is asked again.                                     *)
_fetch_one(b, f) ==
    LET raw    == IF b # f /\ b \in RootVdom \cup MgtVdom THEN Payload[b][device[b]] ELSE NoEntry
        parsed == parse_license_payload(raw)
    IN  IF parsed = "unknown" /\ b \notin Reachable THEN "offline" ELSE parsed

(* The devices of an ADOM whose list fails are left out.                   *)
LicensesOf(a, f) == IF f = "devices" THEN <<>> ELSE [b \in BoxesOf[a] |-> _fetch_one(b, f)]

RevisionsOf(a, f) ==
    [devices   |-> IF f = "devices" THEN {} ELSE BoxesOf[a],
     revisions |-> IF f = "second" THEN <<>>
                   ELSE [b \in {c \in BoxesOf[a] : RevisionAge[c][device[c]] # NoRevision} |->
                            RevisionAge[b][device[b]]]]

(* A device that has a place keeps it; another ADOM that lists it adds its *)
(* VDOMs.                                                                  *)
PlacedBy(placed, a, f) ==
    LET listed == IF f = "devices" THEN {} ELSE BoxesOf[a]
        new    == {b \in listed : <<a, b>> \in Located} \ DOMAIN placed
    IN  [b \in DOMAIN placed \cup new |->
           IF b \in new THEN [adom |-> a, vdoms |-> {a}, online |-> b \in Reachable]
           ELSE [placed[b] EXCEPT !.vdoms = IF b \in listed THEN @ \cup {a} ELSE @]]

(* Policies are counted in ADOMs that have devices.                        *)
CountsOf(a, f) ==
    LET firewalls == IF f = "devices" THEN 0 ELSE Cardinality(BoxesOf[a])
    IN  [fw_count |-> firewalls,
         rule_count |-> IF firewalls = 0 \/ f = "second" THEN 0
                        ELSE MapThenSumSet(LAMBDA b : device[b], BoxesOf[a])]

With(got, a, answer) == [x \in DOMAIN got \cup {a} |-> IF x = a THEN answer ELSE got[x]]

WithAnswer(k, got, a, f) ==
    CASE k = "map"     -> PlacedBy(got, a, f)
      [] k = "license" -> With(got, a, LicensesOf(a, f))
      [] k = "backup"  -> With(got, a, RevisionsOf(a, f))
      [] k = "summary" -> With(got, a, CountsOf(a, f))
      [] k = "pending" -> With(<<>>, a, PendingOf(a, f))

-----------------------------------------------------------------------------
(* What is served                                                          *)

LicenseRecord(got) ==
    LET rows(S) == {r \in AdomName \X Box : r[2] \in DOMAIN got[r[1]] /\ got[r[1]][r[2]] \in S}
        other   == {"unknown", "offline", "unregistered"}
    IN  [devices_licensed |-> Cardinality(rows({"licensed"})),
         devices_expired  |-> Cardinality(rows({"expired"})),
         devices_unknown  |-> Cardinality(rows(other)),
         details          |-> rows({"expired"} \cup other),
         all_devices      |-> got]

(* A revision belongs to every device whose name and a dash begin its name.*)
BackupRecord(got) ==
    LET ages(a, b) == {got[a].revisions[c] : c \in NamedAfter[b] \cap DOMAIN got[a].revisions}
        rows  == {r \in AdomName \X Box : r[2] \in got[r[1]].devices}
        never == {r \in rows : ages(r[1], r[2]) = {}}
        ok    == {r \in rows \ never : Min(ages(r[1], r[2])) <= StaleDays}
    IN  [devices_backup_ok |-> ok, devices_backup_never |-> never,
         devices_backup_stale_7d |-> rows \ (ok \cup never)]

SummaryRecord(got) ==
    [firewalls_total |-> MapThenSumSet(LAMBDA a : got[a].fw_count, AdomName),
     rules_total     |-> MapThenSumSet(LAMBDA a : got[a].rule_count, AdomName),
     adom_breakdown  |-> [a \in {x \in AdomName : got[x].fw_count > 0} |-> got[a]]]

(* Every version of a device stands for one change in the audit log.       *)
aggregate_audit_log == MapThenSumSet(LAMBDA b : device[b], Box)

RecordOf(k, got) ==
    CASE k = "license" -> LicenseRecord(got)
      [] k = "backup"  -> BackupRecord(got)
      [] k = "summary" -> SummaryRecord(got)
      [] OTHER         -> got

-----------------------------------------------------------------------------
(* A sweep                                                                 *)

(* The thread of the start looks at the outcome of its first run.         *)
AfterRun(t) ==
    CASE t \notin StartupThread -> "idle"
      [] t \in StartupThread \ retried -> "started"
      [] OTHER -> IF mapLock = t THEN "release" ELSE "done"

(* The schedule, the start of the process, or a user: refresh_now.         *)
StartSweep(t) ==
    LET k == CacheOf[t] IN
    /\ AtPoint(t, "idle")
    /\ Goto(t, CASE k = "pending" -> "claim" [] k = "adoms" -> "adoms" [] OTHER -> "test")
    /\ UNCHANGED <<device, value, health, saved, flag, mapLock, retried, faults>>

(* Mutant of _run_refresh: the status is not looked at.                    *)
_run_refresh_always(t) ==
    /\ AtPoint(t, "claim")
    /\ health' = [health EXCEPT !["pending"] = "running"]
    /\ Goto(t, "adoms")
    /\ UNCHANGED <<device, value, saved, flag, mapLock, retried, faults>>

(* pending: the status is tested and set under one lock.                   *)
_run_refresh(t) ==
    /\ AtPoint(t, "claim")
    /\ IF health["pending"] = "running"
       THEN Goto(t, "idle") /\ UNCHANGED health
       ELSE Goto(t, "adoms") /\ health' = [health EXCEPT !["pending"] = "running"]
    /\ UNCHANGED <<device, value, saved, flag, mapLock, retried, faults>>

(* The others test the flag, and set it later.                             *)
TestFlag(t) ==
    /\ AtPoint(t, "test")
    /\ Goto(t, IF CacheOf[t] \in flag THEN AfterRun(t) ELSE "set")
    /\ UNCHANGED <<device, value, health, saved, flag, mapLock, retried, faults>>

SetFlag(t) ==
    /\ AtPoint(t, "set")
    /\ flag' = flag \cup {CacheOf[t]}
    /\ Goto(t, IF CacheOf[t] \in Kept THEN "mark" ELSE "adoms")
    /\ UNCHANGED <<device, value, health, saved, mapLock, retried, faults>>

MarkStarted(t) ==
    LET k == CacheOf[t] IN
    /\ AtPoint(t, "mark")
    /\ LockFree(k)
    /\ health' = [health EXCEPT ![k] = "running"]
    /\ Goto(t, "adoms")
    /\ UNCHANGED <<device, value, saved, flag, mapLock, retried, faults>>

(* The connection and the list of ADOMs, or the only call of the sweep.    *)
GetAdoms(t, ok) ==
    LET k == CacheOf[t] IN
    /\ AtPoint(t, "adoms")
    /\ LockFree(k)
    /\ Fault(IF ok THEN "none" ELSE "adoms")
    /\ at' = [at EXCEPT ![t] =
          [pc   |-> IF ~ok THEN "error" ELSE IF k \in OneCall THEN "publish" ELSE "read",
           todo |-> IF ok /\ k \notin OneCall THEN AdomName ELSE {},
           got  |-> IF ~ok \/ k \notin OneCall THEN <<>>
                    ELSE IF k = "change" THEN aggregate_audit_log ELSE AdomName]]
    /\ UNCHANGED <<device, value, health, saved, flag, mapLock, retried>>

(* One ADOM.  pending leaves its entry as it is when its devices cannot be *)
(* listed, and otherwise replaces it in a step of its own.                 *)
ReadAdom(t, a, f) ==
    LET k    == CacheOf[t]
        todo == at[t].todo \ {a}
        skip == k = "pending" /\ f = "devices"
    IN  /\ AtPoint(t, "read")
        /\ a \in at[t].todo
        /\ f \in Failures(k, a)
        /\ LockFree(k)
        /\ Fault(f)
        /\ at' = [at EXCEPT ![t] =
              [pc   |-> IF k = "pending" /\ ~skip THEN "entry" ELSE IF todo = {} THEN "publish" ELSE "read",
               todo |-> todo,
               got  |-> IF skip THEN <<>> ELSE WithAnswer(k, at[t].got, a, f)]]
        /\ UNCHANGED <<device, value, health, saved, flag, mapLock, retried>>

StoreEntry(t) ==
    /\ AtPoint(t, "entry")
    /\ value' = [value EXCEPT !["pending"] =
                    [a \in AdomName |-> IF a \in DOMAIN at[t].got THEN at[t].got[a] ELSE @[a]]]
    /\ at' = [at EXCEPT ![t] =
          [pc |-> IF @.todo = {} THEN "publish" ELSE "read", todo |-> @.todo, got |-> <<>>]]
    /\ UNCHANGED <<device, health, saved, flag, mapLock, retried, faults>>

(* The result replaces the one before: in memory, or in the file, which    *)
(* may not be writable.                                                    *)
PublishSweep(t, ok) ==
    LET k == CacheOf[t] IN
    /\ AtPoint(t, "publish")
    /\ LockFree(k)
    /\ ok \/ k \in Filed
    /\ Fault(IF ok THEN "none" ELSE "save")
    /\ value' = IF k = "pending" \/ ~ok THEN value ELSE [value EXCEPT ![k] = RecordOf(k, at[t].got)]
    /\ health' = IF k \in DOMAIN health THEN [health EXCEPT ![k] = "ok"] ELSE health
    /\ at' = [at EXCEPT ![t] = IF ok THEN [Rest("row") EXCEPT !.got = RecordOf(k, at[t].got)]
                               ELSE Rest("error")]
    /\ UNCHANGED <<device, saved, flag, mapLock, retried>>

(* A row that cannot be written is only logged.                            *)
SaveSnapshot(t, ok) ==
    LET k   == CacheOf[t]
        row == IF k = "pending" THEN [status |-> "ok", adoms_cached |-> Cardinality(AdomName)]
               ELSE at[t].got
    IN  /\ AtPoint(t, "row")
        /\ Fault(IF ok \/ k \notin DOMAIN saved THEN "none" ELSE "row")
        /\ saved' = IF ok /\ k \in DOMAIN saved THEN [saved EXCEPT ![k] = row] ELSE saved
        /\ Goto(t, "clear")
        /\ UNCHANGED <<device, value, health, flag, mapLock, retried>>

(* The result of the last sweep that ended well stays.                     *)
FailCache(t) ==
    LET k == CacheOf[t] IN
    /\ AtPoint(t, "error")
    /\ LockFree(k)
    /\ health' = IF k \in DOMAIN health THEN [health EXCEPT ![k] = "error"] ELSE health
    /\ saved' = IF k # "pending" THEN saved
                ELSE [saved EXCEPT ![k] = [status |-> "error",
                        adoms_cached |-> Cardinality({a \in AdomName : value[k][a] # NoEntry})]]
    /\ Goto(t, "clear")
    /\ UNCHANGED <<device, value, flag, mapLock, retried, faults>>

(* Mutant of ClearFlag: the flag stays.                                    *)
ClearFlagNot(t) ==
    /\ AtPoint(t, "clear")
    /\ Goto(t, "idle")
    /\ UNCHANGED <<device, value, health, saved, flag, mapLock, retried, faults>>

(* finally: the flag is cleared, whoever set it.                           *)
ClearFlag(t) ==
    /\ AtPoint(t, "clear")
    /\ flag' = flag \ {CacheOf[t]}
    /\ Goto(t, AfterRun(t))
    /\ UNCHANGED <<device, value, health, saved, mapLock, retried, faults>>

-----------------------------------------------------------------------------
(* The start: one retry after 15 seconds                                   *)

(* map_cache sleeps and runs again inside the with block in which it looks *)
(* at the status.  The lock is not reentrant.                              *)
_startup(t) ==
    /\ AtPoint(t, "started")
    /\ LockFree("map")
    /\ IF health["map"] = "ok"
       THEN Goto(t, "done") /\ UNCHANGED <<mapLock, retried>>
       ELSE Goto(t, "test") /\ mapLock' = t /\ retried' = retried \cup {t}
    /\ UNCHANGED <<device, value, health, saved, flag, faults>>

ReleaseMapLock(t) ==
    /\ AtPoint(t, "release")
    /\ mapLock' = NobodyHolds
    /\ Goto(t, "done")
    /\ UNCHANGED <<device, value, health, saved, flag, retried, faults>>

(* summary_job has left the with block when it sleeps.                     *)
_summary_startup(t) ==
    /\ AtPoint(t, "started")
    /\ IF health["summary"] = "ok"
       THEN Goto(t, "done") /\ UNCHANGED retried
       ELSE Goto(t, "test") /\ retried' = retried \cup {t}
    /\ UNCHANGED <<device, value, health, saved, flag, mapLock, faults>>

-----------------------------------------------------------------------------
(* The surroundings                                                        *)

ChangeBox(b) ==
    /\ device[b] < MaxFleetVersion
    /\ device' = [device EXCEPT ![b] = @ + 1]
    /\ UNCHANGED <<value, health, saved, flag, at, mapLock, retried, faults>>

(* The files and the database stay.                                        *)
RestartCaches ==
    /\ Fault("restart")
    /\ value' = [k \in CacheKind |->
                    CASE k \in Kept -> NoEntry
                      [] k = "pending" -> [a \in AdomName |-> NoEntry]
                      [] OTHER -> value[k]]
    /\ health' = [k \in DOMAIN health |-> "pending"]
    /\ flag' = {}
    /\ at' = [t \in CacheThread |-> Rest("idle")]
    /\ mapLock' = NobodyHolds
    /\ retried' = {}
    /\ UNCHANGED <<device, saved>>

RunStepOf(t) ==
    \/ _run_refresh(t) \/ TestFlag(t) \/ SetFlag(t) \/ MarkStarted(t)
    \/ \E ok \in BOOLEAN : GetAdoms(t, ok) \/ PublishSweep(t, ok) \/ SaveSnapshot(t, ok)
    \/ \E a \in AdomName : \E f \in Failures(CacheOf[t], a) : ReadAdom(t, a, f)
    \/ StoreEntry(t) \/ FailCache(t) \/ ClearFlag(t)
    \/ CacheOf[t] = "map" /\ _startup(t)
    \/ CacheOf[t] = "summary" /\ _summary_startup(t)
    \/ ReleaseMapLock(t)

FleetNext ==
    \/ \E t \in CacheThread : StartSweep(t) \/ RunStepOf(t)
    \/ \E b \in Box : ChangeBox(b)
    \/ RestartCaches

FleetSpec == FleetInit /\ [][FleetNext]_fleetVars

(* What a process that has not begun a sweep of its own serves instead.    *)
get_cached_or_row(k) ==
    IF health[k] = "pending" /\ saved[k] # NoEntry THEN saved[k] ELSE value[k]

-----------------------------------------------------------------------------
(* Properties                                                              *)

(* What a sweep without failures collects now.                             *)
Current(k) ==
    CASE k = "change"  -> aggregate_audit_log
      [] k = "adoms"   -> AdomName
      [] k = "pending" -> [a \in AdomName |-> PendingOf(a, "none")]
      [] k = "license" -> LicenseRecord([a \in AdomName |-> LicensesOf(a, "none")])
      [] k = "backup"  -> BackupRecord([a \in AdomName |-> RevisionsOf(a, "none")])
      [] k = "summary" -> SummaryRecord([a \in AdomName |-> CountsOf(a, "none")])

(* However calls fail, sweeps overlap and the process restarts: once       *)
(* FortiManager answers and stops changing, every cache but the map comes  *)
(* to serve its current state, and goes on doing so.                       *)
FleetConverges == \A k \in CacheKind \ {"map"} : <>[](value[k] = Current(k))

(* No sweep puts an older list of an ADOM's devices in the place of a      *)
(* newer one: the DIFF tab never goes back in time.                        *)
PendingNeverGoesBack ==
    [][ \A a \in AdomName :
          value["pending"][a] # NoEntry /\ value'["pending"][a] # NoEntry =>
            \A b \in BoxesOf[a] :
              value["pending"][a][b].version <= value'["pending"][a][b].version ]_fleetVars

(* "One retry after 15 s handles transient FMG connectivity at container   *)
(* startup", map_cache.py: after a failure that does not last, the map is  *)
(* there.                                                                  *)
MapRecovers == <>(health["map"] = "ok")
=============================================================================
