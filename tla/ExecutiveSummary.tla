-------------------------- MODULE ExecutiveSummary --------------------------
(***************************************************************************)
(* The executive summary.  In the process that runs the schedulers a       *)
(* device sweep and a hygiene sweep, each on its own cadence and each      *)
(* possibly started by a user as well, write their own fields of one       *)
(* store, a shared status, and a row of the collector's database that the  *)
(* web workers serve.                                                      *)
(***************************************************************************)
EXTENDS Naturals, FiniteSets

CONSTANTS
    DeviceSweeper, HygieneSweeper,  \* threads that run either sweep
    FleetAdom,                      \* ADOMs whose name does not start with "forti"
    Firewall,                       \* devices
    HomeAdom,                       \* the ADOM of a device
    Connected,                      \* the devices FortiManager is connected to
    Pendings,                       \* pending_status_cache: devices with changes, NoData if not ok
    NoData                          \* None: nothing collected

ASSUME SummaryAssumption ==
    /\ DeviceSweeper \cap HygieneSweeper = {}
    /\ HomeAdom \in [Firewall -> FleetAdom]
    /\ Connected \subseteq Firewall
    /\ Pendings \subseteq Firewall \/ Pendings = NoData
    /\ IsFiniteSet(Firewall)

SummarySweeper == DeviceSweeper \cup HygieneSweeper
SweepKind      == {"device", "hygiene"}
KindOf(t)      == IF t \in DeviceSweeper THEN "device" ELSE "hygiene"

VARIABLES
    summary,    \* _store
    claimed,    \* _device_running and _hygiene_running
    sweep,      \* program point, ADOMs left and findings of the threads
    snapshot    \* the rows in the collector's database

summaryVars == <<summary, claimed, sweep, snapshot>>

NoSummary ==
    [device |-> NoData, hygiene |-> NoData,
     device_sweep_status |-> "pending", hygiene_sweep_status |-> "pending", status |-> "pending"]

IdleSweep == [pc |-> "idle", todo |-> {}, seen |-> {}]

SummaryInit ==
    /\ summary = NoSummary
    /\ claimed = {}
    /\ sweep = [t \in SummarySweeper |-> IdleSweep]
    /\ snapshot = [k \in SweepKind |-> NoData]

SweepTo(t, point) == sweep' = [sweep EXCEPT ![t].pc = point]
SweepAt(t, point) == sweep[t].pc = point

-----------------------------------------------------------------------------
(* What is aggregated                                                      *)

_classify_online(devices) == [total |-> Cardinality(devices), online |-> Cardinality(devices \cap Connected)]

(* The devices that are not connected.                                     *)
_build_silent_devices(devices) == devices \ Connected

_pending_diff_count(devices) == IF Pendings = NoData THEN NoData ELSE Cardinality(Pendings \cap devices)

_build_by_adom(devices) ==
    [a \in FleetAdom |->
        [firewalls |-> _classify_online({d \in devices : HomeAdom[d] = a}),
         pending |-> _pending_diff_count({d \in Firewall : HomeAdom[d] = a})]]

DeviceFields(devices) ==
    [firewalls |-> _classify_online(devices), silent |-> Cardinality(_build_silent_devices(devices)),
     pending |-> _pending_diff_count(Firewall), by_adom |-> _build_by_adom(devices)]

(* What the two sweeps collect, and the rows of it in the database.        *)
DeviceResults == {DeviceFields(devices) : devices \in SUBSET Firewall}
SummaryStatus == {"pending", "running", "ok", "error"}
SummaryRow    == [fields : DeviceResults \cup Nat, status : SummaryStatus]

ASSUME NoDataAssumption == NoData \notin DeviceResults \cup Nat /\ NoData \notin SummaryRow

SummaryTypeOK ==
    /\ summary \in [device : DeviceResults \cup {NoData}, hygiene : Nat \cup {NoData},
                    device_sweep_status : SummaryStatus, hygiene_sweep_status : SummaryStatus,
                    status : SummaryStatus]
    /\ claimed \subseteq SweepKind
    /\ sweep \in [SummarySweeper -> [pc : {"idle", "claim", "mark", "fetch", "persist", "clear"},
                                     todo : SUBSET FleetAdom, seen : SUBSET Firewall]]
    /\ snapshot \in [SweepKind -> SummaryRow \cup {NoData}]

-----------------------------------------------------------------------------
(* A sweep                                                                 *)

StatusOf(kind) == IF kind = "device" THEN "device_sweep_status" ELSE "hygiene_sweep_status"

(* A schedule, a start or a user starts a sweep, which leaves again when   *)
(* it finds the flag set; the flag is tested first and set later.          *)
_run_sweep(t) ==
    /\ SweepAt(t, "idle")
    /\ KindOf(t) \notin claimed
    /\ SweepTo(t, "claim")
    /\ UNCHANGED <<summary, claimed, snapshot>>

ClaimSweep(t) ==
    /\ SweepAt(t, "claim")
    /\ claimed' = claimed \cup {KindOf(t)}
    /\ SweepTo(t, "mark")
    /\ UNCHANGED <<summary, snapshot>>

MarkRunning(t) ==
    /\ SweepAt(t, "mark")
    /\ summary' = [summary EXCEPT !.status = "running", ![StatusOf(KindOf(t))] = "running"]
    /\ sweep' = [sweep EXCEPT ![t] = [pc |-> "fetch", todo |-> FleetAdom, seen |-> {}]]
    /\ UNCHANGED <<claimed, snapshot>>

(* One ADOM.  An ADOM that cannot be read counts as one without devices,   *)
(* or without packages.                                                    *)
FetchFleetAdom(t) ==
    /\ SweepAt(t, "fetch")
    /\ \E a \in sweep[t].todo :
          \E found \in {{}, {d \in Firewall : HomeAdom[d] = a}} :
             sweep' = [sweep EXCEPT ![t].todo = @ \ {a}, ![t].seen = @ \cup found]
    /\ UNCHANGED <<summary, claimed, snapshot>>

PublishDevice(t) ==
    /\ t \in DeviceSweeper
    /\ SweepAt(t, "fetch")
    /\ sweep[t].todo = {}
    /\ summary' = [summary EXCEPT !.device = DeviceFields(sweep[t].seen),
                                  !.device_sweep_status = "ok", !.status = "ok"]
    /\ sweep' = [sweep EXCEPT ![t] = [pc |-> "persist", todo |-> {}, seen |-> {}]]
    /\ UNCHANGED <<claimed, snapshot>>

(* Mutant of PublishHygiene: the store starts afresh.                      *)
PublishHygieneAlone(t) ==
    /\ t \in HygieneSweeper
    /\ SweepAt(t, "fetch")
    /\ sweep[t].todo = {}
    /\ summary' = [NoSummary EXCEPT !.hygiene = Cardinality(sweep[t].seen),
                                    !.hygiene_sweep_status = "ok", !.status = "ok"]
    /\ sweep' = [sweep EXCEPT ![t] = [pc |-> "persist", todo |-> {}, seen |-> {}]]
    /\ UNCHANGED <<claimed, snapshot>>

(* The findings are abstracted to the number of devices whose packages     *)
(* were read.                                                              *)
PublishHygiene(t) ==
    /\ t \in HygieneSweeper
    /\ SweepAt(t, "fetch")
    /\ sweep[t].todo = {}
    /\ summary' = [summary EXCEPT !.hygiene = Cardinality(sweep[t].seen),
                                  !.hygiene_sweep_status = "ok", !.status = "ok"]
    /\ sweep' = [sweep EXCEPT ![t] = [pc |-> "persist", todo |-> {}, seen |-> {}]]
    /\ UNCHANGED <<claimed, snapshot>>

(* The row is taken from the store as it is now, without the lock; the     *)
(* device row holds the shared status too.  A failing write is ignored.    *)
write_summary_snapshot(t) ==
    /\ SweepAt(t, "persist")
    /\ \/ /\ LET k == KindOf(t) IN
             snapshot' = [snapshot EXCEPT ![k] =
                 [fields |-> summary[k], status |-> IF k = "device" THEN summary.status ELSE "pending"]]
       \/ UNCHANGED snapshot
    /\ SweepTo(t, "clear")
    /\ UNCHANGED <<summary, claimed>>

(* Mutant of FailSweep: the shared status is left as it is.                *)
FailSweepQuietly(t) ==
    /\ SweepAt(t, "fetch")
    /\ summary' = [summary EXCEPT ![StatusOf(KindOf(t))] = "error"]
    /\ sweep' = [sweep EXCEPT ![t] = [pc |-> "clear", todo |-> {}, seen |-> {}]]
    /\ UNCHANGED <<claimed, snapshot>>

(* Without a connection or a list of ADOMs the sweep fails.                *)
FailSweep(t) ==
    /\ SweepAt(t, "fetch")
    /\ summary' = [summary EXCEPT !.status = "error", ![StatusOf(KindOf(t))] = "error"]
    /\ sweep' = [sweep EXCEPT ![t] = [pc |-> "clear", todo |-> {}, seen |-> {}]]
    /\ UNCHANGED <<claimed, snapshot>>

ClearSweep(t) ==
    /\ SweepAt(t, "clear")
    /\ claimed' = claimed \ {KindOf(t)}
    /\ sweep' = [sweep EXCEPT ![t] = IdleSweep]
    /\ UNCHANGED <<summary, snapshot>>

-----------------------------------------------------------------------------
(* The surroundings                                                        *)

RestartCollector ==
    /\ summary # NoSummary
    /\ summary' = NoSummary
    /\ claimed' = {}
    /\ sweep' = [t \in SummarySweeper |-> IdleSweep]
    /\ UNCHANGED <<snapshot>>

SweepStep(t) ==
    \/ _run_sweep(t)
    \/ ClaimSweep(t)
    \/ MarkRunning(t)
    \/ FetchFleetAdom(t)
    \/ PublishDevice(t)
    \/ PublishHygiene(t)
    \/ write_summary_snapshot(t)
    \/ FailSweep(t)
    \/ ClearSweep(t)

SummaryNext ==
    \/ \E t \in SummarySweeper : SweepStep(t)
    \/ RestartCollector

SummarySpec == SummaryInit /\ [][SummaryNext]_summaryVars

-----------------------------------------------------------------------------
(* What is served                                                          *)

(* A process whose own sweep is pending serves the row of that sweep.      *)
get_summary(local) ==
    LET Part(k) == IF local[StatusOf(k)] = "pending" /\ snapshot[k] # NoData
                   THEN snapshot[k].fields ELSE local[k]
    IN  [k \in SweepKind |-> Part(k)]

ServedByCollector == get_summary(summary)
ServedByWeb       == get_summary(NoSummary)

(* Properties                                                              *)

(* Neither sweep blanks what the other one collected, and neither does a   *)
(* failing sweep: what a web worker or a collector that did not restart    *)
(* serves is never lost again.                                             *)
ServedDataStays ==
    [][ \A k \in SweepKind :
          /\ ServedByWeb[k] # NoData => ServedByWeb'[k] # NoData
          /\ summary[k] # NoData => summary'[k] # NoData \/ summary' = NoSummary ]_summaryVars

(* The shared status says running only while a sweep is under way, however *)
(* the two sweeps and those that users start overlap.                      *)
StatusSettles ==
    summary.status = "running" => \E t \in SummarySweeper : SweepAt(t, "fetch")
=============================================================================
