------------------------------ MODULE MCCaches ------------------------------
(***************************************************************************)
(* Instances of the background caches: the version cache shared by all     *)
(* processes, the executive summary and the other sweeps.  They do not     *)
(* share state: focus names the one that is at work.                       *)
(***************************************************************************)
EXTENDS SweepCache, ExecutiveSummary, FleetCaches, TLC

CONSTANTS
    web, collector, sw1, sw2, sw3, root,   \* SweepCache
    d1, d2, hs, emea, fw1,                 \* ExecutiveSummary
    paris, rome, fw2                       \* FleetCaches

VARIABLE focus

mcVars == <<focus, sweepVars, summaryVars, fleetVars>>

(* SweepCache: a collector with two threads that can sweep, and a web      *)
(* worker whose users can ask for a refresh.                               *)
MCProcOf == (sw1 :> collector) @@ (sw2 :> collector) @@ (sw3 :> web)

(* ExecutiveSummary                                                        *)
MCHomeAdom == fw1 :> emea

(* FleetCaches: both ADOMs list the one device, whose license expires and  *)
(* is not shown any more, and which is backed up in the meantime.  The     *)
(* scheduler of every cache, users who refresh two of them, and the        *)
(* threads of the start.                                                   *)
MCBoxesOf    == [a \in {paris, rome} |-> {fw2}]
MCLocated    == {<<paris, fw2>>}
MCNamedAfter == fw2 :> {fw2}
MCPayload    == fw2 :> <<[status |-> "licensed", expires |-> 9], [status |-> "no_license", expires |-> 0]>>
MCRevisions  == fw2 :> <<NoRevision, 3>>

Role == {"schedule", "user", "start"}
MCStartup == {"start"} \X {"map", "summary"}
MCCacheThread ==
    {"schedule"} \X CacheKind \cup {"user"} \X {"pending", "license"} \cup MCStartup
MCCacheOf == [t \in MCCacheThread |-> t[2]]

MCFleetNext ==
    \/ \E t \in CacheThread : CacheOf[t] = focus /\ (StartSweep(t) \/ RunStepOf(t))
    \/ \E b \in Box : ChangeBox(b)
    \/ RestartCaches

-----------------------------------------------------------------------------

Resting(c) ==
    CASE c = "sweeps"    -> UNCHANGED sweepVars
      [] c = "executive" -> UNCHANGED summaryVars
      [] c = "fleet"     -> UNCHANGED fleetVars

Only(c) == UNCHANGED focus /\ \A d \in {"sweeps", "executive", "fleet"} \ {c} : Resting(d)

MCInit ==
    /\ focus \in {"sweeps", "executive"} \cup CacheKind
    /\ SweepInit /\ SummaryInit /\ FleetInit

MCNext ==
    \/ focus = "sweeps" /\ SweepNext /\ Only("sweeps")
    \/ focus = "executive" /\ SummaryNext /\ Only("executive")
    \/ focus \in CacheKind /\ MCFleetNext /\ Only("fleet")

(* A sweep that has begun goes on, and the schedules keep firing.          *)
MCFairness ==
    /\ \A t \in Sweeper : WF_sweepVars(focus = "sweeps" /\ SweepRunStep(t))
    /\ \A t \in Sweeper : ProcOf[t] \in SchedulerProc =>
          WF_sweepVars(focus = "sweeps" /\ TriggerSweep(t))
    /\ \A r \in Role :
          WF_fleetVars(focus \in CacheKind /\ <<r, focus>> \in CacheThread /\ RunStepOf(<<r, focus>>))
    /\ WF_fleetVars(focus \in CacheKind /\ StartSweep(<<"schedule", focus>>))
    /\ WF_fleetVars(focus \in {"map", "summary"} /\ StartSweep(<<"start", focus>>))

MCSpec == MCInit /\ [][MCNext]_mcVars /\ MCFairness

(* Converges, for the behaviours in which the versions are swept: once     *)
(* FortiManager stops changing, every process comes to serve its current   *)
(* data (versions_cache.get_cached), and goes on doing so.                 *)
SweepsConverge == focus = "sweeps" => Converges

(* FleetConverges, for the cache that is at work: once FortiManager        *)
(* answers and stops changing, its current state is served for ever.       *)
CachesConverge == <>[](focus \in CacheKind \ {"map"} => value[focus] = Current(focus))

(* MapRecovers, for the behaviours of the map cache: a failure at the      *)
(* start is made up for by a retry or by the schedule.                     *)
RetryRecovers == focus = "map" => MapRecovers
=============================================================================
