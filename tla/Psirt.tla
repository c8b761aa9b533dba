-------------------------------- MODULE Psirt --------------------------------
(***************************************************************************)
(* PSIRT advisories: users assess an advisory against the fleet and close  *)
(* it; the collector re-assesses what is open from the device sweep's      *)
(* inventory.  Both write one database, and the summary is computed from   *)
(* each advisory's latest assessment.                                      *)
(***************************************************************************)
EXTENDS Integers, FiniteSets, Sequences

CONSTANTS
    Advisory,           \* advisory ids
    AdvisoryText,       \* what extraction or a request's body says of an advisory
    Page,               \* cvss and severity on its fortiguard.com page
    KevListed,          \* advisories with a CVE in the CISA catalog
    PsirtAdom,          \* ADOMs
    SystemAdom,         \* those whose name starts with "forti"
    PsirtDevice, DeviceAdom,
    FirstFirmware, NextFirmware,    \* os_ver, mr and patch of a device, now and upgraded
    FmgVersion,         \* FortiManager's own version
    Interfaces,         \* device: its interfaces, with gui (http or https access) and public
    Admins,             \* device: its administrators, TRUE when from any host
    Analyst, AllowedAdoms,          \* users, and the ADOMs each may access or AnyAdom
    AnyAdom, EnrichmentEnabled,
    NoAdvisory, NoScore, Unread     \* no row, no CVSS score, what could not be read

Missing == -1           \* a field FortiManager does not report, or patch -1
Open    == <<>>         \* an empty bound of a range
Garbled == <<Missing>>  \* a bound that is not a version

ASSUME PsirtAssumption ==
    /\ DeviceAdom \in [PsirtDevice -> PsirtAdom]
    /\ SystemAdom \subseteq PsirtAdom
    /\ EnrichmentEnabled \in BOOLEAN
    /\ \A u \in Analyst : AllowedAdoms[u] = AnyAdom \/ AllowedAdoms[u] \subseteq PsirtAdom

VARIABLES
    fleet,              \* the devices' firmware fields
    inventory,          \* devices_raw_by_adom of the device sweep
    advisories,         \* the advisories table: the row of each advisory that has one
    latest,             \* the latest row of the assessments table
    request,            \* the assessment a user's request has computed and not yet saved
    reassess            \* the advisories and the inventory of the running re-assessment

psirtVars == <<fleet, inventory, advisories, latest, request, reassess>>

-----------------------------------------------------------------------------
(* Versions                                                                *)

NoFirmware == Garbled

_device_firmware(d) ==
    IF Missing \in {d.os_ver, d.mr, d.patch} THEN NoFirmware ELSE <<d.os_ver, d.mr, d.patch>>

parse_version(text) == IF Len(text) = 2 THEN Append(text, 0) ELSE text

compare_versions(a, b) ==
    LET va == parse_version(a)
        vb == parse_version(b)
        D  == {i \in 1..3 : va[i] # vb[i]}
        i  == CHOOSE j \in D : \A k \in D : j <= k
    IN  IF D = {} THEN 0 ELSE IF va[i] < vb[i] THEN -1 ELSE 1

(* "in", "out", or "error" when a bound that is compared does not parse.   *)
version_in_range(v, rng) ==
    LET Above == rng.min = Open \/ compare_versions(v, rng.min) >= 0
        Below == rng.max = Open \/ compare_versions(v, rng.max) <= 0
    IN  IF rng.min = Garbled THEN "error"
        ELSE IF ~Above THEN "out"
        ELSE IF rng.max = Garbled THEN "error"
        ELSE IF Below THEN "in" ELSE "out"

(* The first range that matches or cannot be compared decides.             *)
InRanges(v, ranges) ==
    LET Decides == {i \in DOMAIN ranges : version_in_range(v, ranges[i]) # "out"}
    IN  IF Decides = {} THEN "out"
        ELSE version_in_range(v, ranges[CHOOSE i \in Decides : \A j \in Decides : i <= j])

-----------------------------------------------------------------------------
(* Workarounds                                                             *)

Pattern == {"no_gui", "no_gui_outside", "trusted_hosts"}

_check_disable_http_https_admin_access(d) ==
    IF Interfaces[d] = {} THEN "manual_verification_required"
    ELSE IF \E i \in Interfaces[d] : i.gui THEN "not_in_place" ELSE "in_place"

_check_disable_gui_internet_facing(d) ==
    LET Facing == {i \in Interfaces[d] : i.public}
    IN  IF Facing = {} THEN "manual_verification_required"
        ELSE IF \E i \in Facing : i.gui THEN "not_in_place" ELSE "in_place"

_check_trusted_hosts(d) == IF TRUE \in Admins[d] THEN "not_in_place" ELSE "in_place"

check_workaround(pattern, d) ==
    CASE pattern = "no_gui"         -> _check_disable_http_https_admin_access(d)
      [] pattern = "no_gui_outside" -> _check_disable_gui_internet_facing(d)
      [] pattern = "trusted_hosts"  -> _check_trusted_hosts(d)

(* A finding.  The inventory cannot answer a live read: checks then raise. *)
_evaluate_device(adv, ranges, device, adom, firmware, live) ==
    LET Verdict(in, workaround, verdict) ==
            [device |-> device, adom |-> adom, in_range |-> in,
             workaround_status |-> workaround, verdict |-> verdict]
        Where == IF firmware = NoFirmware THEN "error" ELSE InRanges(firmware, ranges)
        Check == IF live /\ device \in PsirtDevice THEN check_workaround(adv.workaround, device)
                 ELSE "manual_verification_required"
    IN  CASE Where = "error" -> Verdict(FALSE, "not_applicable", "unknown_needs_manual_check")
          [] Where = "out"   -> Verdict(FALSE, "not_applicable", "no_action")
          [] Where = "in" /\ adv.workaround = "none" ->
                 Verdict(TRUE, "not_applicable", "upgrade_required")
          [] Where = "in" /\ adv.workaround = "prose" ->
                 Verdict(TRUE, "manual_verification_required", "config_change_required")
          [] Where = "in" /\ adv.workaround \in Pattern ->
                 Verdict(TRUE, Check, IF Check = "in_place" THEN "no_action"
                                      ELSE "config_change_required")

-----------------------------------------------------------------------------
(* The assessment of an advisory                                           *)

Rank == [unknown |-> -1, informational |-> 0, low |-> 1, medium |-> 2, high |-> 3, critical |-> 4]

_cvss_band(score) ==
    IF score >= 90 THEN "critical" ELSE IF score >= 70 THEN "high"
    ELSE IF score >= 40 THEN "medium" ELSE "low"

compute_priority(adv, any_in_range) ==
    LET base == IF adv.cvss # NoScore THEN _cvss_band(adv.cvss)
                ELSE IF adv.severity \in {"critical", "high", "medium", "low"}
                     THEN adv.severity ELSE "medium"
    IN  IF ~any_in_range THEN "informational"
        ELSE IF (adv.exploited \/ adv.kev_hit) /\ Rank[base] < Rank["high"] THEN "high"
        ELSE base

(* web tells which of the two sites answer.  An advisory that was enriched *)
(* once keeps what that found.                                             *)
enrich_advisory(adv, web, enabled) ==
    LET page    == adv.url /\ web.page
        kev_hit == web.kev /\ adv.id \in KevListed
    IN  IF enabled
        THEN [adv EXCEPT
                !.cvss = IF page /\ @ = NoScore THEN Page[adv.id].cvss ELSE @,
                !.severity = IF page /\ @ = "" THEN Page[adv.id].severity ELSE @,
                !.degraded = ~page \/ ~web.kev, !.kev_hit = kev_hit, !.enriched = TRUE]
        ELSE [adv EXCEPT !.degraded = @ \/ ~adv.enriched, !.enriched = TRUE]

RangesFor(adv, products) == SelectSeq(adv.ranges, LAMBDA r : r.product \in products)

Confirmed(findings) == \E f \in findings : f.in_range

(* Nothing to act on is not concluded from an incomplete reading.          *)
Conclude(adv, findings, degraded) ==
    IF degraded /\ ~Confirmed(findings) THEN "unknown"
    ELSE compute_priority(adv, Confirmed(findings))

(* client answers for FortiManager's version, its ADOMs and their devices, *)
(* each possibly Unread.  missed is not in the code: something of the      *)
(* scope was not read.                                                     *)
assess(adv0, client, scope, web, enabled) ==
    LET adv     == enrich_advisory(adv0, web, enabled)
        fortios == RangesFor(adv, {"fortios", "fortigate"})
        fmg     == RangesFor(adv, {"fortimanager"})
        Listed  == IF scope # AnyAdom THEN {scope}
                   ELSE IF client.adoms = Unread THEN {} ELSE client.adoms \ SystemAdom
        Adoms   == IF fortios = <<>> THEN {} ELSE Listed
        Read    == {a \in Adoms : client.devices[a] # Unread}
        Own     == IF fmg = <<>> \/ client.version = Unread THEN {}
                   ELSE {_evaluate_device(adv, fmg, "FortiManager (primary)", "-",
                                          client.version, client.live)}
        Theirs  == UNION {{_evaluate_device(adv, fortios, d.name, a, _device_firmware(d.fields),
                                            client.live) : d \in client.devices[a]} : a \in Read}
        Missed  == \/ fmg # <<>> /\ client.version = Unread
                   \/ fortios # <<>> /\ scope = AnyAdom /\ client.adoms = Unread
                   \/ Read # Adoms
        degraded == adv.degraded \/ Missed
    IN  [advisory |-> adv, findings |-> Own \cup Theirs, degraded |-> degraded,
         priority |-> Conclude(adv, Own \cup Theirs, degraded), missed |-> Missed]

(* Mutant of merge: the priority of the first ADOM stays.                  *)
merge_first(parts) ==
    [parts[1] EXCEPT !.findings = UNION {parts[i].findings : i \in DOMAIN parts},
                     !.degraded = \E i \in DOMAIN parts : parts[i].degraded,
                     !.missed   = \E i \in DOMAIN parts : parts[i].missed]

(* A restricted user's assessment is put together from one per ADOM; what  *)
(* a later one says of FortiManager itself is left out.                    *)
merge(parts) ==
    LET First    == parts[1]
        Later    == UNION {parts[i].findings : i \in 2..Len(parts)}
        findings == First.findings \cup {f \in Later : f.adom # "-"}
        degraded == \E i \in DOMAIN parts : parts[i].degraded
    IN  [First EXCEPT !.findings = findings, !.degraded = degraded,
                      !.priority = Conclude(First.advisory, findings, degraded),
                      !.missed   = \E i \in DOMAIN parts : parts[i].missed]

-----------------------------------------------------------------------------
(* The database                                                            *)

PsirtInit ==
    /\ fleet = FirstFirmware
    /\ inventory = [a \in {} |-> {}]
    /\ advisories = [a \in {} |-> {}]
    /\ latest = [a \in Advisory |-> NoAdvisory]
    /\ request = [u \in Analyst |-> NoAdvisory]
    /\ reassess = NoAdvisory

IsClosed(a) == a \in DOMAIN advisories /\ advisories[a].closed

(* Mutant of StoredRow: the row is written anew.                           *)
StoredRowAnew(result) ==
    LET adv == result.advisory
    IN  [cvss |-> adv.cvss, severity |-> adv.severity, kev |-> adv.kev_hit,
         ranges |-> adv.ranges, workaround |-> adv.workaround, closed |-> FALSE]

(* The columns of an advisory; closed_at stays what it is.  The page's     *)
(* address and the words about exploitation have no column.                *)
StoredRow(result) ==
    LET adv == result.advisory
    IN  [cvss |-> adv.cvss, severity |-> adv.severity, kev |-> adv.kev_hit,
         ranges |-> adv.ranges, workaround |-> adv.workaround, closed |-> IsClosed(adv.id)]

(* One transaction: the advisory's row and a new latest assessment.        *)
save_assessment_result(result) ==
    LET a == result.advisory.id
    IN  /\ advisories' = [b \in DOMAIN advisories \cup {a} |->
                             IF b = a THEN StoredRow(result) ELSE advisories[b]]
        /\ latest' = [latest EXCEPT ![a] =
               [devices_affected |-> {[name |-> f.device, adom |-> f.adom,
                                       workaround_applied |-> f.workaround_status = "in_place"] :
                                      f \in {g \in result.findings : g.in_range}},
                findings_count |-> Cardinality(result.findings), priority |-> result.priority,
                degraded |-> result.degraded, missed |-> result.missed]]

close_advisory(a) ==
    /\ a \in DOMAIN advisories
    /\ advisories' = [advisories EXCEPT ![a].closed = TRUE]
    /\ UNCHANGED <<fleet, inventory, latest, request, reassess>>

get_open_advisories == {a \in DOMAIN advisories : ~IsClosed(a)}

-----------------------------------------------------------------------------
(* An interactive assessment                                               *)

Devices(a) == {[name |-> d, fields |-> fleet[d]] : d \in {e \in PsirtDevice : DeviceAdom[e] = a}}

(* What FortiManager answers when failed cannot be read.                   *)
LiveClient(failed) ==
    [version |-> IF "version" \in failed THEN Unread ELSE FmgVersion,
     adoms   |-> IF "adoms" \in failed THEN Unread ELSE PsirtAdom,
     devices |-> [a \in PsirtAdom |-> IF a \in failed THEN Unread ELSE Devices(a)],
     live    |-> TRUE]

_advisory_from_payload(a) ==
    LET text == AdvisoryText[a]
    IN  [id |-> a, url |-> text.url, cvss |-> text.cvss, severity |-> text.severity,
         ranges |-> text.ranges, workaround |-> text.workaround, exploited |-> text.exploited,
         degraded |-> FALSE, kev_hit |-> FALSE, enriched |-> FALSE]

(* What a user can be told: of one ADOM, or of all those the user may      *)
(* access, which are read one after the other unless that is any.          *)
Assessments(u, adv, client, web) ==
    LET allowed == AllowedAdoms[u]
        scopes  == IF allowed = AnyAdom THEN PsirtAdom \cup {AnyAdom} ELSE allowed
        once    == enrich_advisory(adv, web, EnrichmentEnabled)
        orders  == IF allowed \in {AnyAdom, {}} THEN {}
                   ELSE {o \in [1..Cardinality(allowed) -> allowed] :
                            \A i, j \in DOMAIN o : o[i] = o[j] => i = j}
    IN  {assess(adv, client, scope, web, EnrichmentEnabled) : scope \in scopes}
        \cup {merge([i \in DOMAIN o |-> assess(once, client, o[i], web, FALSE)]) : o \in orders}

psirt_assess_bulk(u, a) ==
    /\ request[u] = NoAdvisory
    /\ \E failed \in SUBSET ({"version", "adoms"} \cup PsirtAdom),
          page \in BOOLEAN, kev \in BOOLEAN :
          \E result \in Assessments(u, _advisory_from_payload(a), LiveClient(failed),
                                    [page |-> page, kev |-> kev]) :
             request' = [request EXCEPT ![u] = result]
    /\ UNCHANGED <<fleet, inventory, advisories, latest, reassess>>

(* The save that ends the request may fail.                                *)
psirt_assess_save(u) ==
    /\ request[u] # NoAdvisory
    /\ \/ save_assessment_result(request[u])
       \/ UNCHANGED <<advisories, latest>>
    /\ request' = [request EXCEPT ![u] = NoAdvisory]
    /\ UNCHANGED <<fleet, inventory, reassess>>

-----------------------------------------------------------------------------
(* The scheduled re-assessment                                             *)

(* The advisories open now, as stored, and a copy of the inventory.        *)
_run_reassessment ==
    /\ reassess = NoAdvisory
    /\ get_open_advisories # {}
    /\ reassess' = [rows |-> [a \in get_open_advisories |-> advisories[a]], client |-> inventory]
    /\ UNCHANGED <<fleet, inventory, advisories, latest, request>>

_CachedDeviceClient(devices) ==
    [version |-> Unread, adoms |-> DOMAIN devices, devices |-> devices, live |-> FALSE]

Rebuilt(a, row) ==
    [id |-> a, url |-> FALSE, cvss |-> row.cvss, severity |-> row.severity,
     ranges |-> row.ranges, workaround |-> row.workaround, exploited |-> FALSE,
     degraded |-> FALSE, kev_hit |-> FALSE, enriched |-> FALSE]

Reassess(a, kev) ==
    assess(Rebuilt(a, reassess.rows[a]), _CachedDeviceClient(reassess.client), AnyAdom,
           [page |-> FALSE, kev |-> kev], EnrichmentEnabled)

(* The next advisory; an error leaves its rows alone.                      *)
ReassessNext ==
    /\ reassess # NoAdvisory
    /\ \E a \in DOMAIN reassess.rows :
          /\ \/ \E kev \in BOOLEAN : save_assessment_result(Reassess(a, kev))
             \/ UNCHANGED <<advisories, latest>>
          /\ reassess' = [reassess EXCEPT !.rows =
                              [b \in DOMAIN reassess.rows \ {a} |-> reassess.rows[b]]]
    /\ UNCHANGED <<fleet, inventory, request>>

ReassessDone ==
    /\ reassess # NoAdvisory
    /\ DOMAIN reassess.rows = {}
    /\ reassess' = NoAdvisory
    /\ UNCHANGED <<fleet, inventory, advisories, latest, request>>

-----------------------------------------------------------------------------
(* The surroundings                                                        *)

(* The device sweep of the summary; an ADOM that cannot be read is stored  *)
(* without devices.                                                        *)
SweepInventory ==
    /\ \E failed \in SUBSET (PsirtAdom \ SystemAdom) :
          inventory' = [a \in PsirtAdom \ SystemAdom |-> IF a \in failed THEN {} ELSE Devices(a)]
    /\ UNCHANGED <<fleet, advisories, latest, request, reassess>>

UpgradeDevice(d) ==
    /\ fleet[d] # NextFirmware[d]
    /\ fleet' = [fleet EXCEPT ![d] = NextFirmware[d]]
    /\ UNCHANGED <<inventory, advisories, latest, request, reassess>>

RestartPsirt ==
    /\ inventory' = [a \in {} |-> {}]
    /\ reassess' = NoAdvisory
    /\ UNCHANGED <<fleet, advisories, latest, request>>

PsirtNext ==
    \/ \E u \in Analyst, a \in Advisory : psirt_assess_bulk(u, a)
    \/ \E u \in Analyst : psirt_assess_save(u)
    \/ \E a \in Advisory : close_advisory(a)
    \/ _run_reassessment
    \/ ReassessNext
    \/ ReassessDone
    \/ SweepInventory
    \/ \E d \in PsirtDevice : UpgradeDevice(d)
    \/ RestartPsirt

PsirtSpec == PsirtInit /\ [][PsirtNext]_psirtVars

-----------------------------------------------------------------------------
(* Properties                                                              *)

(* Nothing to act on is only said of a scope that was read completely and  *)
(* in which no device is in range, by a user's assessment, a merged one    *)
(* and a scheduled one alike.                                              *)
InformationalIsSafe ==
    /\ \A a \in Advisory :
          latest[a] # NoAdvisory /\ latest[a].priority = "informational" =>
             ~latest[a].missed /\ latest[a].devices_affected = {}
    /\ \A u \in Analyst :
          request[u] # NoAdvisory /\ request[u].priority = "informational" =>
             ~request[u].missed /\ ~Confirmed(request[u].findings)

(* A closed advisory stays closed: an assessment that was under way when   *)
(* it was closed, a user's or the scheduled one, does not reopen it.       *)
ClosedStaysClosed == [][\A a \in Advisory : IsClosed(a) => IsClosed(a)']_psirtVars

(* "A per-advisory failure (exception, or the assessment coming back       *)
(* degraded with no findings) skips saving for that advisory only": the    *)
(* code saves whatever assess returns.                                     *)
DegradedIsNotSaved ==
    [][\A a \in Advisory :
          /\ reassess # NoAdvisory
          /\ latest'[a] # latest[a]
          /\ request' = request
          => ~(latest'[a].degraded /\ latest'[a].findings_count = 0)]_psirtVars
=============================================================================
