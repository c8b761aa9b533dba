----------------------------- MODULE MCServices -----------------------------
(***************************************************************************)
(* Instances of the components that do not share state with each other,    *)
(* checked in one run: focus names the component, or the report job, that  *)
(* is at work, and the others rest.                                        *)
(***************************************************************************)
EXTENDS RuleHygiene, DeviceReview, PreviewStaging, ReportJobs, Psirt, AtomicIO, NatReport, PolicyReports, TLC

CONSTANTS
    all, net, host, srv, fq, wan, dmz, staff, night,             \* RuleHygiene
    name1, addr1, addr2,                                    \* DeviceReview
    p1, p2, root, c1, k1, k2, v1, v2, v3, v4,               \* PreviewStaging
    hyg, nat, pol, rev, bak,                         \* ReportJobs
    leak, east, west, gate1, gate2, analyst,                \* Psirt
    i1, t1,                                                 \* AtomicIO
    pkgA, pkgB, fw1, web, vpn, pool, outer, inner,          \* NatReport
    nets, subs, ports, lan, http, gateA, gateB              \* PolicyReports

VARIABLE focus

mcVars == <<focus, hygieneVars, reviewVars, previewVars, reportVars, psirtVars, natVars, policyReportVars, vars>>

-----------------------------------------------------------------------------
(* RuleHygiene: net holds srv and host, fq has no networks.  Each of the   *)
(* four rules has one thing that the scope checks leave out or ask for.    *)

MCObject   == {all, net, host, srv, fq}
MCNetworks == (all :> {{1, 2}}) @@ (net :> {{1, 2}}) @@ (host :> {{1}}) @@ (srv :> {{2}}) @@ (fq :> Opaque)
MCDenotes  == (all :> {1, 2}) @@ (net :> {1, 2}) @@ (host :> {1}) @@ (srv :> {2}) @@ (fq :> {2})

Fields(sources, dests) == [srcaddr |-> sources, dstaddr |-> dests, service |-> {all}]

HostRule == [id |-> NoRule, status |-> "enable", tags |-> <<>>, block |-> FALSE, named |-> TRUE,
             comment |-> TRUE, log |-> "all", schedule |-> "always", hits |-> 1, profiles |-> TRUE,
             ident |-> {}, intf |-> {wan}, action |-> "accept", on |-> Fields({host}, {host}), negated |-> {}]

MCShape ==
    {[HostRule EXCEPT !.on = Fields({all}, {all}), !.action = "deny", !.ident = {staff}],
     [HostRule EXCEPT !.on = Fields({net, srv}, {host}), !.intf = {wan, dmz}, !.schedule = night],
     HostRule,
     [HostRule EXCEPT !.on = Fields({host, fq}, {host}), !.action = "deny", !.negated = {"dstaddr"}]}

-----------------------------------------------------------------------------
(* DeviceReview: one server given by its name, two by an address.          *)

OrAbsent(S) == S \cup {Absent}
AtMost(S, n) == {{}} \cup (IF n = 1 THEN {{a} : a \in S} ELSE {{a, b} : a, b \in S})

MCHost    == {name1, addr1, addr2}
MCAnswers == {{}, {addr1}, {addr2}}

MCExpectedOf ==
    [k \in CheckKey |->
        CASE k \in {"ntp_config", "syslog_config", "dns_servers", "log_faz"} ->
                {{}, {name1}, {addr1}, {name1, addr2}}
          [] k \in {"idle_timeout", "lockout_threshold", "password_length", "log_severity"} ->
                OrAbsent({1, 2})
          [] k = "firmware_version" -> OrAbsent({<<7>>, <<7, 4>>, <<7, 4, 1>>})
          [] OTHER -> {Absent}]

Strength == {"weak", "strong"}

MCSettingsOf ==
    [interface_protocols |-> AtMost([ip : BOOLEAN, allowaccess : SUBSET {"http", "ssh", "ping"}], 2),
     ntp_config |-> [ntpsync : BOOLEAN, ntpserver : SUBSET MCHost],
     syslog_config |-> SUBSET MCHost,
     dns_servers |-> {{a, b} : a, b \in OrAbsent(MCHost)},
     log_faz |-> AtMost([status : BOOLEAN, server : OrAbsent(MCHost)], 2),
     trusted_hosts |-> SUBSET [trusthost : SUBSET {"restricted", "unrestricted"}],
     default_admin |-> {A \cup B : A \in SUBSET [builtin : {FALSE}, status : BOOLEAN],
                                   B \in AtMost([builtin : {TRUE}, status : BOOLEAN], 1)},
     admin_mfa |-> SUBSET [two_factor : BOOLEAN],
     idle_timeout |-> OrAbsent(0..3), lockout_threshold |-> OrAbsent(0..3),
     password_length |-> OrAbsent(0..3), log_severity |-> OrAbsent(0..3),
     log_disk |-> BOOLEAN, prelogin_banner |-> BOOLEAN,
     snmp_version |-> [status : BOOLEAN, communities : SUBSET BOOLEAN],
     snmp_readonly |-> SUBSET BOOLEAN,
     tls_version |-> [versions : SUBSET Strength, min : OrAbsent(Strength)],
     ssh_ciphers |-> [enc : SUBSET Strength, mac : SUBSET Strength],
     firmware_version |->
        OrAbsent({<<6, 4, 2>>, <<7, 4>>, <<7, 2, 3>>, <<7, 4, 0>>, <<7, 4, 1>>, <<8, 0, 0>>}),
     ha_sync |-> [standalone : BOOLEAN, members : SUBSET BOOLEAN],
     hostname_changed |-> OrAbsent({"default", "own"}),
     admin_port_nondefault |-> {{a, b} : a, b \in OrAbsent({"default", "own"})},
     timezone_set |-> OrAbsent({"utc"}),
     vpn_weak_crypto |-> [phase1 : AtMost([proposal : SUBSET Strength, dhgrp : SUBSET Strength], 1),
                          phase2 : AtMost([proposal : SUBSET Strength], 2)],
     vpn_pfs |-> [phase2 : SUBSET [pfs : BOOLEAN]],
     vpn_ike_version |-> [phase1 : AtMost([ike : {1, 2}, aggressive : BOOLEAN], 2)]]

ReviewRests == check = "log_disk" /\ settings = TRUE /\ \A h \in Host : dns[h] = IF h = name1 THEN {} ELSE {h}

-----------------------------------------------------------------------------
(* PreviewStaging: two devices of one ADOM share a package, the first has  *)
(* it in two of its three VDOMs.                                           *)

MCAdomOf     == [p \in {p1, p2} |-> root]
MCHomeOf     == [p \in {p1, p2} |-> c1]
MCVdomsOf    == (p1 :> {v1, v2, v3}) @@ (p2 :> {v4})
MCPackageOf  == (v1 :> k1) @@ (v2 :> k1) @@ (v3 :> k2) @@ (v4 :> k1)

(* ReportJobs: one job acts at a time.                                     *)
MCReportNext ==
    \/ \E j \in Job : focus = j /\ (RunStep(j) \/ update_job(j) \/ delete_job(j))
    \/ \E j \in ReviewJobs : focus = j /\ (ReadRollup(j) \/ StoreRollup(j))
    \/ RestartProcess

(* Psirt: gate2 reports no firmware; the advisory names both products.     *)
Firmware(p) == [os_ver |-> 7, mr |-> 4, patch |-> p]
MCDeviceAdom    == [d \in {gate1, gate2} |-> east]
MCFirstFirmware == (gate1 :> Firmware(2)) @@ (gate2 :> Firmware(Missing))
MCNextFirmware  == (gate1 :> Firmware(5)) @@ (gate2 :> Firmware(Missing))
MCFmgVersion    == <<7, 4, 4>>
MCInterfaces    == [d \in {gate1, gate2} |-> {[gui |-> FALSE, public |-> TRUE]}]
MCAdmins        == [d \in {gate1, gate2} |-> {FALSE}]
MCAllowedAdoms  == analyst :> {east, west}
MCPage          == leak :> [cvss |-> 75, severity |-> "high"]
MCAdvisoryText ==
    leak :> [url |-> TRUE, cvss |-> 50, severity |-> "medium", workaround |-> "no_gui",
            exploited |-> TRUE,
            ranges |-> <<[product |-> "fortios", min |-> <<7, 4>>, max |-> <<7, 4, 3>>],
                         [product |-> "fortimanager", min |-> Open, max |-> <<7, 4, 3>>],
                         [product |-> "fortigate", min |-> <<7, 4, 6>>, max |-> Garbled]>>]

(* AtomicIO: two writers of one file, in one process.                      *)
WritersRest == mount /\ path = i1 /\ \A i \in Inode : data[i] = t1

(* NatReport: groups in a group, or in a circle; vpn is on a device only.   *)
MCPkgScope       == (pkgA :> {fw1}) @@ (pkgB :> {})
MCDeviceVip      == fw1 :> {vpn}
MCInitialMembers == (outer :> {inner}) @@ (inner :> {web})
MCMemberChoice   == (outer :> {{inner}, {}}) @@ (inner :> {{web}, {outer, vpn}})
MCNatRule        == {[dst |-> {outer}, pool |-> {}], [dst |-> {vpn}, pool |-> {pool}]}

(* PolicyReports: subs may be missing, reached twice or in a circle.       *)
MCFirstNest  == (nets :> {lan, subs}) @@ (subs :> {lan}) @@ (ports :> {http})
MCNestChoice == (nets :> {{lan, subs}}) @@ (subs :> {{lan}, {nets}, NoGroup}) @@ (ports :> {{http}})
MCRowChoice  == {[id |-> 1, addr |-> {nets}, svc |-> {ports}, log |-> TRUE],
                 [id |-> 1, addr |-> {lan, subs}, svc |-> {http}, log |-> FALSE]}
MCScope      == <<gateA, gateB>>

-----------------------------------------------------------------------------

MCService == {"hygiene", "review", "preview", "psirt", "files", "nat", "export"}

Resting(c) ==
    CASE c = "hygiene" -> UNCHANGED hygieneVars
      [] c = "review"  -> UNCHANGED reviewVars
      [] c = "preview" -> UNCHANGED previewVars
      [] c = "reports" -> UNCHANGED reportVars
      [] c = "psirt"   -> UNCHANGED psirtVars
      [] c = "files"   -> UNCHANGED vars
      [] c = "nat"     -> UNCHANGED natVars
      [] c = "export"  -> UNCHANGED policyReportVars

Only(c) == UNCHANGED focus /\ \A d \in (MCService \cup {"reports"}) \ {c} : Resting(d)

MCInit ==
    /\ focus \in MCService \cup Job
    /\ ReviewInit /\ (focus # "review" => ReviewRests)
    /\ ReportInit /\ \A j \in Job : focus # j => job[j] = "on"
    /\ Init /\ (focus # "files" => WritersRest)
    /\ HygieneInit /\ PreviewInit /\ PsirtInit /\ NatInit /\ PolicyReportsInit

MCNext ==
    \/ focus = "hygiene" /\ HygieneNext /\ Only("hygiene")
    \/ focus = "review" /\ ReviewNext /\ Only("review")
    \/ focus = "preview" /\ PreviewNext /\ Only("preview")
    \/ focus \in Job /\ MCReportNext /\ Only("reports")
    \/ focus = "psirt" /\ PsirtNext /\ Only("psirt")
    \/ focus = "files" /\ Next /\ Only("files")
    \/ focus = "nat" /\ NatNext /\ Only("nat")
    \/ focus = "export" /\ PolicyReportsNext /\ Only("export")

MCSpec == MCInit /\ [][MCNext]_mcVars
=============================================================================
