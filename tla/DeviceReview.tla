---------------------------- MODULE DeviceReview ----------------------------
(***************************************************************************)
(* The device review: checks of a device's settings against expected       *)
(* values.  A review fetches the blobs of settings its check needs; a blob *)
(* that cannot be read arrives empty, and without a connection no blob     *)
(* arrives at all.  Expected and configured hosts match by name or by an   *)
(* address both resolve to, and resolutions are cached for the life of the *)
(* process.                                                                *)
(***************************************************************************)
EXTENDS Naturals, Sequences

CONSTANTS
    SettingsOf,   \* the settings a check may find, by check
    ExpectedOf,   \* the parameters it may be given, by check
    Host, Name,   \* servers, given by name or by address
    Answers,      \* what a host may resolve to: sets of routable addresses, {} for an error
    Absent,       \* a field the device did not return, a parameter not supplied
    InsecureProtocol,  \* the protocols of _PROTO_SECURE that count as insecure
    Unresolved    \* a host that is not in the cache

VARIABLES
    check,      \* the check under review
    settings,   \* the device's settings
    expected,   \* the parameters of the check
    unread,     \* the blobs whose fetch failed
    connected,  \* device_review_run has a connection: without one there is no data at all
    dns,        \* the routable addresses each host resolves to now
    resolved,   \* the cache of _resolve_host
    answered,   \* history: every address a host resolved to
    verdict         \* the verdict of the last review, "idle" or "fetched" before there is one

reviewVars == <<check, settings, expected, unread, connected, dns, resolved, answered, verdict>>

(* The blobs of settings each check reads.                                 *)
data_keys ==
    [interface_protocols |-> {"interfaces"}, ntp_config |-> {"ntp"}, syslog_config |-> {"syslog"},
     trusted_hosts |-> {"admins"}, default_admin |-> {"admins"}, admin_mfa |-> {"admins"},
     idle_timeout |-> {"system_global"}, lockout_threshold |-> {"system_global"},
     password_length |-> {"password_policy"}, log_disk |-> {"log_disk"},
     log_severity |-> {"log_disk"}, log_faz |-> {"log_faz"}, dns_servers |-> {"dns"},
     snmp_version |-> {"snmp_community", "snmp_sysinfo"}, snmp_readonly |-> {"snmp_users"},
     tls_version |-> {"system_global"}, ssh_ciphers |-> {"system_global"},
     firmware_version |-> {"device_meta"}, ha_sync |-> {"ha_status"},
     hostname_changed |-> {"system_global"}, admin_port_nondefault |-> {"system_global"},
     prelogin_banner |-> {"system_global"}, timezone_set |-> {"system_global"},
     vpn_weak_crypto |-> {"ipsec_phase1", "ipsec_phase2"}, vpn_pfs |-> {"ipsec_phase2"},
     vpn_ike_version |-> {"ipsec_phase1"}]

CheckKey == DOMAIN data_keys

(* What the settings of a device and the parameters of a check can be.     *)
ASSUME DeviceAssumption ==
    /\ Absent \notin Nat \cup Host /\ Unresolved \notin Answers
    /\ \A k \in {"ntp_config", "syslog_config", "dns_servers", "log_faz"} : ExpectedOf[k] \subseteq SUBSET Host
    /\ \A k \in {"idle_timeout", "lockout_threshold", "password_length"} :
          ExpectedOf[k] \cup SettingsOf[k] \subseteq Nat \cup {Absent}
    /\ ExpectedOf["firmware_version"] \cup SettingsOf["firmware_version"] \subseteq Seq(Nat) \cup {Absent}
    /\ \A s \in SettingsOf["ntp_config"] : s.ntpserver \subseteq Host
    /\ SettingsOf["syslog_config"] \subseteq SUBSET Host
    /\ SettingsOf["dns_servers"] \subseteq SUBSET (Host \cup {Absent})
    /\ \A s \in SettingsOf["log_faz"] : \A slot \in s : slot.server \in Host \cup {Absent}
    /\ \A s \in SettingsOf["trusted_hosts"] : \A a \in s : a.trusthost \subseteq {"restricted", "unrestricted"}
    /\ \A k \in {"log_disk", "prelogin_banner"} : SettingsOf[k] \subseteq BOOLEAN
    /\ \A s \in SettingsOf["snmp_version"] : s.communities \subseteq BOOLEAN
    /\ SettingsOf["snmp_readonly"] \subseteq SUBSET BOOLEAN
    /\ \A s \in SettingsOf["ha_sync"] : s.members \subseteq BOOLEAN
    /\ \A s \in SettingsOf["vpn_ike_version"] : \A t \in s.phase1 : t.ike \in {1, 2}

(* A blob is empty when it could not be read.                              *)
NotRead(blob) == blob \in unread \/ ~connected
Empty        == \E blob \in data_keys[check] : NotRead(blob)

-----------------------------------------------------------------------------
(* Hosts                                                                   *)

_resolve_host(h) == IF resolved[h] = Unresolved THEN dns[h] ELSE resolved[h]

_match_host(e, c) == e = c \/ _resolve_host(e) \cap _resolve_host(c) # {}

Found(e, configured) == \E c \in configured : _match_host(e, c)

(* NTP, syslog and DNS: every expected host must be configured.            *)
CompareHosts(configured) ==
    IF expected = {} THEN "CONFIG_MISSING"
    ELSE IF \A e \in expected : Found(e, configured) THEN "PASS"
    ELSE IF configured = {} THEN "FAIL" ELSE "WARN"

-----------------------------------------------------------------------------
(* Checks                                                                  *)

Failing(bad) == IF bad THEN "FAIL" ELSE "PASS"

(* A check of a field of a settings blob: a failure without the blob.      *)
OfField(missing, bad) ==
    IF Empty THEN "FAIL" ELSE IF missing THEN "CONFIG_MISSING" ELSE Failing(bad)

(* The worst of the interfaces with an address and management access.      *)
_run_interface_protocols ==
    IF ~ Empty /\ \E i \in settings : i.ip /\ i.allowaccess \cap InsecureProtocol # {}
    THEN "INSECURE" ELSE "INFO"

(* Mutant of _run_ntp_config: one expected server is enough.               *)
_run_ntp_config_any ==
    IF Empty \/ ~settings.ntpsync THEN "FAIL"
    ELSE IF expected # {} /\ \E e \in expected : Found(e, settings.ntpserver) THEN "PASS"
    ELSE CompareHosts(settings.ntpserver)

_run_ntp_config ==
    IF Empty \/ ~settings.ntpsync THEN "FAIL" ELSE CompareHosts(settings.ntpserver)

_run_syslog_config == CompareHosts(IF Empty THEN {} ELSE settings)

_run_dns == IF Empty THEN "FAIL" ELSE CompareHosts(settings \ {Absent})

(* The enabled slots of FortiAnalyzer; one expected server is enough.      *)
_run_log_faz ==
    LET enabled == {slot.server : slot \in {s \in settings : s.status}} \ {Absent} IN
    IF Empty \/ ~ \E s \in settings : s.status THEN "FAIL"
    ELSE IF expected = {} THEN "CONFIG_MISSING"
    ELSE IF \E e \in expected : Found(e, enabled) THEN "PASS"
    ELSE IF enabled = {} THEN "FAIL" ELSE "WARN"

AdminAccounts == IF Empty THEN {} ELSE settings

_run_trusted_hosts == Failing(\E a \in AdminAccounts : a.trusthost \subseteq {"unrestricted"})

_run_default_admin == Failing(\E a \in AdminAccounts : a.builtin /\ a.status)

_run_admin_mfa ==
    IF ~connected THEN "CONFIG_MISSING" ELSE Failing(\E a \in AdminAccounts : ~a.two_factor)

_run_idle_timeout ==
    OfField(Absent \in {settings, expected}, settings > expected)

(* A threshold or a length of 0 counts as a missing field.                 *)
_run_lockout_threshold ==
    OfField(settings = 0 \/ Absent \in {settings, expected}, settings > expected)

_run_password_length ==
    OfField(settings = 0 \/ Absent \in {settings, expected}, settings < expected)

_run_log_disk == OfField(FALSE, ~settings)

(* Severities are numbered from emergency, 0, to debug.                    *)
_run_log_severity ==
    OfField(Absent \in {settings, expected}, settings > expected)

(* Without the system information SNMP counts as enabled.                  *)
_run_snmp_version ==
    LET enabled == NotRead("snmp_sysinfo") \/ settings.status
        active  == IF NotRead("snmp_community") THEN {} ELSE {c \in settings.communities : c}
    IN  Failing(enabled /\ active # {})

_run_snmp_readonly == Failing(~Empty /\ \E write \in settings : write)

_run_tls_version ==
    OfField(settings.versions = {} /\ settings.min = Absent,
            {"weak"} \cap (settings.versions \cup {settings.min}) # {})

_run_ssh_ciphers ==
    OfField(settings.enc = {} /\ settings.mac = {}, "weak" \in settings.enc \cup settings.mac)

(* Versions compare as tuples: a missing component is below any number.    *)
_parse_version_less(v, w) ==
    \E i \in 1..Len(w) :
        /\ i <= Len(v) + 1
        /\ \A j \in 1..(i - 1) : v[j] = w[j]
        /\ i <= Len(v) => v[i] < w[i]

_run_firmware_version ==
    IF Empty \/ Absent \in {settings, expected} THEN "CONFIG_MISSING"
    ELSE Failing(_parse_version_less(settings, expected))

_run_ha_sync ==
    IF Empty THEN "CONFIG_MISSING"
    ELSE IF settings.standalone THEN "INFO" ELSE Failing(FALSE \in settings.members)

_run_hostname_changed == OfField(settings = Absent, settings = "default")

_run_admin_port_nondefault ==
    IF Empty \/ settings = {Absent} THEN "CONFIG_MISSING"
    ELSE IF "default" \in settings THEN "WARN" ELSE "PASS"

_run_prelogin_banner == OfField(FALSE, ~settings)

_run_timezone_set == IF Empty \/ settings = Absent THEN "CONFIG_MISSING" ELSE "PASS"

Phase1 == IF NotRead("ipsec_phase1") THEN {} ELSE settings.phase1
Phase2 == IF NotRead("ipsec_phase2") THEN {} ELSE settings.phase2

_run_vpn_weak_crypto ==
    IF Phase1 \cup Phase2 = {} THEN "INFO"
    ELSE Failing(\/ \E t \in Phase1 : "weak" \in t.proposal \cup t.dhgrp
                 \/ \E t \in Phase2 : "weak" \in t.proposal)

_run_vpn_pfs ==
    IF Phase2 = {} THEN "INFO" ELSE IF \E t \in Phase2 : ~t.pfs THEN "WARN" ELSE "PASS"

_run_vpn_ike_version ==
    IF Phase1 = {} THEN "INFO"
    ELSE IF \E t \in Phase1 : t.ike = 1 /\ t.aggressive THEN "FAIL"
    ELSE IF \E t \in Phase1 : t.ike = 1 THEN "WARN" ELSE "PASS"

(* The registry of checks.                                                 *)
CHECKS ==
    CASE check = "interface_protocols"   -> _run_interface_protocols
      [] check = "ntp_config"            -> _run_ntp_config
      [] check = "syslog_config"         -> _run_syslog_config
      [] check = "trusted_hosts"         -> _run_trusted_hosts
      [] check = "default_admin"         -> _run_default_admin
      [] check = "admin_mfa"             -> _run_admin_mfa
      [] check = "idle_timeout"          -> _run_idle_timeout
      [] check = "lockout_threshold"     -> _run_lockout_threshold
      [] check = "password_length"       -> _run_password_length
      [] check = "log_disk"              -> _run_log_disk
      [] check = "log_severity"          -> _run_log_severity
      [] check = "log_faz"               -> _run_log_faz
      [] check = "dns_servers"           -> _run_dns
      [] check = "snmp_version"          -> _run_snmp_version
      [] check = "snmp_readonly"         -> _run_snmp_readonly
      [] check = "tls_version"           -> _run_tls_version
      [] check = "ssh_ciphers"           -> _run_ssh_ciphers
      [] check = "firmware_version"      -> _run_firmware_version
      [] check = "ha_sync"               -> _run_ha_sync
      [] check = "hostname_changed"      -> _run_hostname_changed
      [] check = "admin_port_nondefault" -> _run_admin_port_nondefault
      [] check = "prelogin_banner"       -> _run_prelogin_banner
      [] check = "timezone_set"          -> _run_timezone_set
      [] check = "vpn_weak_crypto"       -> _run_vpn_weak_crypto
      [] check = "vpn_pfs"               -> _run_vpn_pfs
      [] check = "vpn_ike_version"       -> _run_vpn_ike_version

-----------------------------------------------------------------------------
(* Reviews                                                                 *)

(* The hosts a check compares.                                             *)
Compared ==
    CASE check = "ntp_config"                       -> expected \cup settings.ntpserver
      [] check \in {"syslog_config", "dns_servers"} -> expected \cup (settings \ {Absent})
      [] check = "log_faz"                          ->
            expected \cup ({s.server : s \in settings} \ {Absent})
      [] OTHER                                      -> {}

ReviewInit ==
    /\ check \in CheckKey
    /\ settings \in SettingsOf[check]
    /\ expected \in ExpectedOf[check]
    /\ unread = {}
    /\ connected = TRUE
    /\ dns \in [Host -> Answers]
    /\ \A h \in Host \ Name : dns[h] = {h}
    /\ \A h \in Name \ Compared : dns[h] = {}
    /\ resolved = [h \in Host |-> Unresolved]
    /\ answered = dns
    /\ verdict = "idle"

(* The blobs the check needs.  One that fails arrives empty; bulk runs     *)
(* that get no connection go on without data.                              *)
_fetch_device_data ==
    /\ verdict # "fetched"
    /\ unread' \in SUBSET data_keys[check]
    /\ connected' \in BOOLEAN
    /\ verdict' = "fetched"
    /\ UNCHANGED <<check, settings, expected, dns, resolved, answered>>

(* The hosts that were resolved, some of those compared, enter the cache.  *)
review_checks ==
    /\ verdict = "fetched"
    /\ verdict' = CHECKS
    /\ \E asked \in SUBSET Compared :
          resolved' = [h \in Host |-> IF h \in asked THEN _resolve_host(h) ELSE resolved[h]]
    /\ UNCHANGED <<check, settings, expected, unread, connected, dns, answered>>

(* A name resolves to something else, or stops resolving.                  *)
DnsChange(h) ==
    /\ verdict = "fetched"
    /\ h \in Compared
    /\ dns' \in [Host -> Answers]
    /\ \A g \in Host \ {h} : dns'[g] = dns[g]
    /\ answered' = [answered EXCEPT ![h] = @ \cup dns'[h]]
    /\ UNCHANGED <<check, settings, expected, unread, connected, resolved, verdict>>

ReviewNext ==
    \/ _fetch_device_data
    \/ review_checks
    \/ \E h \in Name : DnsChange(h)

ReviewSpec == ReviewInit /\ [][ReviewNext]_reviewVars

-----------------------------------------------------------------------------
(* Properties                                                              *)

(* What each check promises of the settings, given when two servers count  *)
(* as the same.                                                            *)
Compliant(Same(_, _)) ==
    LET Covered(servers) == \A e \in expected : \E s \in servers : Same(e, s)
        NoneOf(weak, set) == weak \cap set = {}
    IN
    CASE check = "interface_protocols" ->
            \A i \in settings : i.ip => NoneOf(InsecureProtocol, i.allowaccess)
      [] check = "ntp_config"        -> settings.ntpsync /\ Covered(settings.ntpserver)
      [] check = "syslog_config"     -> Covered(settings)
      [] check = "dns_servers"       -> Covered(settings \ {Absent})
      [] check = "log_faz"           ->
            \E s \in settings : /\ s.status /\ s.server # Absent
                                /\ \E e \in expected : Same(e, s.server)
      [] check = "trusted_hosts"     -> \A a \in settings : "restricted" \in a.trusthost
      [] check = "default_admin"     -> ~ \E a \in settings : a.builtin /\ a.status
      [] check = "admin_mfa"         -> \A a \in settings : a.two_factor
      [] check \in {"idle_timeout", "lockout_threshold"} -> settings \in 0..expected
      [] check = "password_length"   -> expected \in 0..settings
      [] check \in {"log_disk", "prelogin_banner"} -> settings
      [] check = "log_severity"      -> settings >= expected
      [] check = "snmp_version"      -> settings.status => TRUE \notin settings.communities
      [] check = "snmp_readonly"     -> TRUE \notin settings
      [] check = "tls_version"       -> "weak" \notin settings.versions /\ settings.min # "weak"
      [] check = "ssh_ciphers"       -> NoneOf({"weak"}, settings.enc) /\ NoneOf({"weak"}, settings.mac)
      [] check = "firmware_version"  ->
            LET Part(v, i) == IF i \in DOMAIN v THEN v[i] + 1 ELSE 0
            IN  \A i \in 1..(Len(settings) + Len(expected)) :
                  (\A j \in 1..(i - 1) : Part(settings, j) = Part(expected, j))
                    => Part(settings, i) >= Part(expected, i)
      [] check = "ha_sync"           -> settings.standalone \/ settings.members \subseteq {TRUE}
      [] check = "hostname_changed"  -> settings # "default"
      [] check = "admin_port_nondefault" -> "default" \notin settings
      [] check = "timezone_set"      -> settings # Absent
      [] check = "vpn_weak_crypto"   ->
            /\ \A t \in settings.phase1 : NoneOf({"weak"}, t.proposal) /\ NoneOf({"weak"}, t.dhgrp)
            /\ \A t \in settings.phase2 : NoneOf({"weak"}, t.proposal)
      [] check = "vpn_pfs"           -> \A t \in settings.phase2 : t.pfs
      [] check = "vpn_ike_version"   -> \A t \in settings.phase1 : t.ike = 2

SameOnce(e, c) == e = c \/ answered[e] \cap answered[c] # {}
SameNow(e, c)  == e = c \/ dns[e] \cap dns[c] # {}

(* The checks that do not tell an unread blob from an empty list.          *)
TakesUnreadForNone ==
    {"trusted_hosts", "default_admin", "admin_mfa", "snmp_version", "snmp_readonly",
     "vpn_weak_crypto"}

(* A PASS means that the blobs were read and that the device is compliant. *)
(* Servers given by different names shared an address at some time, since  *)
(* resolutions are cached for ever.  The checks of lists take an unread    *)
(* list for an empty one, and log_severity compares the wrong way round.   *)
PassMeansCompliant ==
    verdict = "PASS" /\ check # "log_severity" =>
        \/ ~Empty /\ Compliant(SameOnce)
        \/ Empty /\ check \in TakesUnreadForNone

(* A finding on settings that were read, with resolutions that are not out *)
(* of date, is one of a device that is not compliant.                      *)
FindingsAreReal ==
    /\ verdict \in {"FAIL", "WARN", "INSECURE"}
    /\ check # "log_severity"
    /\ ~Empty
    /\ \A h \in Compared : resolved[h] \in {Unresolved, dns[h]}
    => ~Compliant(SameNow)

(* Neither a PASS nor a finding of any check is wrong.                      *)
VerdictsAreRight == PassMeansCompliant /\ FindingsAreReal

(* What the registry says of the severity check: a PASS captures at least  *)
(* the expected level.                                                     *)
SeverityCaptured ==
    check = "log_severity" /\ verdict = "PASS" => Compliant(SameNow)
=============================================================================
