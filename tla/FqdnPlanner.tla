------------------------------- MODULE FqdnPlanner -------------------------------
(***************************************************************************)
(* The planner of FQDN allowlists (plan_fqdn_change in planner/engine.py,  *)
(* search_fqdn_rules, FQDNCatalog and the intake of rows): for each        *)
(* firewall of a request it searches the rules that reach the names        *)
(* already, and writes address objects, one destination group and one rule *)
(* for the rest.  The engineer pastes the CLI of the plans one by one.     *)
(*                                                                         *)
(* The firewalls share one ADOM with its objects, groups and packages.     *)
(* Interfaces, sources and the place of the new rule (always the end) play *)
(* no part in the search and are left out.                                 *)
(***************************************************************************)
EXTENDS Integers, Sequences, FiniteSets

CONSTANTS
    Firewall,       \* well-formed DEVICE:ADOM specs
    BadSpec,        \* a spec that is not
    Package,        \* policy packages of the ADOM
    Scope,          \* Scope[p]: the firewalls in its installation scope, {} for all
    Installed,      \* Installed[f]: the packages FortiManager has installed, root first
    NoPackage,      \* no package could be determined
    Fqdn,           \* names of hosts, wildcards included
    NotAName,       \* an empty or illegal hostname in a row
    BaseName,       \* BaseName[f]: the object name that an FQDN is cut down to
    NoFqdn,         \* value of an address object of another type
    InitialObjects, \* name of each address object -> its FQDN or NoFqdn
    InitialGroups,  \* name of each group -> its members
    AllServices,    \* the service ALL
    AllowRule,      \* the rules admins write: accept, enabled, dst, svc
    Upload,         \* requests: group, named (is the source no address?), rows
    FqdnFault,      \* what can be read: catalog, lost packages, snapshot, installed
    MaxRules        \* bound: rules in all when the next one is written or planned

VARIABLES
    objects,    \* address objects, by name
    groups,     \* address groups, by name
    rules,      \* rules[p]: the rules of a package
    request,    \* the entries of the request that was planned last
    per_firewall,  \* its plan for each spec
    applied,    \* history: the firewalls whose plan was implemented
    exact       \* history: complete data, no names taken, nothing changed since

fqdnVars == <<objects, groups, rules, request, per_firewall, applied, exact>>

(* The n-th name tried for the object of an FQDN: the first is without a   *)
(* suffix.  Those an object can get, see ObjectNames.                      *)
NameOf(f, n) == IF n = 1 THEN BaseName[f] ELSE <<BaseName[f], n>>
ObjectName == {NameOf(f, n) : f \in Fqdn, n \in UNION {1..(Len(u.rows) + 1) : u \in Upload}}

(* Addresses and groups share a namespace in FortiManager, and the package *)
(* installed on a firewall has it in its installation scope.               *)
ASSUME FqdnAssumption ==
    /\ BadSpec \notin Firewall /\ NoPackage \notin Package /\ NotAName \notin Fqdn /\ NoFqdn \notin Fqdn
    /\ \A f \in Firewall : Installed[f] \in Seq({p \in Package : Scope[p] = {} \/ f \in Scope[p]})
    /\ IsFiniteSet(DOMAIN InitialGroups)
    /\ \A u \in Upload :
          /\ u.rows \in Seq([fqdn : Fqdn \cup {NotAName}, protocol : STRING, ports : SUBSET Nat])
          /\ u.group \notin ObjectName \cup DOMAIN InitialObjects

(* The elements of a sequence that are in T, in their order.               *)
Kept(s, T) ==
    LET kept[i \in 0..Len(s)] ==
          IF i = 0 THEN <<>> ELSE IF s[i] \in T THEN Append(kept[i - 1], s[i]) ELSE kept[i - 1]
    IN  kept[Len(s)]

-----------------------------------------------------------------------------
(* FQDNCatalog: names that are not in it resolve to nothing.  A group that *)
(* contains itself is entered once.                                        *)

Objects == DOMAIN objects
Groups  == DOMAIN groups

(* The groups and objects below a name: one level per step, and no chain   *)
(* is longer than there are groups.                                        *)
Subtree(name) ==
    LET level[n \in 0..Cardinality(Groups)] ==
          IF n = 0 THEN {name}
          ELSE level[n - 1] \cup UNION {groups[g] : g \in level[n - 1] \cap (Groups \ Objects)}
    IN  level[Cardinality(Groups)]

fqdns_for_ref(name) == {objects[o] : o \in Subtree(name) \cap Objects} \ {NoFqdn}

NamesOf(f) == {o \in Objects : objects[o] = f}
exact_match_name(f) == CHOOSE o \in NamesOf(f) : TRUE

groups_containing_fqdn(f) ==
    IF NamesOf(f) = {} THEN {}
    ELSE {g \in Groups : exact_match_name(f) \in Subtree(g) \ {g}}

-----------------------------------------------------------------------------
(* search_fqdn_rules                                                       *)

package_targets_device(p, fw) == Scope[p] = {} \/ fw \in Scope[p]

device_pkgs(fw) == {p \in Package : package_targets_device(p, fw)}

Reached(rule) == UNION {fqdns_for_ref(d) : d \in rule.dst}

(* faults: can the catalogs be read, and which packages cannot?            *)
search_fqdn_rules(fw, fqdns, faults) ==
    LET read    == device_pkgs(fw) \ faults.lost
        covered == {f \in fqdns : \E p \in read : \E r \in rules[p] : r.enabled /\ r.accept /\ f \in Reached(r)}
        common  == {g \in Groups : \A f \in covered : g \in groups_containing_fqdn(f)}
    IN  IF ~faults.catalog THEN [covered |-> {}, degraded |-> TRUE, partial |-> {}]
        ELSE [covered  |-> covered,
              degraded |-> device_pkgs(fw) \cap faults.lost # {},
              partial  |-> IF covered \in {{}, fqdns} \/ common = {} THEN {} ELSE {CHOOSE g \in common : TRUE}]

-----------------------------------------------------------------------------
(* parse_fqdn_rows: rows without a usable hostname or port are skipped, a  *)
(* protocol that is unknown means TCP.                                     *)

Entry(row) ==
    [fqdn |-> row.fqdn,
     svc  |-> {<<IF row.protocol \in {"TCP", "UDP"} THEN row.protocol ELSE "TCP", p>> : p \in row.ports}]

parse_fqdn_rows(rows) ==
    LET usable == {row \in {rows[i] : i \in DOMAIN rows} : row.fqdn # NotAName /\ row.ports # {}}
        kept   == Kept(rows, usable)
    IN  [i \in DOMAIN kept |-> Entry(kept[i])]

-----------------------------------------------------------------------------
(* Objects of a plan.                                                      *)

Fqdns(entries) == {entries[i].fqdn : i \in DOMAIN entries}
Services(entries) == UNION {entries[i].svc : i \in DOMAIN entries}

(* One object per entry, in their order; a name that an earlier one has    *)
(* taken gets the next free number.                                        *)
FreeName(f, taken) ==
    LET free == {n \in 1..(Cardinality(taken) + 2) : NameOf(f, n) \notin taken}
    IN  NameOf(f, CHOOSE n \in free : \A m \in free : n <= m)

ObjectNames(entries) ==
    LET names[i \in 0..Len(entries)] ==
          IF i = 0 THEN <<>>
          ELSE LET seen_names == {names[i - 1][j] : j \in DOMAIN names[i - 1]}
               IN  Append(names[i - 1], FreeName(entries[i].fqdn, seen_names))
    IN  names[Len(entries)]

proposed_objects(entries) ==
    {[name |-> ObjectNames(entries)[i], value |-> entries[i].fqdn] : i \in DOMAIN entries}

(* Mutant of all_member_names: the group has the new objects only.         *)
all_member_names_new(uncovered, covered) == {o.name : o \in proposed_objects(uncovered)}

all_member_names(uncovered, covered) ==
    {exact_match_name(f) : f \in covered} \cup {o.name : o \in proposed_objects(uncovered)}

(* The package installed on the firewall, else the first in its scope.     *)
target_package(fw, faults) ==
    LET inst == IF faults.installed THEN Installed[fw] ELSE <<>>
    IN  IF inst # <<>> THEN inst[1]
        ELSE IF device_pkgs(fw) = {} THEN NoPackage ELSE CHOOSE p \in device_pkgs(fw) : TRUE

-----------------------------------------------------------------------------
(* _plan_fqdn_firewall                                                     *)

Without(verdict, degraded) ==
    [verdict |-> verdict, coverage |-> "n/a", degraded |-> degraded, objs |-> {}, members |-> {},
     svc |-> {}, package |-> NoPackage, partial |-> {}]

NoPlanYet == [s \in {} |-> Without("error", TRUE)]

(* A destination behind an active block is planned as an exception.        *)
Verdict(zone, found) == IF zone = "BLOCKED" THEN "blocked_exception" ELSE found

_plan_fqdn_firewall(fw, entries, zone, faults) ==
    LET cov       == search_fqdn_rules(fw, Fqdns(entries), faults)
        degraded  == faults.snapshot = "degraded" \/ cov.degraded
        uncovered == Kept(entries, {e \in {entries[i] : i \in DOMAIN entries} : e.fqdn \notin cov.covered})
        coverage  == IF cov.covered = {} THEN "new_rule" ELSE "partial_coverage"
    IN  IF zone = "UNKNOWN" THEN Without("unknown_no_action", FALSE)
        ELSE IF faults.snapshot = "error" THEN Without("error", TRUE)
        ELSE IF ~degraded /\ uncovered = <<>>
        THEN [Without(Verdict(zone, "already_covered"), FALSE) EXCEPT !.coverage = "already_covered"]
        ELSE [verdict  |-> Verdict(zone, coverage),
              coverage |-> coverage,
              degraded |-> degraded,
              objs     |-> proposed_objects(uncovered),
              members  |-> all_member_names(uncovered, cov.covered),
              svc      |-> IF uncovered = <<>> THEN {AllServices} ELSE Services(uncovered),
              package  |-> target_package(fw, faults),
              partial  |-> IF coverage = "partial_coverage" THEN cov.partial ELSE {}]

(* A source that is no address is taken as allowed without asking for its  *)
(* zones.  When they cannot be asked for, nothing is planned.              *)
plan_fqdn_change(upload, entries, zone, faults) ==
    LET verdict == IF upload.named THEN "ALLOWED" ELSE zone
    IN  [spec \in Firewall \cup {BadSpec} |->
          IF spec = BadSpec THEN Without("error", TRUE)
          ELSE IF verdict = "unavailable" THEN Without("unknown_no_action", TRUE)
          ELSE _plan_fqdn_firewall(spec, entries, verdict, faults)]

-----------------------------------------------------------------------------
(* Actions                                                                 *)

FqdnInit ==
    /\ objects = InitialObjects /\ groups = InitialGroups
    /\ rules = [p \in Package |-> {}]
    /\ request = [group |-> NoFqdn, entries |-> <<>>]
    /\ per_firewall = NoPlanYet
    /\ applied = {} /\ exact = FALSE

AllRules == UNION {{p} \X rules[p] : p \in Package}

(* FortiManager: an admin adds a rule to a package.                        *)
AdminAllows(p, rule) ==
    /\ Cardinality(AllRules) < MaxRules   \* bound
    /\ rules' = [rules EXCEPT ![p] = @ \cup {rule}]
    /\ exact' = FALSE
    /\ UNCHANGED <<objects, groups, request, per_firewall, applied>>

(* The request is refused when no row is usable.                           *)
rr_ai_assist_fqdn(upload, zone, faults) ==
    LET entries == parse_fqdn_rows(upload.rows)
        plans   == plan_fqdn_change(upload, entries, zone, faults)
    IN  /\ Cardinality(AllRules) <= MaxRules   \* bound
        /\ entries # <<>>
        /\ request' = [group |-> upload.group, entries |-> entries]
        /\ per_firewall' = plans
        /\ applied' = {}
        /\ exact' = \A fw \in Firewall : ~plans[fw].degraded /\ \A o \in plans[fw].objs : o.name \notin Objects
        /\ UNCHANGED <<objects, groups, rules>>

Pending(fw) ==
    fw \in DOMAIN per_firewall \ applied /\ per_firewall[fw].package # NoPackage

(* The address blocks: edit creates an object or changes the one there is. *)
Written(objs) ==
    [n \in Objects \cup {o.name : o \in objs} |->
        IF \E o \in objs : o.name = n THEN (CHOOSE o \in objs : o.name = n).value ELSE objects[n]]

(* The engineer pastes objects, group and rule: set member replaces what   *)
(* the group had before.                                                   *)
ImplementFqdn(fw) ==
    LET pl == per_firewall[fw]
    IN  /\ Pending(fw)
        /\ objects' = Written(pl.objs)
        /\ groups' = [g \in Groups \cup {request.group} |-> IF g = request.group THEN pl.members ELSE groups[g]]
        /\ rules' = [rules EXCEPT ![pl.package] = @ \cup
                        {[accept |-> TRUE, enabled |-> TRUE, dst |-> {request.group}, svc |-> pl.svc]}]
        /\ applied' = applied \cup {fw}
        /\ UNCHANGED <<request, per_firewall, exact>>

(* Or the objects, and appends them to the group of the alternative.       *)
AppendFqdns(fw) ==
    LET pl == per_firewall[fw]
    IN  /\ Pending(fw) /\ pl.partial # {}
        /\ objects' = Written(pl.objs)
        /\ groups' = [g \in Groups |-> groups[g] \cup IF g \in pl.partial THEN {o.name : o \in pl.objs} ELSE {}]
        /\ exact' = FALSE
        /\ applied' = applied \cup {fw}
        /\ UNCHANGED <<rules, request, per_firewall>>

FqdnNext ==
    \/ \E p \in Package, rule \in AllowRule : AdminAllows(p, rule)
    \/ \E u \in Upload, z \in {"ALLOWED", "BLOCKED", "UNKNOWN", "unavailable"}, f \in FqdnFault :
         rr_ai_assist_fqdn(u, z, f)
    \/ \E fw \in Firewall : ImplementFqdn(fw) \/ AppendFqdns(fw)

FqdnSpec == FqdnInit /\ [][FqdnNext]_fqdnVars

-----------------------------------------------------------------------------
(* Properties                                                              *)

Fetched == [catalog |-> TRUE, lost |-> {}, snapshot |-> "ok", installed |-> TRUE]

(* "per-firewall coverage analysis plus proposed FortiGate CLI",           *)
(* features.md: once the plan of a firewall is implemented, whatever plans *)
(* of the same request for other firewalls of the ADOM are implemented     *)
(* before or after it, a new search finds every name of the request        *)
(* covered, and each of those it had not found before is accepted on its   *)
(* ports.                                                                  *)
ImplementedPlansCover ==
    exact => \A fw \in applied :
      /\ Fqdns(request.entries) \subseteq search_fqdn_rules(fw, Fqdns(request.entries), Fetched).covered
      /\ \A i \in DOMAIN request.entries :
           LET e == request.entries[i]
           IN  e.fqdn \in {o.value : o \in per_firewall[fw].objs} =>
                 \A s \in e.svc : \E p \in device_pkgs(fw) : \E r \in rules[p] :
                   r.accept /\ r.enabled /\ e.fqdn \in Reached(r) /\ s \in r.svc

-----------------------------------------------------------------------------
(* Deviations, see the README; no run states them.                         *)

(* A plan asks for the ports of its entries and no others: not when data   *)
(* is missing and every name was found in what could be read.              *)
OnlyRequestedServices ==
    \A fw \in DOMAIN per_firewall : AllServices \notin per_firewall[fw].svc

(* A name that was covered for a firewall stays so when plans are          *)
(* implemented: not when the group or an object of the plan replaces one   *)
(* of the same name.                                                       *)
CoverageIsKept ==
    [][\A fw \in Firewall :
         search_fqdn_rules(fw, Fqdn, Fetched).covered \subseteq search_fqdn_rules(fw, Fqdn, Fetched).covered']_fqdnVars
=============================================================================
