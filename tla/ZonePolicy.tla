------------------------------ MODULE ZonePolicy ------------------------------
(***************************************************************************)
(* The zone database (zone_db.py), its editor (zone_routes.py) and the     *)
(* verdict the change planner asks of it (planner/fetch.py, engine.py).    *)
(*                                                                         *)
(* Zones have subnets and parents, whose policies they inherit.  A verdict *)
(* for a source, a destination and services is derived from the policies   *)
(* between the zones that the endpoints overlap.  Every edit is a request  *)
(* that loads the file, changes its copy and saves all of it, without a    *)
(* lock.                                                                   *)
(***************************************************************************)
EXTENDS Integers, Sequences, FiniteSets

CONSTANTS
    Zone, Internet,     \* names; Internet is the catch-all
    Space,              \* IP addresses
    Public,             \* those that are globally routable
    Subnet,             \* blocks of addresses
    Wildcard,           \* the services any and all
    ServiceToken,       \* services by name, port or protocol/port
    _service_aliases,   \* the names a token stands for, itself included
    PolicyForm,         \* the policies admins write
    RestoredDb,         \* the databases admins upload
    InitialDb,
    ZoneAdmin,          \* requests that edit the database
    MaxZonePolicies, MaxSubnets,   \* bounds
    NoDb

VARIABLES
    db,      \* policy_db.json: zones, with subnets, parents, children, and policies
    copy     \* what each request has loaded, or NoDb

zoneVars == <<db, copy>>

AccessType == {"allow all", "block all", "block only", "allow only"}

ZoneRecord == [subnets : SUBSET SUBSET Space, parents : SUBSET Zone, children : SUBSET Zone]
Policy == [policy_set : STRING, from_zone : Zone, to_zone : Zone,
           access_type : AccessType, services : SUBSET (ServiceToken \cup {Wildcard})]

IsDatabase(d) ==
    /\ d \in [zones : {d.zones}, policies : Seq(Policy)]
    /\ DOMAIN d.zones \subseteq Zone /\ d.zones \in [DOMAIN d.zones -> ZoneRecord]

ASSUME ZoneAssumption ==
    /\ Internet \in Zone /\ IsFiniteSet(Zone) /\ Public \subseteq Space /\ Subnet \subseteq SUBSET Space
    /\ PolicyForm \subseteq Policy
    /\ \A d \in {InitialDb} \cup RestoredDb : IsDatabase(d)

-----------------------------------------------------------------------------
(* Zones and policies of a flow.  An endpoint is a set of addresses.       *)

zones_for_endpoint(zones, endpoint) ==
    LET hit == {z \in DOMAIN zones : \E n \in zones[z].subnets : n \cap endpoint # {}}
    IN  IF hit = {} /\ endpoint \subseteq Public THEN {Internet} ELSE hit

Parents(zones, z) == IF z \in DOMAIN zones THEN zones[z].parents ELSE {}

(* Mutant of ancestor_zones: only the parents of the zone.                 *)
ancestor_zones_parents(zones, zone) ==
    {zone} \cup Parents(zones, zone)

(* A queue of zones to visit.  Parents may be cyclic or unknown.  A zone   *)
(* that was visited leaves the queue without being visited again.          *)
ZoneVisit == {call \in [queue : SUBSET Zone, visited : SUBSET Zone] : call.queue \cap call.visited = {}}

VisitOne(zones, call) ==
    LET z    == CHOOSE q \in call.queue : TRUE
        seen == call.visited \cup {z}
    IN  [queue |-> (call.queue \cup Parents(zones, z)) \ seen, visited |-> seen]

Visits(zones) ==
    LET visit[call \in ZoneVisit] ==
          IF call.queue = {} THEN call.visited ELSE visit[VisitOne(zones, call)]
    IN  visit

ancestor_zones(zones, zone) == Visits(zones)[[queue |-> {zone}, visited |-> {}]]

(* Of the policies of one set between the same zones and of the same type  *)
(* only the first is kept.                                                 *)
DedupKey(p) == <<p.policy_set, p.from_zone, p.to_zone, p.access_type>>

find_matching_policies(zones, policies, src_zones, dst_zones) ==
    LET Candidates(names) == UNION {ancestor_zones(zones, z) : z \in names}
        applies == {i \in DOMAIN policies : /\ policies[i].from_zone \in Candidates(src_zones)
                                            /\ policies[i].to_zone \in Candidates(dst_zones)}
    IN  {policies[i] : i \in {j \in applies : \A k \in applies : k < j => DedupKey(policies[k]) # DedupKey(policies[j])}}

NamesService(p, services) ==
    Wildcard \in p.services \/ \E t \in services : _service_aliases[t] \cap p.services # {}

(* Mutant of evaluate: allow all is looked at before block only.           *)
evaluate_allow_first(policies, services) ==
    IF policies = {} THEN "UNKNOWN"
    ELSE IF \E p \in policies : p.access_type = "allow all" THEN "ALLOWED"
    ELSE "BLOCKED"

(* services is empty when none was asked for: then block only and allow    *)
(* only policies are not looked at.                                        *)
evaluate(policies, services) ==
    LET Some(type)  == \E p \in policies : p.access_type = type
        Named(type) == services # {} /\ \E p \in policies : p.access_type = type /\ NamesService(p, services)
    IN  CASE policies = {} -> "UNKNOWN"
          [] Some("block all") \/ (policies # {} /\ Named("block only")) -> "BLOCKED"
          [] OTHER -> IF \/ Named("allow only") \/ Some("allow all")
                         \/ services = {} \/ ~Some("allow only")
                      THEN "ALLOWED" ELSE "BLOCKED"

run_query(d, src, dst, services) ==
    LET src_zones == zones_for_endpoint(d.zones, src)
        dst_zones == zones_for_endpoint(d.zones, dst)
    IN  [src_zones |-> src_zones, dst_zones |-> dst_zones,
         verdict   |-> evaluate(find_matching_policies(d.zones, d.policies, src_zones, dst_zones), services)]

-----------------------------------------------------------------------------
(* The planner's verdict                                                   *)

(* An endpoint without a zone is in the catch-all zone, if there is one.   *)
_apply_internet_default(d, r, service) ==
    LET Default(zones) == IF zones = {} THEN {Internet} ELSE zones
    IN  IF Internet \notin DOMAIN d.zones \/ r.verdict # "UNKNOWN" THEN r.verdict
        ELSE evaluate(find_matching_policies(d.zones, d.policies, Default(r.src_zones), Default(r.dst_zones)),
                      {service})

fetch_zone_verdict(d, src, dst, service) ==
    LET r == run_query(d, src, dst, {service})
    IN  IF r.src_zones = {} \/ r.dst_zones = {} THEN _apply_internet_default(d, r, service) ELSE r.verdict

(* One verdict for all combinations: UNKNOWN if any is, and an error if    *)
(* the others differ.                                                      *)
_consolidated_zone_verdict(d, srcs, dsts, services) ==
    LET verdicts == {fetch_zone_verdict(d, c[1], c[2], c[3]) : c \in srcs \X dsts \X services}
    IN  IF "UNKNOWN" \in verdicts THEN "UNKNOWN"
        ELSE IF {"ALLOWED", "BLOCKED"} \subseteq verdicts THEN "error"
        ELSE CHOOSE v \in verdicts : TRUE

-----------------------------------------------------------------------------
(* The editor                                                              *)

ZoneInit ==
    /\ db = InitialDb
    /\ copy = [a \in ZoneAdmin |-> NoDb]

load_db(a) ==
    /\ copy[a] = NoDb
    /\ copy' = [copy EXCEPT ![a] = db]
    /\ UNCHANGED db

(* save_db, and the end of the request.                                    *)
save_db(a, new) ==
    /\ db' = new
    /\ copy' = [copy EXCEPT ![a] = NoDb]

(* An error (unknown name, duplicate, bad index) ends the request.         *)
Refuse(a) == copy' = [copy EXCEPT ![a] = NoDb] /\ UNCHANGED db

NewZone == [subnets |-> {}, parents |-> {}, children |-> {}]

zone_add(a, z) ==
    /\ copy[a] # NoDb
    /\ IF z \in DOMAIN copy[a].zones THEN Refuse(a)
       ELSE save_db(a, [copy[a] EXCEPT !.zones = [x \in {z} \cup DOMAIN @ |->
                                                    IF x = z THEN NewZone ELSE @[x]]])

Unrelated(record, z) == [record EXCEPT !.parents = @ \ {z}, !.children = @ \ {z}]

zone_remove(a, z) ==
    /\ copy[a] # NoDb
    /\ IF z \notin DOMAIN copy[a].zones THEN Refuse(a)
       ELSE save_db(a, [copy[a] EXCEPT !.zones = [x \in (DOMAIN @) \ {z} |-> Unrelated(@[x], z)]])

Subnets(zones) == UNION {{z} \X zones[z].subnets : z \in DOMAIN zones}

subnet_add(a, z, n) ==
    /\ copy[a] # NoDb /\ Cardinality(Subnets(copy[a].zones)) < MaxSubnets
    /\ IF z \notin DOMAIN copy[a].zones \/ n \in copy[a].zones[z].subnets THEN Refuse(a)
       ELSE save_db(a, [copy[a] EXCEPT !.zones[z].subnets = @ \cup {n}])

subnet_remove(a, z, n) ==
    /\ copy[a] # NoDb
    /\ IF z \notin DOMAIN copy[a].zones \/ n \notin copy[a].zones[z].subnets THEN Refuse(a)
       ELSE save_db(a, [copy[a] EXCEPT !.zones[z].subnets = @ \ {n}])

Restricts(p) == p.access_type \in {"block only", "allow only"}

policy_add(a, p) ==
    /\ copy[a] # NoDb /\ Len(copy[a].policies) < MaxZonePolicies
    /\ IF Restricts(p) /\ p.services = {} THEN Refuse(a)
       ELSE save_db(a, [copy[a] EXCEPT !.policies = Append(@, p)])

(* The index is that of the list the browser shows.                        *)
policy_remove(a, i) ==
    /\ copy[a] # NoDb
    /\ IF i \notin DOMAIN copy[a].policies THEN Refuse(a)
       ELSE save_db(a, [copy[a] EXCEPT !.policies = SubSeq(@, 1, i - 1) \o SubSeq(@, i + 1, Len(@))])

(* The services and the type of a policy can be modified one by one, and   *)
(* are not validated together.                                             *)
policy_modify(a, i, p) ==
    /\ copy[a] # NoDb
    /\ IF i \notin DOMAIN copy[a].policies THEN Refuse(a)
       ELSE \/ save_db(a, [copy[a] EXCEPT !.policies[i].services = p.services])
            \/ save_db(a, [copy[a] EXCEPT !.policies[i].access_type = p.access_type])

(* A restore replaces the file; validate_db only warns of names that are   *)
(* not zones.                                                              *)
api_restore(a) ==
    /\ copy[a] = NoDb
    /\ \E d \in RestoredDb : save_db(a, d)

ZoneEdit(a) ==
    \/ load_db(a)
    \/ \E z \in Zone : zone_add(a, z) \/ zone_remove(a, z)
    \/ \E z \in Zone, n \in Subnet : subnet_add(a, z, n) \/ subnet_remove(a, z, n)
    \/ \E p \in PolicyForm : policy_add(a, p)
    \/ \E i \in 1..MaxZonePolicies : policy_remove(a, i)
    \/ \E i \in 1..MaxZonePolicies, p \in PolicyForm : policy_modify(a, i, p)
    \/ api_restore(a)

ZoneNext == \E a \in ZoneAdmin : ZoneEdit(a)

ZoneSpec == ZoneInit /\ [][ZoneNext]_zoneVars

-----------------------------------------------------------------------------
(* Properties                                                              *)

(* The zones above a zone, itself included: in every set of zones that has *)
(* it and the parents of its own.                                          *)
Above(zones, z) ==
    {x \in Zone : \A S \in SUBSET Zone : z \in S /\ (\A y \in S : Parents(zones, y) \subseteq S) => x \in S}

(* "a zone can inherit policies from its parent zones", help.js: a policy  *)
(* of any zone above both ends of a flow has its say, as itself or through *)
(* an earlier one of its set, zones and type, whatever cycles the parents  *)
(* form and whichever parents are missing.                                 *)
InheritedPoliciesApply ==
    \A x, y \in Zone :
      {DedupKey(p) : p \in find_matching_policies(db.zones, db.policies, {x}, {y})}
        = {DedupKey(db.policies[i]) : i \in {j \in DOMAIN db.policies :
              db.policies[j].from_zone \in Above(db.zones, x) /\ db.policies[j].to_zone \in Above(db.zones, y)}}

Zoned(x) == \E z \in DOMAIN db.zones : \E n \in db.zones[z].subnets : x \in n

BlockedBetween(x, y, service) ==
    \E p \in find_matching_policies(db.zones, db.policies, zones_for_endpoint(db.zones, {x}),
                                    zones_for_endpoint(db.zones, {y})) :
      \/ p.access_type = "block all"
      \/ p.access_type = "block only" /\ NamesService(p, {service})

(* A request is ALLOWED as a whole only if no policy that blocks is in the *)
(* way of any of it: of no single address of a wide source or destination  *)
(* that lies in a zone, and no service.                                    *)
AllowedMeansNoBlock ==
    \A s, t \in Subnet, services \in (SUBSET ServiceToken) \ {{}} :
      LET dsts == {t, s}
      IN  _consolidated_zone_verdict(db, {s}, dsts, services) = "ALLOWED" =>
            \A x \in s, d \in dsts, v \in services : \A y \in d :
              Zoned(x) /\ Zoned(y) => ~BlockedBetween(x, y, v)

(* "block only: Denies traffic only if the service matches the list",      *)
(* features.md: the services of every block only policy between the zones  *)
(* of a flow are denied.                                                   *)
BlockOnlyBinds ==
    \A i \in DOMAIN db.policies, x, y \in Space, v \in ServiceToken :
      LET p == db.policies[i]
      IN  /\ p.access_type = "block only" /\ NamesService(p, {v})
          /\ p.from_zone \in zones_for_endpoint(db.zones, {x})
          /\ p.to_zone \in zones_for_endpoint(db.zones, {y})
          => run_query(db, {x}, {y}, {v}).verdict = "BLOCKED"
=============================================================================
