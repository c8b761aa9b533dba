----------------------------- MODULE ChangePlanner -----------------------------
(***************************************************************************)
(* The change planner (planner/engine.py, insertion.py, matching.py): from *)
(* a request for sources, destinations and services it decides whether     *)
(* the rules of a firewall already cover it, and if not, which objects and *)
(* which rule to add, where, and whether an existing rule could be         *)
(* extended instead.  The engineer applies the CLI of one plan.            *)
(*                                                                         *)
(* The names of a policy are read through catalogs, and interfaces through *)
(* the tables of the firewall.  Each of these calls answers an error with  *)
(* an empty list (fmg_client.py), which the planner takes for the whole    *)
(* answer: a snapshot is what it got, and Complete the one without errors. *)
(* Even that knows only part of a group whose members cannot all be        *)
(* resolved, and of a service neither its source ports nor protocols       *)
(* without ports.  What the firewall does with a packet is the reference.  *)
(* One policy package is installed on the firewall.                        *)
(***************************************************************************)
EXTENDS Integers, Sequences, FiniteSets

CONSTANTS
    AddrName,      \* names of address objects and groups
    AddrGroup,     \* the groups among them
    AddrNets,      \* the networks a catalog gives for a name, or Unknown
    AddrMeans,     \* the addresses a name stands for on the firewall
    Inside,        \* Inside[g]: the groups that contain group g, however deep
    SvcName,
    SvcRanges,     \* the port ranges a catalog gives for a service, or Unknown
    SvcMeans,      \* what a service stands for: pairs of a port and a source port
    AllAddr, AllSvc,  \* the names all and ALL
    Unknown,       \* None: the name cannot be resolved
    Host, Port,    \* addresses and ports
    SrcPort,       \* classes of source ports
    Connected,     \* subnets of the interfaces: records with net and name
    Routes,        \* the routing table, likewise
    NoIface,       \* interface that could not be resolved
    Snapshot,      \* what fetch_device_snapshot may return
    PlanShape,     \* the rules admins write
    Request,       \* requests: srcs, dsts (sets of networks), tokens
    MaxPolicies    \* bound

(* A rule names objects, or those that plans create.                       *)
AddrRef == AddrName \cup SUBSET Host
SvcRef  == SvcName \cup SUBSET Port
Interfaces == {e.name : e \in Connected \cup Routes} \cup UNION {p.srcintf \cup p.dstintf : p \in PlanShape}

PolicyRule ==
    [id : Nat, action : {"accept", "deny"}, enabled : BOOLEAN, always : BOOLEAN,
     src : SUBSET AddrRef, src_negate : BOOLEAN, dst : SUBSET AddrRef, dst_negate : BOOLEAN,
     svc : SUBSET SvcRef, srcintf : SUBSET Interfaces, dstintf : SUBSET Interfaces]

ASSUME PlannerAssumption ==
    /\ IsFiniteSet(Host) /\ IsFiniteSet(AddrName)
    /\ \A n \in SUBSET Host : {n} # Unknown /\ \A a \in AddrName : a # n
    /\ AddrGroup \subseteq AddrName /\ NoIface \notin AddrName /\ AllSvc \in SvcName
    /\ \A g \in AddrGroup : Inside[g] \subseteq AddrGroup
    /\ PlanShape \subseteq PolicyRule /\ \A e \in Connected \cup Routes : e.net \subseteq Host
    /\ \A req \in Request : /\ req \in [srcs : SUBSET SUBSET Host, dsts : SUBSET SUBSET Host, tokens : {req.tokens}]
                            /\ \A t \in req.tokens : t \in Seq(SUBSET Port) /\ t # <<>>

(* device: the device was found.  rules: the package was fetched, its      *)
(* fetch failed, or packages could not be listed.  scanned: packages could *)
(* be listed again for the blast radius.                                   *)
Complete ==
    [device |-> TRUE, rules |-> "fetched", connected |-> Connected, routes |-> Routes,
     nets |-> AddrNets, inside |-> Inside, ranges |-> SvcRanges, scanned |-> TRUE]

(* An address object has the networks it is read with; what a group lacks  *)
(* is left out.                                                            *)
ASSUME SnapshotAssumption ==
    /\ Complete \in Snapshot
    /\ \A s \in Snapshot :
         /\ s.connected \subseteq Connected /\ s.routes \subseteq Routes
         /\ \A a \in AddrName : s.nets[a] # Unknown => UNION s.nets[a] \subseteq AddrMeans[a]
         /\ \A g \in AddrGroup : s.inside[g] \subseteq Inside[g]

VARIABLES
    policies,   \* the package: a sequence of rules with ids
    appended,   \* networks appended to each group by plans
    plan,       \* the plan the engineer has, or NoPlan
    fresh,      \* history: has nothing changed since it was made?
    snapshot    \* what was read for it

plannerVars == <<policies, appended, plan, fresh, snapshot>>

NoPlan == [status |-> "none"]
End == 0

-----------------------------------------------------------------------------
(* Catalogs.  Objects that plans create are denoted by their addresses and *)
(* ports.  Plans append only to groups that are known, which makes those   *)
(* around them known: one that is Unknown still has not been read.         *)

Added(ref) == UNION {appended[g] : g \in {h \in AddrGroup : ref = h \/ ref \in snapshot.inside[h]}}

catalog_networks(ref) ==
    IF ref \notin AddrName THEN {ref}
    ELSE IF snapshot.nets[ref] = Unknown THEN Unknown ELSE snapshot.nets[ref] \cup Added(ref)

ranges_for_ref(ref) == IF ref \in SvcName THEN snapshot.ranges[ref] ELSE {ref}

Nets(refs) == UNION {catalog_networks(r) : r \in {q \in refs : catalog_networks(q) # Unknown}}
Addresses(refs) == UNION Nets(refs)
UnknownAddr(refs) == \E r \in refs : catalog_networks(r) = Unknown
Ranges(refs) == UNION {ranges_for_ref(r) : r \in {q \in refs : ranges_for_ref(q) # Unknown}}
UnknownSvc(refs) == \E r \in refs : ranges_for_ref(r) = Unknown

-----------------------------------------------------------------------------
(* PolicyMatcher: does a policy match a target, and all of it?             *)

Match(matched, full) == [matched |-> matched, full |-> full]

(* What is contained in the collapsed networks of all names is contained   *)
(* in their union, as targets are single blocks.  A negated field matches  *)
(* what is not in it.                                                      *)
_addr_dim(refs, negate, target) ==
    LET overlap   == target \cap Addresses(refs) # {}
        contained == target \subseteq Addresses(refs)
    IN  CASE negate /\ UnknownAddr(refs) -> Match(TRUE, FALSE)
          [] negate /\ ~UnknownAddr(refs) ->
               Match(IF Cardinality(target) > 1 THEN ~contained ELSE ~overlap, ~overlap)
          [] ~negate /\ contained -> Match(TRUE, TRUE)
          [] OTHER -> Match(overlap \/ UnknownAddr(refs), FALSE)

(* A requested range has to fit into one range of the policy.              *)
_svc_dim(refs, wanted) ==
    IF wanted # {} /\ \A w \in wanted : \E r \in Ranges(refs) : w \subseteq r
    THEN Match(TRUE, TRUE)
    ELSE Match((\E w \in wanted, r \in Ranges(refs) : w \cap r # {}) \/ UnknownSvc(refs), FALSE)

(* Mutant of matcher_evaluate: what overlaps counts as covered.            *)
evaluate_overlap(pol, s, d, wanted) ==
    LET src == _addr_dim(pol.src, pol.src_negate, s)
        dst == _addr_dim(pol.dst, pol.dst_negate, d)
        svc == _svc_dim(pol.svc, wanted)
    IN  Match(src.matched /\ dst.matched /\ svc.matched, src.matched /\ dst.matched /\ svc.full)

matcher_evaluate(pol, s, d, wanted) ==
    LET src == _addr_dim(pol.src, pol.src_negate, s)
        dst == _addr_dim(pol.dst, pol.dst_negate, d)
        svc == _svc_dim(pol.svc, wanted)
    IN  Match(src.matched /\ dst.matched /\ svc.matched, src.full /\ dst.full /\ svc.full
              /\ src.matched /\ dst.matched /\ svc.matched)

unknown_refs(pol) == UnknownAddr(pol.src) \/ UnknownAddr(pol.dst) \/ UnknownSvc(pol.svc)

-----------------------------------------------------------------------------
(* Interfaces: the most specific connected subnet that overlaps, else the  *)
(* most specific route.                                                    *)

MostSpecific(table, target) ==
    LET hit == {e \in table : e.net \cap target # {}}
    IN  IF hit = {} THEN NoIface
        ELSE (CHOOSE e \in hit : \A f \in hit : Cardinality(e.net) <= Cardinality(f.net)).name

_resolve_one(target) ==
    IF MostSpecific(snapshot.connected, target) # NoIface THEN MostSpecific(snapshot.connected, target)
    ELSE MostSpecific(snapshot.routes, target)

(* All members of a side have to agree.                                    *)
_resolve_side_interface(targets) ==
    LET distinct == {_resolve_one(t) : t \in targets} \ {NoIface}
    IN  IF Cardinality(distinct) = 1 THEN CHOOSE i \in distinct : TRUE ELSE NoIface

_intf_scoped(pol, src, dst) ==
    /\ src = NoIface \/ pol.srcintf = {} \/ src \in pol.srcintf
    /\ dst = NoIface \/ pol.dstintf = {} \/ dst \in pol.dstintf

-----------------------------------------------------------------------------
(* Requests                                                                *)

TokenRanges(token) == {token[i] : i \in DOMAIN token}
service_ranges(req) == UNION {TokenRanges(t) : t \in req.tokens}
Pairs(req) == req.srcs \X req.dsts

srcintf(req) == _resolve_side_interface(req.srcs)
dstintf(req) == _resolve_side_interface(req.dsts)
Scoped(pol, req) == _intf_scoped(pol, srcintf(req), dstintf(req))

Result(pol, req, p) == matcher_evaluate(pol, p[1], p[2], service_ranges(req))

conditions_ok(pol, req) ==
    /\ pol.action = "accept" /\ pol.enabled /\ pol.always
    /\ ~unknown_refs(pol) /\ Scoped(pol, req)

Covers(i, req, p) == conditions_ok(policies[i], req) /\ Result(policies[i], req, p).full

pair_covered(req, p) == \E i \in DOMAIN policies : Covers(i, req, p)

covering_rules(req) == {policies[i].id : i \in {j \in DOMAIN policies : \E p \in Pairs(req) : Covers(j, req, p)}}

-----------------------------------------------------------------------------
(* plan_insertion                                                          *)

ScopedEnabled(req) == {i \in DOMAIN policies : Scoped(policies[i], req) /\ policies[i].enabled}

(* Mutant of Frontier: only rules that cover a whole pair are respected.   *)
FrontierFull(req) ==
    LET hit == {i \in ScopedEnabled(req) : \E p \in Pairs(req) : Result(policies[i], req, p).full}
    IN  IF hit = {} THEN End ELSE CHOOSE i \in hit : \A j \in hit : i <= j

(* The first rule that could match any of the traffic.                     *)
Frontier(req) ==
    LET hit == {i \in ScopedEnabled(req) : \E p \in Pairs(req) : Result(policies[i], req, p).matched}
    IN  IF hit = {} THEN End ELSE CHOOSE i \in hit : \A j \in hit : i <= j

_is_catchall_deny(pol) ==
    pol.action = "deny" /\ pol.src \subseteq {AllAddr} /\ pol.dst \subseteq {AllAddr} /\ pol.svc \subseteq {AllSvc}

LastCatchAll(req) ==
    LET deny == {i \in DOMAIN policies : Scoped(policies[i], req) /\ _is_catchall_deny(policies[i])}
    IN  IF deny = {} THEN End ELSE CHOOSE i \in deny : \A j \in deny : j <= i

insert_before(req) == IF Frontier(req) # End THEN Frontier(req) ELSE LastCatchAll(req)

(* Mutant of _policy_within_candidate: the services are not compared.      *)
_policy_within_addresses(pol, req) ==
    /\ ~pol.src_negate /\ ~pol.dst_negate /\ ~unknown_refs(pol)
    /\ Nets(pol.src) # {} /\ \A n \in Nets(pol.src) : \E t \in req.srcs : n \subseteq t
    /\ Nets(pol.dst) # {} /\ \A n \in Nets(pol.dst) : \E t \in req.dsts : n \subseteq t

_policy_within_candidate(pol, req) ==
    /\ ~pol.src_negate /\ ~pol.dst_negate /\ ~unknown_refs(pol)
    /\ Nets(pol.src) # {} /\ \A n \in Nets(pol.src) : \E t \in req.srcs : n \subseteq t
    /\ Nets(pol.dst) # {} /\ \A n \in Nets(pol.dst) : \E t \in req.dsts : n \subseteq t
    /\ Ranges(pol.svc) # {}
    /\ \A r \in Ranges(pol.svc) : \E w \in service_ranges(req) : r \subseteq w

would_shadow(req) ==
    {policies[i].id : i \in {j \in ScopedEnabled(req) :
        /\ Frontier(req) # End /\ j >= Frontier(req)
        /\ _policy_within_candidate(policies[j], req)}}

-----------------------------------------------------------------------------
(* Objects: reuse one that is exactly the same, else create one            *)

_address_object_plan(target) ==
    LET same == {a \in AddrName \ AddrGroup : snapshot.nets[a] = {target}}
    IN  IF same = {} THEN target ELSE CHOOSE a \in same : TRUE

(* A service that is created has the first range of its token only.        *)
_service_object_plan(token) ==
    LET same == {s \in SvcName : snapshot.ranges[s] = TokenRanges(token)}
    IN  IF Port \in TokenRanges(token) THEN AllSvc
        ELSE IF same = {} THEN token[1] ELSE CHOOSE s \in same : TRUE

policy_cli(req) ==
    [action |-> "accept", enabled |-> TRUE, always |-> TRUE,
     src |-> {_address_object_plan(t) : t \in req.srcs}, src_negate |-> FALSE,
     dst |-> {_address_object_plan(t) : t \in req.dsts}, dst_negate |-> FALSE,
     svc |-> {_service_object_plan(t) : t \in req.tokens},
     srcintf |-> IF srcintf(req) = NoIface THEN {} ELSE {srcintf(req)},
     dstintf |-> IF dstintf(req) = NoIface THEN {} ELSE {dstintf(req)}, id |-> End]

-----------------------------------------------------------------------------
(* _group_append_alternative: a rule that lacks only addresses of one side *)

NoAlternative == [id |-> End]

Missing(pol, side, targets) ==
    {t \in targets : ~_addr_dim(pol[side], IF side = "src" THEN pol.src_negate ELSE pol.dst_negate, t).full}

Sides(req) == {[side |-> "src", negate |-> "src_negate", other |-> "dst", targets |-> req.srcs, others |-> req.dsts],
               [side |-> "dst", negate |-> "dst_negate", other |-> "src", targets |-> req.dsts, others |-> req.srcs]}

(* Mutant of Extends: the other side may lack addresses, too.              *)
ExtendsLoose(pol, req, s) ==
    /\ conditions_ok(pol, req)
    /\ \E p \in Pairs(req) : ~Result(pol, req, p).full
    /\ _svc_dim(pol.svc, service_ranges(req)).full
    /\ Missing(pol, s.side, s.targets) # {}
    /\ ~pol[s.negate]
    /\ pol[s.side] \cap AddrGroup # {} \/ pol[s.side] \notin {{}, {AllAddr}}

Extends(pol, req, s) ==
    /\ conditions_ok(pol, req)
    /\ \E p \in Pairs(req) : ~Result(pol, req, p).full
    /\ _svc_dim(pol.svc, service_ranges(req)).full
    /\ Missing(pol, s.side, s.targets) # {} /\ Missing(pol, s.other, s.others) = {}
    /\ ~pol[s.negate]
    /\ pol[s.side] \cap AddrGroup # {} \/ pol[s.side] \notin {{}, {AllAddr}}

(* Groups whose content changes with a group, and the rules that use them. *)
_group_blast_radius(group, id) ==
    {policies[i].id : i \in {j \in DOMAIN policies :
        /\ snapshot.scanned /\ policies[j].id # id
        /\ (policies[j].src \cup policies[j].dst) \cap ({group} \cup snapshot.inside[group]) # {}}}

Alternative(pol, req, s) ==
    LET groups == pol[s.side] \cap AddrGroup
        group  == IF groups = {} THEN NoIface ELSE CHOOSE g \in groups : TRUE
    IN  [id |-> pol.id, side |-> s.side, group |-> group,
         members |-> Missing(pol, s.side, s.targets),
         affected |-> IF groups = {} THEN {} ELSE _group_blast_radius(group, pol.id)]

(* The best candidate: specific rules first, few references on the other   *)
(* side, a rule's own list rather than a group, then the first found; the  *)
(* destination of a rule is looked at before its source.                   *)
Specific(pol, s) == Cardinality(pol[s.other] \ {AllAddr})
Rank(pol, s) == 2 * (IF Specific(pol, s) > 0 THEN Specific(pol, s) ELSE 50)
                + (IF pol[s.side] \cap AddrGroup # {} THEN 1 ELSE 0)

_group_append_alternative(req) ==
    LET found == {c \in (DOMAIN policies) \X Sides(req) : Extends(policies[c[1]], req, c[2])}
        R(c)     == Rank(policies[c[1]], c[2])
        Place(c) == 2 * c[1] + (IF c[2].side = "src" THEN 1 ELSE 0)
        best  == CHOOSE c \in found : \A o \in found : R(c) < R(o) \/ (R(c) = R(o) /\ Place(c) <= Place(o))
    IN  IF found = {} THEN NoAlternative ELSE Alternative(policies[best[1]], req, best[2])

-----------------------------------------------------------------------------
PlannerInit ==
    /\ policies = <<>>
    /\ appended = [g \in AddrGroup |-> {}]
    /\ plan = NoPlan
    /\ fresh = FALSE
    /\ snapshot = Complete

Insert(pol, before) ==
    LET new == [pol EXCEPT !.id = Len(policies) + 1]
    IN  policies' = IF before = End THEN Append(policies, new)
                    ELSE SubSeq(policies, 1, before - 1) \o <<new>> \o SubSeq(policies, before, Len(policies))

(* An admin adds a rule at the end.                                        *)
AdminAdds(pol) ==
    /\ Len(policies) < MaxPolicies
    /\ Insert(pol, End)
    /\ fresh' = FALSE
    /\ UNCHANGED <<appended, plan, snapshot>>

(* plan_change and _plan_firewall.  verdict is that of the zone policy; if *)
(* it is BLOCKED, the new rule has another comment than if it is ALLOWED.  *)
(* Only a package that could not be fetched degrades a plan.               *)
NoRules == snapshot.rules # "fetched"

_plan_firewall(req) ==
    IF ~snapshot.device THEN [status |-> "error", req |-> req]
    ELSE IF ~NoRules /\ \A p \in Pairs(req) : pair_covered(req, p)
    THEN [status |-> "already_covered", req |-> req, covering |-> covering_rules(req)]
    ELSE [status   |-> "new_rule",
          req      |-> req,
          degraded |-> snapshot.rules = "failed",
          pol      |-> policy_cli(req),
          before   |-> IF NoRules \/ insert_before(req) = End THEN End ELSE policies[insert_before(req)].id,
          shadows  |-> IF NoRules THEN {} ELSE would_shadow(req),
          alternative |-> IF NoRules THEN NoAlternative ELSE _group_append_alternative(req)]

plan_change(req, verdict, read) ==
    /\ Len(policies) <= MaxPolicies   \* bound
    /\ plan = NoPlan   \* bound: another plan is as if it were the first
    /\ UNCHANGED <<policies, appended>>
    /\ snapshot' = IF verdict = "UNKNOWN" THEN snapshot ELSE read
    /\ plan' = IF verdict = "UNKNOWN" THEN [status |-> "unknown_no_action", req |-> req]
               ELSE _plan_firewall(req)'
    /\ fresh' = TRUE

(* The engineer pastes the CLI of the plan and moves the new rule before   *)
(* the one that the plan names.                                            *)
PosOf(id) == CHOOSE i \in DOMAIN policies : policies[i].id = id

Implement ==
    /\ plan.status = "new_rule"
    /\ Len(policies) <= MaxPolicies   \* bound: one more than admins add
    /\ Insert(plan.pol, IF plan.before = End THEN End ELSE PosOf(plan.before))
    /\ plan' = NoPlan
    /\ fresh' = FALSE
    /\ UNCHANGED <<appended, snapshot>>

(* Or those of the alternative.                                            *)
ImplementAlternative ==
    /\ plan.status = "new_rule" /\ plan.alternative.id # End
    /\ LET alt == plan.alternative
       IN  IF alt.group \in AddrGroup
           THEN /\ appended' = [appended EXCEPT ![alt.group] = @ \cup alt.members]
                /\ UNCHANGED policies
           ELSE /\ policies' = [policies EXCEPT ![PosOf(alt.id)][alt.side] = @ \cup alt.members]
                /\ UNCHANGED appended
    /\ plan' = NoPlan
    /\ fresh' = FALSE
    /\ UNCHANGED snapshot

PlannerNext ==
    \/ \E pol \in PlanShape : AdminAdds(pol)
    \/ \E req \in Request, v \in {"ALLOWED", "UNKNOWN"}, s \in Snapshot : plan_change(req, v, s)
    \/ Implement
    \/ ImplementAlternative

PlannerSpec == PlannerInit /\ [][PlannerNext]_plannerVars

-----------------------------------------------------------------------------
(* Reference: what the firewall does with a packet                         *)

FlowPacket == [src : Host, dst : Host, port : Port, sport : SrcPort]

(* The most specific of the subnets and routes decides.                    *)
InterfaceOf(a) == MostSpecific(Connected \cup Routes, {a})

AddedTo(ref) == UNION {appended[g] : g \in {h \in AddrGroup : ref = h \/ ref \in Inside[h]}}
AddrPoints(ref) == IF ref \in AddrName THEN AddrMeans[ref] \cup UNION AddedTo(ref) ELSE ref
SvcPoints(ref)  == IF ref \in SvcName THEN SvcMeans[ref] ELSE ref \X SrcPort

InField(a, refs, negate) == (\E r \in refs : a \in AddrPoints(r)) # negate
InService(k, refs) == \E r \in refs : <<k.port, k.sport>> \in SvcPoints(r)

(* A rule with a schedule of its own may or may not apply; when says so.   *)
PolicyHits(pol, k, when) ==
    /\ pol.enabled /\ (pol.always \/ when)
    /\ pol.srcintf = {} \/ InterfaceOf(k.src) \in pol.srcintf
    /\ pol.dstintf = {} \/ InterfaceOf(k.dst) \in pol.dstintf
    /\ InField(k.src, pol.src, pol.src_negate) /\ InField(k.dst, pol.dst, pol.dst_negate)
    /\ InService(k, pol.svc)

FirstHit(k, when, i) ==
    /\ i \in DOMAIN policies /\ PolicyHits(policies[i], k, when)
    /\ \A j \in 1..(i - 1) : ~PolicyHits(policies[j], k, when)

Permitted(k) == \A when \in BOOLEAN : \E i \in DOMAIN policies : FirstHit(k, when, i) /\ policies[i].action = "accept"

(* The packets of a request, on the interfaces that the planner found.     *)
OnInterfaces(req, k) ==
    /\ srcintf(req) \in {NoIface, InterfaceOf(k.src)}
    /\ dstintf(req) \in {NoIface, InterfaceOf(k.dst)}

Asked(req) ==
    [src : UNION req.srcs, dst : UNION req.dsts, port : UNION service_ranges(req), sport : SrcPort]

PacketsOf(req) == {k \in Asked(req) : OnInterfaces(req, k)}

(* A rule without its limits to interfaces that the planner did not find.  *)
OnResolved(pol, req) ==
    [pol EXCEPT !.srcintf = IF srcintf(req) = NoIface THEN {} ELSE @,
                !.dstintf = IF dstintf(req) = NoIface THEN {} ELSE @]

(* No group is on a side of a rule while it, or a group that contains it,  *)
(* is excluded on the other one.                                           *)
Apart(pol) ==
    \A g \in AddrGroup :
      /\ g \in pol.src /\ pol.dst_negate => pol.dst \cap ({g} \cup Inside[g]) = {}
      /\ g \in pol.dst /\ pol.src_negate => pol.src \cap ({g} \cup Inside[g]) = {}

RulesApart == \A pol \in PlanShape : Apart(pol)

(* What the new rule lets through, and that it does so for all ports.      *)
PortsPlanned(pol) == UNION {SvcPoints(r) : r \in pol.svc}
AllPortsPlanned(req, pol) == (UNION service_ranges(req)) \X SrcPort \subseteq PortsPlanned(pol)

(* The names whose networks are known are known in full, and services mean *)
(* no less, or no more, than the ports they are read with.                 *)
KnownInFull(refs) ==
    \A r \in refs : catalog_networks(r) = Unknown \/ AddrPoints(r) \subseteq UNION catalog_networks(r)
NoLessThanMeant(refs) ==
    \A r \in refs : ranges_for_ref(r) = Unknown \/ SvcPoints(r) \subseteq (UNION ranges_for_ref(r)) \X SrcPort
NoMoreThanMeant(refs) ==
    \A r \in refs : ranges_for_ref(r) = Unknown \/ (UNION ranges_for_ref(r)) \X SrcPort \subseteq SvcPoints(r)

(* What the matcher finds a rule to cover, it hits: it excludes no group   *)
(* that is known in part, and its services have no source ports.           *)
CoversAsRead(pol) ==
    /\ pol.src_negate => KnownInFull(pol.src)
    /\ pol.dst_negate => KnownInFull(pol.dst)
    /\ NoMoreThanMeant(pol.svc)

(* What a rule hits, the matcher sees: it names no group that is known in  *)
(* part.                                                                   *)
SeenInFull(pol) ==
    /\ ~pol.src_negate => KnownInFull(pol.src)
    /\ ~pol.dst_negate => KnownInFull(pol.dst)
    /\ NoLessThanMeant(pol.svc)

ReadForBlast == snapshot.scanned /\ snapshot.inside = Inside
DeniesAreSeen == \A i \in DOMAIN policies : policies[i].action = "deny" => SeenInFull(policies[i])
CoverageAsRead == \A i \in DOMAIN policies : policies[i].id \in plan.covering => CoversAsRead(policies[i])

-----------------------------------------------------------------------------
(* Properties                                                              *)

(* "where the rule must sit so it actually takes effect", insertion.py:    *)
(* after a plan is implemented for which the rules were read, the firewall *)
(* permits the request, as far as the ports of the new rule go and the     *)
(* packets use the interfaces it names, whatever is unknown, negated,      *)
(* disabled or scheduled in the rules around it, and whichever tables and  *)
(* objects were lost, if no deny names a group that is known in part.      *)
PlanTakesEffect ==
    [][Implement /\ fresh /\ snapshot.rules = "fetched" /\ DeniesAreSeen =>
         \A k \in PacketsOf(plan.req) : <<k.port, k.sport>> \in PortsPlanned(plan.pol) => Permitted(k)']_plannerVars

(* "which later policies the candidate would fully shadow", insertion.py:  *)
(* a rule that the plan reports as one of them is not hit again, by any    *)
(* packet on the interfaces of the plan, if the new rule has all the ports *)
(* that were asked for and the reported one names no group in part.        *)
ShadowWarningsTrue ==
    [][Implement /\ fresh /\ AllPortsPlanned(plan.req, plan.pol) =>
         \A i \in DOMAIN policies', k \in FlowPacket, when \in BOOLEAN :
           policies'[i].id \in plan.shadows /\ SeenInFull(policies'[i]) /\ OnInterfaces(plan.req, k) =>
             ~FirstHit(k, when, i)']_plannerVars

(* "already covered": every packet of the request meets a rule that the    *)
(* plan names, enabled and accepting it at any time, on the interfaces     *)
(* that were resolved, if these rules cover what they are read to cover.   *)
CoverageIsReal ==
    plan.status = "already_covered" /\ fresh /\ CoverageAsRead =>
      \A k \in PacketsOf(plan.req) : \E i \in DOMAIN policies :
        /\ policies[i].id \in plan.covering /\ policies[i].action = "accept" /\ policies[i].always
        /\ PolicyHits(OnResolved(policies[i], plan.req), k, TRUE)

(* The alternative makes its rule cover the request, if the rule covers    *)
(* what it is read to cover, and no rule but that and the ones it warns of *)
(* changes what it matches, if all groups and packages were read.          *)
AlternativeExact ==
    [][ImplementAlternative /\ fresh =>
         \A i \in DOMAIN policies, req \in {plan.req} :
           LET id == policies[i].id
           IN  /\ id = plan.alternative.id /\ CoversAsRead(policies[i]) =>
                    \A k \in PacketsOf(req) : PolicyHits(OnResolved(policies[i], req), k, TRUE)'
               /\ ReadForBlast /\ id \notin {plan.alternative.id} \cup plan.alternative.affected =>
                    \A k \in FlowPacket : PolicyHits(policies[i], k, TRUE) <=> PolicyHits(policies[i], k, TRUE)']_plannerVars

-----------------------------------------------------------------------------
(* Deviations, see the README; no run states them.                         *)

(* "Traffic is permitted ... No change required -- close the request",     *)
(* _recommendation: a request that is already covered is permitted.        *)
CoveredMeansPermitted ==
    plan.status = "already_covered" /\ fresh => \A k \in PacketsOf(plan.req) : Permitted(k)

(* "coverage must be judged only against rules that apply to the flow's    *)
(* interface pair", _plan_firewall: a request that is already covered is   *)
(* so on every interface, when none could be resolved, too.                *)
CoveredOnItsInterfaces ==
    plan.status = "already_covered" /\ fresh =>
      \A k \in PacketsOf(plan.req) : \E i \in DOMAIN policies : PolicyHits(policies[i], k, TRUE)

(* "full_cover", MatchResult: what a rule fully covers it hits, whatever   *)
(* source ports and groups it names.                                       *)
CoveredAsWritten ==
    plan.status = "already_covered" /\ fresh =>
      \A k \in PacketsOf(plan.req) : \E i \in DOMAIN policies :
        PolicyHits(OnResolved(policies[i], plan.req), k, TRUE)

(* "Unresolvable ... never a silent guess", resolve_interfaces: the        *)
(* interfaces of a plan are those of the packets.                          *)
InterfacesAreRight ==
    plan.status = "new_rule" /\ fresh => \A k \in Asked(plan.req) : OnInterfaces(plan.req, k)

(* "the first enabled rule that would otherwise match this traffic",       *)
(* plan_insertion: a plan that is not degraded takes effect.               *)
UndegradedTakesEffect ==
    [][Implement /\ fresh /\ ~plan.degraded =>
         \A k \in PacketsOf(plan.req) : <<k.port, k.sport>> \in PortsPlanned(plan.pol) => Permitted(k)']_plannerVars

(* "the set of rules whose behaviour changes on append",                   *)
(* _group_blast_radius: all rules that change are reported.                *)
BlastRadiusIsWhole ==
    [][ImplementAlternative /\ fresh =>
         \A i \in DOMAIN policies, k \in FlowPacket :
           policies[i].id \notin {plan.alternative.id} \cup plan.alternative.affected =>
             (PolicyHits(policies[i], k, TRUE) <=> PolicyHits(policies[i], k, TRUE)')]_plannerVars

(* "the plan emits ONE policy per firewall covering every combination",    *)
(* plan_change: the new rule has all the ports that were asked for.        *)
NewRuleCoversFlow ==
    plan.status = "new_rule" => AllPortsPlanned(plan.req, plan.pol)
=============================================================================
