-------------------------------- MODULE RuleReview --------------------------------
(***************************************************************************)
(* Rule Validation (rule_review.py and rr_analyze): for a flow and the     *)
(* policy packages selected for it, is the flow permitted, denied, could a *)
(* rule be given its service, or is a new rule needed, and where?  The     *)
(* engineer follows the advice for one package.                            *)
(*                                                                         *)
(* The names of rules are read through maps of the objects of all selected *)
(* ADOMs; the reference is what the firewall does with a packet.  Rules    *)
(* have no interfaces and schedules here, which the engine ignores, and    *)
(* the verdict on zones, which is only shown next to its own, is left out. *)
(***************************************************************************)
EXTENDS Integers, Sequences, FiniteSets

CONSTANTS
    ReviewAdom,   \* sequence: the ADOMs in the order in which they are read
    ReviewPkg,    \* packages
    AdomOf,       \* AdomOf[p]: its ADOM
    DeviceOf,     \* DeviceOf[p]: the first device of its scope, or NoDevice
    Routing,      \* Routing[d]: interfaces (net, name, up) and routes (net, name)
    NoDevice,
    NoInterface,  \* None: no interface matches
    AddrObject,   \* AddrObject[a]: networks of each address object, {} if it has none
    AddrGroupOf,  \* AddrGroupOf[a]: the members of each address group
    SvcObject,    \* SvcObject[a]: port ranges (proto, lo, hi) of each service object
    SvcGroupOf,   \* SvcGroupOf[a]: the members of each service group
    WellKnown,    \* WellKnown[n]: the ports that the engine knows a name by
    AddrTrue, SvcTrue,  \* AddrTrue[a][n], SvcTrue[a][n]: what a name means on the firewall
    AnyAddr, AnySvc,    \* the names all and ALL
    AddrLiteral,        \* networks that flows name
    RangeCap,     \* the engine keeps that many ports of a range (100)
    FlowAddr, PortProto, \* addresses; pairs of protocol and port
    ReviewRule,   \* ReviewRule[p]: the rules admins write
    ReviewFlow,   \* flows: src and dst (networks), svc (ports, {} for any)
    MaxReviewed   \* bound: rules in all packages that are reviewed

(* The names that a rule can contain.                                      *)
ReviewAddr == {AnyAddr} \cup AddrLiteral \cup UNION {DOMAIN AddrTrue[a] : a \in DOMAIN AddrTrue}
ReviewSvc  == {AnySvc} \cup PortProto \cup UNION {DOMAIN SvcTrue[a] : a \in DOMAIN SvcTrue}

WrittenRule ==
    [enabled : BOOLEAN, accept : BOOLEAN, negate : BOOLEAN,
     src : SUBSET ReviewAddr, dst : SUBSET ReviewAddr, svc : SUBSET ReviewSvc]

(* Networks are blocks of addresses: one of two contains the other, or     *)
(* they have none in common.                                               *)
IsRouting(data) ==
    \A e \in data.interfaces \cup data.routes :
      /\ IsFiniteSet(e.net) /\ e.name # NoInterface
      /\ \A f \in data.interfaces \cup data.routes :
           e.net \cap f.net = {} \/ e.net \subseteq f.net \/ f.net \subseteq e.net

(* A flow asks for one port or for any (_svc_to_ports).                    *)
ASSUME ReviewAssumption ==
    /\ AnyAddr \notin AddrLiteral /\ AnySvc \notin PortProto
    /\ \A p \in ReviewPkg : /\ ReviewRule[p] \subseteq WrittenRule
                            /\ DeviceOf[p] = NoDevice \/ IsRouting(Routing[DeviceOf[p]])
    /\ \A f \in ReviewFlow : /\ f.src \in AddrLiteral /\ f.dst \in AddrLiteral
                             /\ f.svc = {} \/ \E port \in PortProto : f.svc = {port}

VARIABLES
    package,   \* package[p]: its rules, in order
    results    \* of the last analysis: records of the selected packages

reviewVars == <<package, results>>

-----------------------------------------------------------------------------
(* The maps of the ADOMs that are read: of two that have the same name,    *)
(* the later one counts, and a group hides an object.                      *)

Merged(adoms, maps, name) ==
    LET has == {i \in DOMAIN ReviewAdom : ReviewAdom[i] \in adoms /\ name \in DOMAIN maps[ReviewAdom[i]]}
    IN  IF has = {} THEN {}
        ELSE maps[ReviewAdom[CHOOSE i \in has : \A j \in has : j <= i]][name]

GroupNames(adoms, maps) == UNION {DOMAIN maps[a] : a \in adoms}

(* Groups are expanded level by level until nothing is added.              *)
_build_addr_map(adoms, name) ==
    LET names == GroupNames(adoms, AddrGroupOf)
        Members(g) == Merged(adoms, AddrGroupOf, g)
        below[n \in 0..Cardinality(names)] ==
          IF n = 0 THEN {name} ELSE below[n - 1] \cup UNION {Members(g) : g \in below[n - 1] \cap names}
    IN  IF name \in names
        THEN UNION {Merged(adoms, AddrObject, o) :
                      o \in UNION {Members(g) : g \in below[Cardinality(names)] \cap names}}
        ELSE Merged(adoms, AddrObject, name)

(* A pasted rule names its addresses and its port literally.               *)
_resolve_addrs(adoms, names) ==
    UNION {CASE n = AnyAddr -> {FlowAddr} [] n \in AddrLiteral -> {n} [] OTHER -> _build_addr_map(adoms, n) : n \in names}

KeptPorts(r) == {<<r.proto, p>> : p \in {q \in r.lo..r.hi : q < r.lo + RangeCap}}

ObjectPorts(adoms, name) == UNION {KeptPorts(r) : r \in Merged(adoms, SvcObject, name)}

(* Members that are groups themselves add nothing.                         *)
_build_svc_map(adoms, name) ==
    IF name \in GroupNames(adoms, SvcGroupOf)
    THEN UNION {ObjectPorts(adoms, m) : m \in Merged(adoms, SvcGroupOf, name)}
    ELSE ObjectPorts(adoms, name)

(* A name that has no ports falls through to the well-known ones.  A port  *)
(* 0 counts as any service, of any protocol.                               *)
_resolve_services(adoms, names) ==
    LET ports == UNION {CASE n \in PortProto -> {n}
                          [] n \notin PortProto /\ _build_svc_map(adoms, n) # {} -> _build_svc_map(adoms, n)
                          [] OTHER -> IF n \in DOMAIN WellKnown THEN WellKnown[n] ELSE {} : n \in names}
    IN  IF AnySvc \in names \/ \E x \in ports : x[2] = 0 THEN PortProto ELSE ports

-----------------------------------------------------------------------------
(* analyze_flows                                                           *)

(* Mutant of _addr_matches: the network has to contain the query.          *)
_addr_matches_within(query, net) == query \subseteq net

_addr_matches(query, net) == query \cap net # {}

_port_covered(requested, ports) == requested \subseteq ports

AddrHit(adoms, query, names) == \E net \in _resolve_addrs(adoms, names) : _addr_matches(query, net)

CoversAddresses(adoms, pol, flow) ==
    pol.enabled /\ AddrHit(adoms, flow.src, pol.src) /\ AddrHit(adoms, flow.dst, pol.dst)

Matching(adoms, pols, flow) ==
    {i \in DOMAIN pols : CoversAddresses(adoms, pols[i], flow)
                         /\ _port_covered(flow.svc, _resolve_services(adoms, pols[i].svc))}

Modifiable(adoms, pols, flow) ==
    {i \in DOMAIN pols \ Matching(adoms, pols, flow) : CoversAddresses(adoms, pols[i], flow) /\ pols[i].accept}

FirstIn(indices) == IF indices = {} THEN 0 ELSE CHOOSE i \in indices : \A j \in indices : i <= j

last_permit_seq(pols) ==
    LET accept == {i \in DOMAIN pols : pols[i].enabled /\ pols[i].accept}
    IN  IF accept = {} THEN 0 ELSE CHOOSE i \in accept : \A j \in accept : j <= i

(* Any rule that accepts makes the flow permitted, wherever it is.  A rule *)
(* against an explicit denial is pasted without a place, at the end.       *)
analyze_flows(adoms, pols, flow) ==
    LET matching   == Matching(adoms, pols, flow)
        modifiable == Modifiable(adoms, pols, flow)
        permit     == {i \in matching : pols[i].accept}
    IN  CASE permit # {} -> [verdict |-> "PERMITTED", at |-> FirstIn(permit)]
          [] permit = {} /\ matching # {} -> [verdict |-> "EXPLICITLY_DENIED", at |-> Len(pols)]
          [] matching = {} /\ modifiable # {} -> [verdict |-> "MODIFIABLE", at |-> FirstIn(modifiable)]
          [] OTHER -> [verdict |-> "NEW_RULE_NEEDED", at |-> last_permit_seq(pols)]

-----------------------------------------------------------------------------
(* check_path_relevance: the interface of the first address of each side,  *)
(* from the connected subnets that are up, else from the routes.           *)

FirstOf(query) == CHOOSE a \in query : \A b \in query : a <= b

MostSpecificOf(table, a) ==
    LET hit == {e \in table : a \in e.net}
    IN  IF hit = {} THEN NoInterface
        ELSE (CHOOSE e \in hit : \A f \in hit : Cardinality(e.net) <= Cardinality(f.net)).name

(* Mutant of PathInterface: an interface that is down counts.              *)
PathInterfaceDown(data, a) ==
    IF MostSpecificOf(data.interfaces, a) # NoInterface THEN MostSpecificOf(data.interfaces, a)
    ELSE MostSpecificOf(data.routes, a)

PathInterface(data, a) ==
    LET up == {e \in data.interfaces : e.up}
    IN  IF MostSpecificOf(up, a) # NoInterface THEN MostSpecificOf(up, a) ELSE MostSpecificOf(data.routes, a)

check_path_relevance(flow, data) ==
    LET src == PathInterface(data, FirstOf(flow.src))
        dst == PathInterface(data, FirstOf(flow.dst))
    IN  IF data.interfaces = {} /\ data.routes = {} THEN "unknown"
        ELSE IF src # NoInterface /\ dst # NoInterface /\ src # dst THEN "in_path" ELSE "not_in_path"

Table == {"interfaces", "routes"}

(* The two tables of a device are two calls, and one that fails is an      *)
(* empty table.                                                            *)
DataRead(d, unread) ==
    [interfaces |-> IF d = NoDevice \/ "interfaces" \in unread THEN {} ELSE Routing[d].interfaces,
     routes |-> IF d = NoDevice \/ "routes" \in unread THEN {} ELSE Routing[d].routes]

-----------------------------------------------------------------------------
(* Actions                                                                 *)

ReviewInit == package = [p \in ReviewPkg |-> <<>>] /\ results = {}

RulesInAll == Cardinality(UNION {{p} \X DOMAIN package[p] : p \in ReviewPkg})

(* FortiManager: an admin puts a rule first or last.                       *)
AdminWrites(p, rule) ==
    /\ RulesInAll < MaxReviewed   \* bound
    /\ package' \in {[package EXCEPT ![p] = <<rule>> \o @], [package EXCEPT ![p] = Append(@, rule)]}
    /\ results' = {}

(* Only the ADOMs of the selected packages are read.  A package that       *)
(* cannot be read counts as empty.  failing has the tables of devices that *)
(* cannot be read.                                                         *)
rr_analyze(flow, selected, lost, failing) ==
    LET adoms == {AdomOf[p] : p \in selected}
        Advice(p) == analyze_flows(adoms, IF p \in lost THEN <<>> ELSE package[p], flow)
        Unread(p) == {t \in Table : <<DeviceOf[p], t>> \in failing}
    IN  /\ RulesInAll <= MaxReviewed   \* bound
        /\ results' = {[package |-> p, flow |-> flow, adoms |-> adoms, lost |-> p \in lost, unread |-> Unread(p),
                        verdict |-> Advice(p).verdict, at |-> Advice(p).at,
                        path |-> check_path_relevance(flow, DataRead(DeviceOf[p], Unread(p)))] : p \in selected}
        /\ UNCHANGED package

AskedPorts(flow) == IF flow.svc = {} THEN {AnySvc} ELSE flow.svc

(* The engineer adds the service to the rule that is named ...             *)
AddService(r) ==
    /\ r.verdict = "MODIFIABLE"
    /\ package' = [package EXCEPT ![r.package][r.at].svc = @ \cup AskedPorts(r.flow)]
    /\ results' = {}

_fortios_cli(flow) ==
    [enabled |-> TRUE, accept |-> TRUE, negate |-> FALSE, src |-> {flow.src}, dst |-> {flow.dst}, svc |-> AskedPorts(flow)]

(* ... or pastes the new rule after the one that is named.                 *)
PasteRule(r) ==
    /\ r.verdict \in {"NEW_RULE_NEEDED", "EXPLICITLY_DENIED"}
    /\ package' = [package EXCEPT ![r.package] =
                     SubSeq(@, 1, r.at) \o <<_fortios_cli(r.flow)>> \o SubSeq(@, r.at + 1, Len(@))]
    /\ results' = {}

ReviewNext ==
    \/ \E p \in ReviewPkg : \E rule \in ReviewRule[p] : AdminWrites(p, rule)
    \/ \E f \in ReviewFlow, sel \in SUBSET ReviewPkg \ {{}} :
         \E lost \in {{}} \cup {{p} : p \in sel},
            failing \in SUBSET (({DeviceOf[p] : p \in sel} \ {NoDevice}) \X Table) :
           rr_analyze(f, sel, lost, failing)
    \/ \E r \in results : AddService(r) \/ PasteRule(r)

ReviewSpec == ReviewInit /\ [][ReviewNext]_reviewVars

-----------------------------------------------------------------------------
(* Reference: what the firewall does with a packet                         *)

ReviewPacket == [src : FlowAddr, dst : FlowAddr, svc : PortProto]

AddrPointsIn(p, names) ==
    UNION {CASE n = AnyAddr -> FlowAddr [] n \in AddrLiteral -> n [] OTHER -> AddrTrue[AdomOf[p]][n] : n \in names}

SvcPointsIn(p, names) ==
    UNION {CASE n = AnySvc -> PortProto [] n \in PortProto -> {n} [] OTHER -> SvcTrue[AdomOf[p]][n] : n \in names}

(* negate: the rule applies to all sources but those that it lists.        *)
RuleHits(p, pol, k) ==
    /\ pol.enabled
    /\ (k.src \in AddrPointsIn(p, pol.src)) # pol.negate
    /\ k.dst \in AddrPointsIn(p, pol.dst) /\ k.svc \in SvcPointsIn(p, pol.svc)

LetThrough(p, k) ==
    \E i \in DOMAIN package[p] :
      /\ package[p][i].accept /\ RuleHits(p, package[p][i], k)
      /\ \A j \in 1..(i - 1) : ~RuleHits(p, package[p][j], k)

(* Does the engine read a rule as the firewall does?                       *)
ReadRight(p, adoms, pol) ==
    pol.enabled =>
      /\ ~pol.negate
      /\ AddrPointsIn(p, pol.src) = UNION _resolve_addrs(adoms, pol.src)
      /\ AddrPointsIn(p, pol.dst) = UNION _resolve_addrs(adoms, pol.dst)
      /\ SvcPointsIn(p, pol.svc) = _resolve_services(adoms, pol.svc)

AllReadRight(r) ==
    ~r.lost /\ \A i \in DOMAIN package[r.package] : ReadRight(r.package, r.adoms, package[r.package][i])

(* The packets that the advice is about: a rule that gets a service keeps  *)
(* its addresses.                                                          *)
Advised(r, k) ==
    /\ k.src \in r.flow.src /\ k.dst \in r.flow.dst /\ (r.flow.svc = {} \/ k.svc \in r.flow.svc)
    /\ r.verdict = "MODIFIABLE" =>
         /\ k.src \in AddrPointsIn(r.package, package[r.package][r.at].src)
         /\ k.dst \in AddrPointsIn(r.package, package[r.package][r.at].dst)

-----------------------------------------------------------------------------
(* Properties                                                              *)

(* "Whether an existing rule could be modified to permit it; whether a new *)
(* rule is needed, and where to insert it", rule_review.py: when all rules *)
(* of a package are read as the firewall reads them, following the advice  *)
(* makes the firewall let the flow through.                                *)
AdviceTakesEffect ==
    [][\A r \in results :
         (AddService(r) \/ PasteRule(r)) /\ r.verdict # "EXPLICITLY_DENIED" /\ AllReadRight(r) =>
           \A k \in ReviewPacket : Advised(r, k) => LetThrough(r.package, k)']_reviewVars

(* The ways of a firewall: networks and the interfaces that lead there.    *)
Ways(data) == {[net |-> e.net, name |-> e.name] : e \in {i \in data.interfaces : i.up} \cup data.routes}

(* The interface that the firewall sends a packet out of: the most         *)
(* specific of all its networks.                                           *)
Egress(data, a) == MostSpecificOf(Ways(data), a)

(* No route leads a part of a connected subnet elsewhere, and nothing      *)
(* leads two ways.                                                         *)
ConnectedFirst(data) ==
    /\ \A i \in {j \in data.interfaces : j.up}, e \in data.routes : e.net \subseteq i.net => e.name = i.name
    /\ \A e, f \in Ways(data) : e.net = f.net => e.name = f.name

(* A table that was not read has nothing that the other does not have: a   *)
(* firewall lists its connected subnets among its routes, too.             *)
NothingMissing(r) == Ways(DataRead(DeviceOf[r.package], r.unread)) = Ways(Routing[DeviceOf[r.package]])

(* "Whether this firewall is actually in the traffic path", rule_review.py:*)
(* one that would send a packet of the flow from one interface to another  *)
(* is never reported as out of the path of two hosts, and no other as in   *)
(* it, when none of its ways is missing in what was read.                  *)
PathIsForwarding ==
    \A r \in results :
      LET data == Routing[DeviceOf[r.package]]
          src  == Egress(data, FirstOf(r.flow.src))
          dst  == Egress(data, FirstOf(r.flow.dst))
      IN  /\ DeviceOf[r.package] # NoDevice /\ r.path # "unknown"
          /\ ConnectedFirst(data) /\ NothingMissing(r)
          => (r.path = "in_path" <=> NoInterface \notin {src, dst} /\ src # dst)

-----------------------------------------------------------------------------
(* Deviations, see the README; no run states them.                         *)

(* A flow that is reported as permitted is: a deny before the rule or a    *)
(* part of a subnet are not looked at.                                     *)
PermittedIsPermitted ==
    \A r \in results : r.verdict = "PERMITTED" /\ AllReadRight(r) =>
      \A k \in ReviewPacket : Advised(r, k) => LetThrough(r.package, k)

(* The rule against an explicit denial has an effect.                      *)
PastedRuleTakesEffect ==
    [][\A r \in results : PasteRule(r) /\ AllReadRight(r) =>
         \A k \in ReviewPacket : Advised(r, k) => LetThrough(r.package, k)']_reviewVars

(* A firewall in the path is not reported as out of it: its routes alone   *)
(* may be missing, which nothing shows.                                    *)
ForwardingIsSeen ==
    \A r \in results :
      LET data == Routing[DeviceOf[r.package]]
      IN  DeviceOf[r.package] # NoDevice /\ r.path = "not_in_path" /\ ConnectedFirst(data) =>
            Egress(data, FirstOf(r.flow.src)) \in {NoInterface, Egress(data, FirstOf(r.flow.dst))}
            \/ Egress(data, FirstOf(r.flow.dst)) = NoInterface

(* Selecting packages of another ADOM changes nothing for a package.       *)
AdomsAreApart ==
    \A r \in results : \A pol \in {package[r.package][i] : i \in DOMAIN package[r.package]} :
      ReadRight(r.package, {AdomOf[r.package]}, pol) => ReadRight(r.package, r.adoms, pol)
=============================================================================
