------------------------------- MODULE MCFlows -------------------------------
(***************************************************************************)
(* Instances of the modules that answer questions about flows: the         *)
(* expansion of groups, the rule lookup, the zone database, the planners   *)
(* of changes and of FQDN rules, and the rule review.  They do not         *)
(* interact: a behaviour is one of a single component, focus, and the      *)
(* others stay in their initial states.                                    *)
(***************************************************************************)
EXTENDS ObjectGroups, RuleLookup, ZonePolicy, ChangePlanner, FqdnPlanner,
        RuleReview

CONSTANTS
    all, lan, web, any,             \* several modules
    net, fqdn, g1, g2, g3,          \* ObjectGroups
    hosts, none, icmp,              \* RuleLookup
    srv, ssh, corp,                 \* ZonePolicy
    h1, h2, h3, geo, mix, grp, top,      \* ChangePlanner
    allServices, blob, odd, lanPort, wan,
    f1, f2, f3, edge, core, both, old, legacy, nest, grpDst,  \* FqdnPlanner
    pkgN, pkgS, wide, nested, fwN, port1, port2, port3              \* RuleReview

VARIABLE focus

mcVars == <<groupsVars, lookupVars, zoneVars, plannerVars, fqdnVars, reviewVars, focus>>

-----------------------------------------------------------------------------
(* ObjectGroups                                                            *)

MCKind  == (net :> "subnet") @@ (fqdn :> "fqdn")
MCGroup == {g1, g2, g3}

(* The groups are interchangeable: no definition prefers one of them.      *)
MCSymmetry == Permutations(MCGroup)

-----------------------------------------------------------------------------
(* RuleLookup                                                              *)

MCNetworksOf == (lan :> {{0, 1}}) @@ (hosts :> {{1}, {2}, {3}}) @@ (none :> {}) @@ (all :> {0..3})

Tcp(s, e) == [protocol |-> "tcp", start |-> s, end |-> e]
Proto(p)  == [protocol |-> p, start |-> 0, end |-> 2]

MCRangesOf == (web :> {Tcp(1, 1)}) @@ (any :> {Proto("ip")}) @@ (all :> {})
              @@ (icmp :> {Proto("icmp"), [Tcp(0, 1) EXCEPT !.protocol = "udp"]})

CachedRule(s, d, v, negate) == [src |-> s, dst |-> d, service |-> v, negate_src |-> negate, negate_dst |-> FALSE]

MCLookupRule ==
    << CachedRule({lan}, {all}, {web}, FALSE),
       CachedRule({hosts, none}, {lan}, {all}, FALSE),
       CachedRule({all}, {hosts}, {icmp}, FALSE),
       CachedRule({lan}, {hosts}, {any}, TRUE),
       CachedRule({hosts}, {lan, hosts}, {web, icmp}, FALSE) >>

-----------------------------------------------------------------------------
(* ZonePolicy: web is also known by the name of ssh; address 3 is public.  *)

MCAliases == (ssh :> {ssh}) @@ (web :> {web, ssh})

ZoneOf(nets, parents) == [subnets |-> nets, parents |-> parents, children |-> {}]

MCInitialDb ==
    [zones |-> (Internet :> ZoneOf({}, {})) @@ (lan :> ZoneOf({{1, 2}}, {})) @@ (srv :> ZoneOf({{2}}, {lan})),
     policies |-> <<>>]

ZoneRule(from, to, type, services) ==
    [policy_set |-> "corp", from_zone |-> from, to_zone |-> to, access_type |-> type, services |-> services]

(* Zones that are each other's parents, and a policy of a grandparent.     *)
MCRestoredDb ==
    {[zones |-> (lan :> ZoneOf({{1}}, {srv})) @@ (srv :> ZoneOf({{2}}, {lan, Internet})),
      policies |-> <<ZoneRule(Internet, lan, "allow all", {})>>]}

MCPolicyForm ==
    {ZoneRule(lan, srv, "block only", {ssh}), ZoneRule(lan, lan, "allow all", {})}

(* Two policies of one set, between the same zones and of one type.        *)
MCTwoBlocks ==
    {ZoneRule(lan, srv, "block only", {ssh}), ZoneRule(lan, srv, "block only", {web})}

-----------------------------------------------------------------------------
(* ChangePlanner: top contains grp; geo has no networks, and mix a member  *)
(* that has none; odd has a source port; hosts 1 and 2 are behind an       *)
(* interface, 3 behind the default route.                                  *)

MCAddrName == {all, h1, h2, h3, lan, geo, mix, grp, top}
MCAddrNets == (all :> {{1, 2, 3}}) @@ (h1 :> {{1}}) @@ (h2 :> {{2}}) @@ (h3 :> {{3}}) @@ (lan :> {{1, 2}})
              @@ (geo :> Unknown) @@ (mix :> {{1}}) @@ (grp :> {{1}}) @@ (top :> {{1}})
MCAddrMeans == [a \in MCAddrName |-> IF a = geo THEN {3} ELSE IF a = mix THEN {1, 3} ELSE UNION MCAddrNets[a]]
MCInside == (grp :> {top}) @@ (top :> {}) @@ (mix :> {})
MCSvcRanges == (allServices :> {{1, 2, 3}}) @@ (web :> {{1}}) @@ (odd :> {{1}, {3}}) @@ (blob :> Unknown)
MCSrcPort == {"client", "other"}
MCSvcMeans == (allServices :> {1, 2, 3} \X MCSrcPort) @@ (web :> {1} \X MCSrcPort)
              @@ (odd :> {1, 3} \X {"client"}) @@ (blob :> {2} \X MCSrcPort)
MCConnected == {[net |-> {1, 2}, name |-> lanPort]}
MCRoutes == {[net |-> {1, 2, 3}, name |-> wan]}

WebRule == [id |-> End, action |-> "accept", enabled |-> TRUE, always |-> TRUE,
            src |-> {all}, src_negate |-> FALSE, dst |-> {all}, dst_negate |-> FALSE, svc |-> {web},
            srcintf |-> {}, dstintf |-> {}]

MCPlanShape ==
    {[WebRule EXCEPT !.action = "deny", !.svc = {allServices}],
     [WebRule EXCEPT !.src = {grp}],
     [WebRule EXCEPT !.src = {h1}, !.dst_negate = TRUE, !.dst = {h2}, !.svc = {allServices}],
     [WebRule EXCEPT !.src = {lan}, !.dst = {geo}, !.always = FALSE],
     [WebRule EXCEPT !.src = {h2}, !.svc = {blob}, !.action = "deny"],
     [WebRule EXCEPT !.src = {h1}, !.dst = {h3}, !.action = "deny", !.enabled = FALSE],
     [WebRule EXCEPT !.src = {h1}, !.dst = {h3}, !.svc = {allServices}, !.action = "deny"],
     [WebRule EXCEPT !.src = {mix}, !.dst = {h3}, !.action = "deny"],
     [WebRule EXCEPT !.src = {lan}, !.dst_negate = TRUE, !.dst = {mix}, !.svc = {web, odd}],
     [WebRule EXCEPT !.src = {top}, !.srcintf = {lanPort}]}

(* One call fails, or the packages are not listed the first or the second  *)
(* time.                                                                   *)
MCSnapshot ==
    {Complete, [Complete EXCEPT !.device = FALSE], [Complete EXCEPT !.rules = "failed"],
     [Complete EXCEPT !.rules = "unlisted"], [Complete EXCEPT !.scanned = FALSE],
     [Complete EXCEPT !.connected = {}], [Complete EXCEPT !.routes = {}],
     [Complete EXCEPT !.nets = [a \in MCAddrName |-> IF a = all THEN {{1, 2, 3}} ELSE Unknown],
                      !.inside = [g \in AddrGroup |-> {}]],
     [Complete EXCEPT !.ranges = [s \in SvcName |-> IF s = allServices THEN {{1, 2, 3}} ELSE Unknown]]}

MCRequest ==
    {[srcs |-> {{1}, {2}}, dsts |-> {{3}}, tokens |-> {<<{1}>>}],
     [srcs |-> {{1}}, dsts |-> {{3}}, tokens |-> {<<{1}, {2}>>}],
     [srcs |-> {{1, 2}}, dsts |-> {{1, 2}, {3}}, tokens |-> {<<{1, 2}>>}]}

ASSUME MCRulesApart == RulesApart

-----------------------------------------------------------------------------
(* FqdnPlanner: f1 and f2 are cut down to one name; f1 and f3 have objects *)
(* of other names.                                                         *)

ObjectOf(name) == <<name>>

MCScope == (edge :> {"fwA"}) @@ (core :> {"fwB"}) @@ (both :> {})
MCInstalled == ("fwA" :> <<edge, both>>) @@ ("fwB" :> <<>>)
MCBaseName == (f1 :> ObjectOf("long")) @@ (f2 :> ObjectOf("long")) @@ (f3 :> ObjectOf("short"))
MCInitialObjects == (ObjectOf("a") :> f1) @@ (ObjectOf("b") :> f3) @@ (ObjectOf("ip") :> NoFqdn)
MCInitialGroups ==
    (legacy :> {ObjectOf("b"), ObjectOf("ip"), old}) @@ (nest :> {legacy}) @@ (grpDst :> {ObjectOf("a")})

Allow(names) == [accept |-> TRUE, enabled |-> TRUE, dst |-> names, svc |-> {<<"TCP", 443>>}]

MCAllowRule ==
    {Allow({nest}), Allow({grpDst, nest, old}), [Allow({ObjectOf("a"), legacy}) EXCEPT !.accept = FALSE],
     [Allow({ObjectOf("a"), legacy}) EXCEPT !.enabled = FALSE]}

Row(f, protocol, ports) == [fqdn |-> f, protocol |-> protocol, ports |-> ports]

MCUpload ==
    {[group |-> grpDst, named |-> FALSE, rows |-> <<Row(f1, "TCP", {443}), Row(NotAName, "TCP", {443}), Row(f2, "udp", {53})>>],
     [group |-> grpDst, named |-> FALSE, rows |-> <<Row(f3, "UDP", {123}), Row(f1, "TCP", {}), Row(f1, "TCP", {80, 443})>>],
     [group |-> legacy, named |-> TRUE, rows |-> <<Row(f2, "TCP", {443}), Row(f1, "TCP", {443}), Row(f2, "TCP", {80})>>]}

MCFqdnFault ==
    {Fetched, [Fetched EXCEPT !.catalog = FALSE], [Fetched EXCEPT !.lost = {edge}],
     [Fetched EXCEPT !.snapshot = "degraded", !.installed = FALSE], [Fetched EXCEPT !.snapshot = "error"]}

-----------------------------------------------------------------------------
(* RuleReview: srv is another host in each ADOM, wide is a range that is   *)
(* longer than the engine keeps, nested a group, of which one member has   *)
(* port 0, in the other ADOM.                                              *)

Range(lo, hi) == [proto |-> "tcp", lo |-> lo, hi |-> hi]
Tcps(ports) == {<<"tcp", p>> : p \in ports}

MCReviewAdom == <<"north", "south">>
MCPortProto == {<<"tcp", p>> : p \in 1..3}
MCAdomOf == (pkgN :> "north") @@ (pkgS :> "south")
MCDeviceOf == (pkgN :> fwN) @@ (pkgS :> NoDevice)
MCAddrObject == ("north" :> ((srv :> {{2}}) @@ (lan :> {{1, 2}}) @@ (geo :> {}))) @@ ("south" :> (srv :> {{3}}))
MCAddrGroupOf == ("north" :> ((grp :> {srv, geo}) @@ (top :> {grp, lan}))) @@ ("south" :> (grp :> {srv}))
MCSvcObject == ("north" :> ((web :> {Range(1, 1)}) @@ (wide :> {Range(1, 3)}))) @@ ("south" :> (blob :> {Range(0, 0)}))
MCSvcGroupOf == ("north" :> (nested :> {web, blob})) @@ ("south" :> (web :> {wide}))
MCWellKnown == (ssh :> Tcps({2}))
MCAddrTrue == ("north" :> ((srv :> {2}) @@ (lan :> {1, 2}) @@ (geo :> {3}) @@ (grp :> {2, 3}) @@ (top :> {1, 2, 3})))
              @@ ("south" :> ((srv :> {3}) @@ (grp :> {3})))
MCSvcTrue == ("north" :> ((web :> Tcps({1})) @@ (wide :> Tcps(1..3)) @@ (nested :> Tcps({1})) @@ (ssh :> Tcps({2}))))
             @@ ("south" :> ((web :> Tcps(1..3)) @@ (ssh :> Tcps({2}))))

MCRouting ==
    fwN :> [interfaces |-> {[net |-> {1}, name |-> port1, up |-> TRUE], [net |-> {3}, name |-> port2, up |-> FALSE]},
            routes |-> {[net |-> {1, 2, 3}, name |-> port2], [net |-> {1, 2}, name |-> port1], [net |-> {1}, name |-> port1],
                        [net |-> {2}, name |-> port3], [net |-> {3}, name |-> port1]}]

Reviewed(accept, from, to, services) ==
    [enabled |-> TRUE, accept |-> accept, negate |-> FALSE, src |-> from, dst |-> to, svc |-> services]

MCReviewRule ==
   (pkgS :> {Reviewed(TRUE, {grp}, {all}, {web}), Reviewed(FALSE, {srv}, {all}, {ssh})}) @@
   (pkgN :>
    {Reviewed(TRUE, {lan}, {all}, {web}), Reviewed(FALSE, {srv}, {all}, {all}),
     Reviewed(TRUE, {top}, {grp}, {wide}), [Reviewed(FALSE, {all}, {all}, {all}) EXCEPT !.enabled = FALSE],
     [Reviewed(TRUE, {srv}, {all}, {ssh, nested}) EXCEPT !.negate = TRUE]})

Flow(from, to, ports) == [src |-> from, dst |-> to, svc |-> Tcps(ports)]

MCReviewFlow == {Flow({1}, {3}, {1}), Flow({1, 2}, {3}, {2}), Flow({1}, {2, 3}, {})}
MCAddrLiteral == UNION {{f.src, f.dst} : f \in MCReviewFlow}

-----------------------------------------------------------------------------
Idle(c) ==
    CASE c = "groups"  -> UNCHANGED groupsVars
      [] c = "lookup"  -> UNCHANGED lookupVars
      [] c = "zones"   -> UNCHANGED zoneVars
      [] c = "planner" -> UNCHANGED plannerVars
      [] c = "fqdn"    -> UNCHANGED fqdnVars
      [] c = "review"  -> UNCHANGED reviewVars

MCComponent == {"groups", "lookup", "zones", "planner", "fqdn", "review"}

Init == GroupsInit /\ LookupInit /\ ZoneInit /\ PlannerInit /\ FqdnInit /\ ReviewInit /\ focus \in MCComponent

Only(c) == UNCHANGED focus /\ \A d \in MCComponent \ {c} : Idle(d)

Next ==
    \/ focus = "groups" /\ GroupsNext /\ Only("groups")
    \/ focus = "lookup" /\ LookupNext /\ Only("lookup")
    \/ focus = "zones" /\ ZoneNext /\ Only("zones")
    \/ focus = "planner" /\ PlannerNext /\ Only("planner")
    \/ focus = "fqdn" /\ FqdnNext /\ Only("fqdn")
    \/ focus = "review" /\ ReviewNext /\ Only("review")

Spec == Init /\ [][Next]_mcVars
=============================================================================
