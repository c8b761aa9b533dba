-------------------------------- MODULE NatReport --------------------------------
(***************************************************************************)
(* The content of the NAT report (collect_nat_data, build_nat_rows): which *)
(* rules of an ADOM use which virtual IPs and IP pools.  The run reads the *)
(* objects, then the devices' own virtual IPs, then the packages side by   *)
(* side and page by page, at last the address groups, while admins go on   *)
(* editing rules and groups.  The client answers with an empty list where  *)
(* FortiManager answers with an error, but for rules and devices.          *)
(* Virtual IPs and pools stay the same; VDOMs are not told apart.          *)
(***************************************************************************)
EXTENDS Integers, Sequences, FiniteSets

Sequence == INSTANCE SequencesExt

CONSTANTS
    NatPkg,         \* policy packages
    NatDevice,      \* devices
    PkgScope,       \* PkgScope[p]: the devices of its scope
    SharedVip,      \* names of virtual IPs in the ADOM
    DeviceVip,      \* DeviceVip[d]: names of those on a device only
    Pool,           \* names of IP pools
    NatGroup,       \* address groups
    InitialMembers, \* their members at first
    MemberChoice,   \* MemberChoice[g]: the members admins may give them
    NatRule,        \* the rules admins write: dst and pool
    Everywhere,     \* the device of a shared virtual IP
    MaxGroupDepth,  \* levels of groups that are expanded (8)
    PageSize,       \* rules per page (1000)
    MaxNatRules,    \* bound: rules of a package
    MaxAdminEdits   \* bound: edits after the first run has begun

ASSUME NatAssumption ==
    /\ InitialMembers \in [NatGroup -> {InitialMembers[g] : g \in NatGroup}]
    /\ MaxGroupDepth \in Nat /\ PageSize \in Nat \ {0}

VARIABLES
    ruleset,    \* ruleset[p]: the rules of a package, in order
    grouped,    \* grouped[g]: members of a group
    edits,      \* bounded: edits while reports run
    collected,  \* the run: phase, objects, devices to do, pages read per package
    rows,       \* the rows of the report: object, package and rule
    unused,     \* the objects reported as used by no rule
    steady,     \* history: uses that have held since the run began
    shifted     \* history: packages whose rules were deleted or moved while they were read

natVars == <<ruleset, grouped, edits, collected, rows, unused, steady, shifted>>

-----------------------------------------------------------------------------
(* Objects and uses                                                        *)

Vip(name, device) == [type |-> "VIP", name |-> name, device |-> device]
IpPool(name) == [type |-> "IP_Pool", name |-> name, device |-> Everywhere]

_vip_applies(vip, p) == vip.device = Everywhere \/ vip.device \in PkgScope[p]

(* Mutant of _expand_dst: members of groups in groups are left out.        *)
_expand_dst_flat(names, members) == names \cup UNION {members[g] : g \in names \cap NatGroup}

(* All names down to the greatest depth; the names of groups on the way,   *)
(* which the code leaves out, are no virtual IP's.                         *)
Level(names, members) ==
    LET level[n \in 0..MaxGroupDepth] ==
          IF n = 0 THEN names ELSE UNION {members[g] : g \in level[n - 1] \cap NatGroup}
    IN  level

_expand_dst(names, members) == UNION {Level(names, members)[n] : n \in 0..MaxGroupDepth}

Hit(obj, rule, members) ==
    IF obj.type = "VIP" THEN obj.name \in _expand_dst(rule.dst, members) ELSE obj.name \in rule.pool

build_nat_rows(objs, read, members) ==
    {u \in UNION {[object : objs, package : {p}, rule : read[p]] : p \in DOMAIN read} :
        /\ u.object.type = "VIP" => _vip_applies(u.object, u.package)
        /\ Hit(u.object, u.rule, members)}

_summary(objs, found) == {o \in objs : ~\E u \in found : u.object = o}

(* The client answers with nothing where FortiManager fails.               *)
get_vip_objects(ok) == IF ok THEN {Vip(v, Everywhere) : v \in SharedVip} ELSE {}

get_ippool_objects(ok) == IF ok THEN {IpPool(q) : q \in Pool} ELSE {}

get_device_vip_objects(d, ok) == IF ok THEN {Vip(v, d) : v \in DeviceVip[d]} ELSE {}

get_address_groups(ok) == IF ok THEN grouped ELSE [g \in NatGroup |-> {}]

-----------------------------------------------------------------------------
(* Reference: the rules that use an object, however deep it is in groups   *)

AllObjects ==
    {Vip(v, Everywhere) : v \in SharedVip} \cup {IpPool(q) : q \in Pool}
    \cup UNION {{Vip(v, d) : v \in DeviceVip[d]} : d \in NatDevice}

Leads(members, g, name) ==
    \E chain \in UNION {[1..n -> NatGroup] : n \in 1..Cardinality(NatGroup)} :
      /\ chain[1] = g /\ name \in members[chain[Len(chain)]]
      /\ \A i \in 1..(Len(chain) - 1) : chain[i + 1] \in members[chain[i]]

Uses(rs, members) ==
    {u \in UNION {[object : AllObjects, package : {p}, rule : {rs[p][i] : i \in DOMAIN rs[p]}] : p \in NatPkg} :
        \/ /\ u.object.type = "VIP" /\ u.object.device \in {Everywhere} \cup PkgScope[u.package]
           /\ \E n \in u.rule.dst : n = u.object.name \/ (n \in NatGroup /\ Leads(members, n, u.object.name))
        \/ u.object.type = "IP_Pool" /\ u.object.name \in u.rule.pool}

-----------------------------------------------------------------------------
NatInit ==
    /\ ruleset = [p \in NatPkg |-> <<>>] /\ grouped = InitialMembers /\ edits = 0
    /\ collected = [phase |-> "idle"] /\ rows = {} /\ unused = {} /\ steady = {} /\ shifted = {}

Running == collected.phase = "reading"
Reading(p) == Running /\ collected.state[p] = "reading" /\ collected.offset[p] > 0

Edited(rs, members) ==
    /\ ruleset' = rs /\ grouped' = members
    /\ edits' = IF collected.phase = "idle" THEN edits ELSE edits + 1
    /\ edits < MaxAdminEdits   \* bound
    /\ steady' = steady \cap Uses(rs, members)
    /\ UNCHANGED <<collected, rows, unused>>

Shift(p, rs) ==
    /\ Edited([ruleset EXCEPT ![p] = rs], grouped)
    /\ shifted' = IF Reading(p) THEN shifted \cup {p} ELSE shifted

WriteRule(p, i, r) ==
    /\ Len(ruleset[p]) < MaxNatRules   \* bound
    /\ Edited([ruleset EXCEPT ![p] = Sequence!InsertAt(@, i, r)], grouped)
    /\ UNCHANGED shifted

RemoveRule(p, i) == Shift(p, Sequence!RemoveAt(ruleset[p], i))

MoveRule(p, i, j) == i # j /\ Shift(p, Sequence!InsertAt(Sequence!RemoveAt(ruleset[p], i), j, ruleset[p][i]))

ChangeGroup(g, names) ==
    /\ grouped[g] # names
    /\ Edited(ruleset, [grouped EXCEPT ![g] = names])
    /\ UNCHANGED shifted

(* Without packages the run ends as an error, which is no step here.       *)
collect_nat_data(vips, pools) ==
    /\ ~Running
    /\ collected' = [phase   |-> "reading",
                     objects |-> get_vip_objects(vips) \cup get_ippool_objects(pools),
                     todo    |-> NatDevice,
                     state   |-> [p \in NatPkg |-> "reading"],
                     offset  |-> [p \in NatPkg |-> 0],
                     rules   |-> [p \in NatPkg |-> {}]]
    /\ steady' = Uses(ruleset, grouped) /\ shifted' = {} /\ rows' = {} /\ unused' = {}
    /\ UNCHANGED <<ruleset, grouped, edits>>

_fetch_device_vips(d, ok) ==
    /\ Running /\ d \in collected.todo
    /\ collected' = [collected EXCEPT !.todo = @ \ {d}, !.objects = @ \cup get_device_vip_objects(d, ok)]
    /\ UNCHANGED <<ruleset, grouped, edits, rows, unused, steady, shifted>>

(* get_policies: a page that is not full is the last.                      *)
GetPage(p) ==
    LET page == DOMAIN ruleset[p] \cap ((collected.offset[p] + 1)..(collected.offset[p] + PageSize))
    IN  /\ Running /\ collected.todo = {} /\ collected.state[p] = "reading"
        /\ collected' = [collected EXCEPT !.rules[p] = @ \cup {ruleset[p][i] : i \in page},
                                    !.offset[p] = @ + PageSize,
                                    !.state[p] = IF Cardinality(page) < PageSize THEN "ok" ELSE "reading"]
        /\ UNCHANGED <<ruleset, grouped, edits, rows, unused, steady, shifted>>

(* A page fails: the package is in the report as an error, without rules.  *)
FailPackage(p) ==
    /\ Running /\ collected.todo = {} /\ collected.state[p] = "reading"
    /\ collected' = [collected EXCEPT !.state[p] = "error"]
    /\ UNCHANGED <<ruleset, grouped, edits, rows, unused, steady, shifted>>

(* The packages that could be read, with the groups as they are by then.   *)
Build(groupsRead) ==
    LET read == [p \in {q \in NatPkg : collected.state[q] = "ok"} |-> collected.rules[p]]
    IN  /\ Running /\ \A p \in NatPkg : collected.state[p] # "reading"
        /\ rows' = build_nat_rows(collected.objects, read, get_address_groups(groupsRead))
        /\ unused' = _summary(collected.objects, rows')
        /\ collected' = [phase |-> "done", objects |-> collected.objects, ok |-> DOMAIN read, groups |-> groupsRead]
        /\ UNCHANGED <<ruleset, grouped, edits, steady, shifted>>

NatNext ==
    \/ \E p \in NatPkg : \/ \E r \in NatRule, i \in 1..(Len(ruleset[p]) + 1) : WriteRule(p, i, r)
                         \/ \E i \in DOMAIN ruleset[p] : RemoveRule(p, i)
                         \/ \E i, j \in DOMAIN ruleset[p] : MoveRule(p, i, j)
                         \/ GetPage(p) \/ FailPackage(p)
    \/ \E g \in NatGroup : \E names \in MemberChoice[g] : ChangeGroup(g, names)
    \/ \E vips, pools \in BOOLEAN : collect_nat_data(vips, pools)
    \/ \E d \in NatDevice, ok \in BOOLEAN : _fetch_device_vips(d, ok)
    \/ \E ok \in BOOLEAN : Build(ok)

NatSpec == NatInit /\ [][NatNext]_natVars

-----------------------------------------------------------------------------
(* Properties                                                              *)

(* "One row per (NAT object, package, matching rule)", build_nat_rows:     *)
(* whatever admins edit while the report is made, a use that has held from *)
(* its begin to its end has a row, and its object is not listed as unused, *)
(* if the object, the groups and the rules of the package could be read    *)
(* and no rule of that package was deleted or moved between two pages.     *)
UsesAreReported ==
    collected.phase = "done" /\ collected.groups =>
      \A u \in steady :
        u.object \in collected.objects /\ u.package \in collected.ok \ shifted => u \in rows /\ u.object \notin unused

-----------------------------------------------------------------------------
(* Deviations, see the README; no run states them.                         *)

(* "NAT objects used by no rule": not when groups could not be read, which *)
(* the report does not say, or the package that uses it, which it does.    *)
UnusedIsUnused ==
    collected.phase = "done" => \A u \in steady : u.object \notin unused

(* "guaranteeing all rules are returned", get_policies: not when one of an *)
(* earlier page is deleted or moved meanwhile.                             *)
AllRulesReturned ==
    collected.phase = "done" /\ collected.groups =>
      \A u \in steady : u.object \in collected.objects /\ u.package \in collected.ok => u \in rows
=============================================================================
