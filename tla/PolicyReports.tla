----------------------------- MODULE PolicyReports -----------------------------
(***************************************************************************)
(* What two reports read for a policy package, one FortiManager call after *)
(* the other, while rules and groups are edited and traffic goes on:       *)
(*  - the rule policy export (bulk_policy_adom): the rules, the groups     *)
(*    they refer to with all that is below them, the names that nothing is *)
(*    known of, and hit counts from the devices or from FortiManager;      *)
(*  - hygiene_run, of which only the hit counts of the unhit check.        *)
(* A call for objects or hits that fails looks like one without results.   *)
(* The packages of an export have a worker each and share nothing, so one  *)
(* is enough; names of rules, interfaces and actions are left out.         *)
(***************************************************************************)
EXTENDS Integers, Sequences, FiniteSets, Functions, TLC

CONSTANTS
    AddrLeaf, SvcLeaf,     \* names of address and of service objects
    AddrGroup, SvcGroup,   \* names of address and of service groups
    NestChoice,            \* NestChoice[g]: the members a group may have, or NoGroup
    FirstNest,             \* the members at first
    RowChoice,             \* the rules a package may have: id, addr, svc and log
    Scope,                 \* the devices of the package, in order
    ScopeLimit,            \* devices hygiene_run asks (10)
    MaxLevels,             \* levels of groups that are expanded (8)
    MaxHits,               \* bound: hits of a rule on a device
    MaxChanges,            \* bound: edits and hits while a report is made
    NoGroup, NoCount,
    Leaf                   \* in a catalog, of a name that is no group

VARIABLES
    nest,      \* nest[g]: members of a group, or NoGroup
    table,     \* the rules of the package
    hits,      \* hits[d][id]: the counters of a device
    synced,    \* synced[id]: FortiManager's copy of their sums
    changes,   \* bounded: edits and hits while a report is made
    pull,      \* the report at work and what it has read
    sheet,     \* what it says
    counted,   \* history: the counters when the report began
    regrouped  \* history: the groups that were edited since

policyReportVars == <<nest, table, hits, synced, changes, pull, sheet, counted, regrouped>>

NestGroup     == AddrGroup \cup SvcGroup
NestName      == NestGroup \cup AddrLeaf \cup SvcLeaf
RowId         == {r.id : r \in RowChoice}
ScopeDevice   == Range(Scope)
HygieneScope  == SubSeq(Scope, 1, IF ScopeLimit < Len(Scope) THEN ScopeLimit ELSE Len(Scope))

(* Names of groups are used once, and groups nest among their like.        *)
ASSUME PolicyReportsAssumption ==
    /\ IsFiniteSet(NestGroup) /\ NestGroup \cap (AddrLeaf \cup SvcLeaf) = {} /\ AddrGroup \cap SvcGroup = {}
    /\ FirstNest = [g \in NestGroup |-> FirstNest[g]]
    /\ \A g \in NestGroup : \A members \in NestChoice[g] \cup {FirstNest[g]} :
          /\ members # Leaf
          /\ members # NoGroup => members \subseteq IF g \in AddrGroup THEN AddrLeaf \cup AddrGroup ELSE SvcLeaf \cup SvcGroup
    /\ \A r \in RowChoice : r.addr \subseteq AddrLeaf \cup AddrGroup /\ r.svc \subseteq SvcLeaf \cup SvcGroup
    /\ Scope \in Seq(ScopeDevice) /\ MaxLevels \in Nat \ {0} /\ ScopeLimit \in Nat /\ NoCount \notin Nat

Total(counts, id) == FoldFunction(LAMBDA c, sum : c[id] + sum, 0, counts)

-----------------------------------------------------------------------------
(* Catalogs: what is known of a name, the members of a group or Leaf.      *)

_build_addr_catalog(groupsRead) ==
    LET groups == IF groupsRead THEN {g \in AddrGroup : nest[g] # NoGroup} ELSE {}
    IN  [n \in AddrLeaf \cup groups |-> IF n \in groups THEN nest[n] ELSE Leaf]

_build_svc_catalog(groupsRead) ==
    LET groups == IF groupsRead THEN {g \in SvcGroup : nest[g] # NoGroup} ELSE {}
    IN  [n \in SvcLeaf \cup groups |-> IF n \in groups THEN nest[n] ELSE Leaf]

(* The groups a call is in are its own, so that an object that is reached  *)
(* twice is no cycle.                                                      *)
NestCall == [name : NestName, seen : SUBSET NestGroup]

Expansions(catalog) ==
    LET expand[call \in NestCall] ==
          IF Cardinality(call.seen) >= MaxLevels THEN {<<call.name, "max_depth">>}
          ELSE IF call.name \in call.seen THEN {<<call.name, "circular">>}
          ELSE IF call.name \notin DOMAIN catalog \/ catalog[call.name] = Leaf THEN {<<call.name, "leaf">>}
          ELSE UNION {expand[[name |-> m, seen |-> call.seen \cup {call.name}]] : m \in catalog[call.name]}
    IN  expand

_expand_group(name, catalog) == Expansions(catalog)[[name |-> name, seen |-> {}]]

(* A name that is unknown as an address and a group as a service is taken  *)
(* for known.                                                              *)
_collect_groups_from_rules(rules, addr, svc) ==
    LET Named(f)       == UNION {r[f] : r \in rules}
        Groups(f, cat) == {n \in Named(f) \cap DOMAIN cat : cat[n] # Leaf}
    IN  [addr    |-> [n \in Groups("addr", addr) |-> _expand_group(n, addr)],
         svc     |-> [n \in Groups("svc", svc) |-> _expand_group(n, svc)],
         unknown |-> ((Named("addr") \ DOMAIN addr) \cup (Named("svc") \ DOMAIN svc))
                       \ (Groups("addr", addr) \cup Groups("svc", svc))]

-----------------------------------------------------------------------------
(* FortiManager and the devices                                            *)

NoPull == [kind |-> "none", live |-> FALSE, todo |-> <<>>, state |-> "rules",
           addr |-> [n \in {} |-> Leaf], svc |-> [n \in {} |-> Leaf], whole |-> {},
           rules |-> {}, cached |-> [id \in {} |-> 0], map |-> [id \in {} |-> 0], answered |-> {}]

PolicyReportsInit ==
    /\ nest = FirstNest /\ table = {} /\ changes = 0
    /\ hits = [d \in ScopeDevice |-> [id \in RowId |-> 0]] /\ synced = [id \in RowId |-> 0]
    /\ pull = NoPull /\ sheet = [kind |-> "none"]
    /\ counted = hits /\ regrouped = {}

AtWork == pull.kind # "none"

Outside ==
    /\ changes < MaxChanges   \* bound
    /\ changes' = IF AtWork THEN changes + 1 ELSE changes
    /\ UNCHANGED <<pull, sheet, counted>>

EditGroup(g, members) ==
    /\ members # nest[g] /\ Outside
    /\ nest' = [nest EXCEPT ![g] = members]
    /\ regrouped' = regrouped \cup {g}
    /\ UNCHANGED <<table, hits, synced>>

EditRule(r) ==
    /\ Outside
    /\ table' = IF r \in table THEN table \ {r} ELSE {x \in table : x.id # r.id} \cup {r}
    /\ UNCHANGED <<nest, hits, synced, regrouped>>

Traffic(d, id) ==
    /\ hits[d][id] < MaxHits   \* bound
    /\ Outside
    /\ hits' = [hits EXCEPT ![d][id] = @ + 1]
    /\ UNCHANGED <<nest, table, synced, regrouped>>

SyncCounts ==
    /\ synced' = [id \in RowId |-> Total(hits, id)]
    /\ UNCHANGED <<nest, table, hits, changes, pull, sheet, counted, regrouped>>

-----------------------------------------------------------------------------
(* The reports                                                             *)

Pull(run) ==
    /\ ~AtWork
    /\ pull' = run
    /\ sheet' = [kind |-> "none"] /\ counted' = hits /\ regrouped' = {}
    /\ UNCHANGED <<nest, table, hits, synced, changes>>

(* The catalogs are read before the rules of the packages.                 *)
bulk_policy_adom(live, addrRead, svcRead) ==
    Pull([NoPull EXCEPT !.kind = "export", !.live = live, !.todo = IF live THEN Scope ELSE <<>>,
                        !.addr = _build_addr_catalog(addrRead), !.svc = _build_svc_catalog(svcRead),
                        !.whole = {f \in {"addr", "svc"} : IF f = "addr" THEN addrRead ELSE svcRead}])

(* When the scope cannot be read no device is asked.                       *)
hygiene_run_hits(scopeRead) ==
    Pull([NoPull EXCEPT !.kind = "unhit", !.todo = IF scopeRead THEN HygieneScope ELSE <<>>])

get_policies ==
    /\ AtWork /\ pull.state = "rules"
    /\ pull' = [pull EXCEPT !.state = "hits", !.rules = table, !.cached = synced]
    /\ UNCHANGED <<nest, table, hits, synced, changes, sheet, counted, regrouped>>

(* dict.update                                                             *)
Updated(old, new) == [id \in DOMAIN old \cup DOMAIN new |-> IF id \in DOMAIN new THEN new[id] ELSE old[id]]

(* Mutant of Merge: the counts of the devices replace each other.          *)
MergeLast(old, new) == Updated(old, new)

(* An export keeps the count of the last device that has a rule, hygiene   *)
(* the sum of all.                                                         *)
Merge(old, new) ==
    IF pull.kind = "export" THEN Updated(old, new)
    ELSE [id \in DOMAIN old \cup DOMAIN new |->
             (IF id \in DOMAIN old THEN old[id] ELSE 0) + (IF id \in DOMAIN new THEN new[id] ELSE 0)]

get_live_policy_hits(ok) ==
    /\ AtWork /\ pull.state = "hits" /\ pull.todo # <<>>
    /\ LET d == Head(pull.todo)
       IN  pull' = [pull EXCEPT !.todo = Tail(@),
                                !.map = Merge(@, IF ok THEN hits[d] ELSE [id \in {} |-> 0]),
                                !.answered = IF ok THEN @ \cup {d} ELSE @]
    /\ UNCHANGED <<nest, table, hits, synced, changes, sheet, counted, regrouped>>

Finish(result) ==
    /\ sheet' = result
    /\ pull' = NoPull
    /\ UNCHANGED <<nest, table, hits, synced, changes, counted, regrouped>>

_policy_for_pkg ==
    /\ pull.kind = "export" /\ pull.state = "hits" /\ pull.todo = <<>>
    /\ LET Live(id)  == IF id \in DOMAIN pull.map THEN pull.map[id] ELSE NoCount
           Count(r)  == IF ~r.log THEN NoCount ELSE IF pull.live THEN Live(r.id) ELSE pull.cached[r.id]
       IN  Finish([kind   |-> "export", live |-> pull.live, whole |-> pull.whole,
                   rows   |-> {[rule |-> r, hits |-> Count(r)] : r \in pull.rules},
                   groups |-> _collect_groups_from_rules(pull.rules, pull.addr, pull.svc)])

(* The call for the rules fails: an export says so for the package, and    *)
(* hygiene_run answers with an error.                                      *)
FailPull ==
    /\ AtWork /\ pull.state = "rules"
    /\ Finish([kind |-> "error"])

(* The counts are laid over those of FortiManager.                         *)
hygiene_run_unhit ==
    /\ pull.kind = "unhit" /\ pull.state = "hits" /\ pull.todo = <<>>
    /\ LET Count(id) == IF id \in DOMAIN pull.map THEN pull.map[id] ELSE pull.cached[id]
       IN  Finish([kind  |-> "unhit", answered |-> pull.answered,
                   unhit |-> {r.id : r \in {x \in pull.rules : Count(x.id) = 0}}])

PolicyReportsNext ==
    \/ \E g \in NestGroup : \E members \in NestChoice[g] : EditGroup(g, members)
    \/ \E r \in RowChoice : EditRule(r)
    \/ \E d \in ScopeDevice, id \in RowId : Traffic(d, id)
    \/ SyncCounts
    \/ \E live, addrRead, svcRead \in BOOLEAN : bulk_policy_adom(live, addrRead, svcRead)
    \/ \E ok \in BOOLEAN : hygiene_run_hits(ok) \/ get_live_policy_hits(ok)
    \/ get_policies \/ _policy_for_pkg \/ FailPull \/ hygiene_run_unhit

PolicyReportsSpec == PolicyReportsInit /\ [][PolicyReportsNext]_policyReportVars

-----------------------------------------------------------------------------
(* Properties                                                              *)

(* Reference: chains of groups that lead from a group to a name.           *)
Chains(members, g) ==
    {c \in UNION {[1..n -> NestGroup] : n \in 1..Cardinality(NestGroup)} :
        /\ c[1] = g /\ \A i, j \in DOMAIN c : c[i] = c[j] => i = j
        /\ \A i \in DOMAIN c : members[c[i]] # NoGroup /\ (i > 1 => c[i] \in members[c[i - 1]])}

BelowIt(g) ==
    UNION {{<<m, IF m \in Range(c) THEN "circular" ELSE "leaf">> :
              m \in {x \in nest[c[Len(c)]] : x \notin NestGroup \/ nest[x] = NoGroup \/ x \in Range(c)}} :
           c \in Chains(nest, g)}

Steady(g) == g \notin regrouped /\ \A c \in Chains(nest, g) : nest[c[Len(c)]] \cap regrouped = {}

(* "Recursively expand a group name to its leaf members ... prevents false *)
(* cycle detection for diamond-shaped hierarchies", _expand_group, and     *)
(* "names referenced in rules but absent from both the address and service *)
(* catalogs", _collect_groups_from_rules: a group that a rule of the       *)
(* export refers to and that nobody edited is listed with all and only the *)
(* objects below it, and marked as cyclic where it is; a name that did not *)
(* exist is listed as unknown.  A live count is one that a device had      *)
(* while the report was made.                                              *)
ExportSaysWhatIsThere ==
    sheet.kind = "export" =>
      /\ \A row \in sheet.rows, f \in sheet.whole : \A n \in row.rule[f] :
           /\ n \in (IF f = "addr" THEN AddrGroup ELSE SvcGroup) /\ Steady(n) /\ nest[n] # NoGroup
                => n \in DOMAIN sheet.groups[f] /\ sheet.groups[f][n] = BelowIt(n)
           /\ n \in NestGroup \ regrouped /\ nest[n] = NoGroup => n \in sheet.groups.unknown
      /\ \A row \in sheet.rows :
           sheet.live /\ row.hits # NoCount =>
             \E d \in ScopeDevice : row.hits \in counted[d][row.rule.id]..hits[d][row.rule.id]

(* "Hit count is 0 -- rule has never matched traffic", check_unhit: when   *)
(* all devices of the package could be asked, no device had counted a hit  *)
(* of a rule that is reported as unhit when the report began.              *)
UnhitIsUnhit ==
    sheet.kind = "unhit" /\ sheet.answered = ScopeDevice =>
      \A id \in sheet.unhit, d \in ScopeDevice : counted[d][id] = 0

(* The export and the hygiene report of hit counts, made while the package *)
(* is edited and traffic flows.                                            *)
ReportsSayWhatIsThere == ExportSaysWhatIsThere /\ UnhitIsUnhit

-----------------------------------------------------------------------------
(* Deviations, see the README; no run states them.                         *)

(* The same when a device or all of them could not be asked, or there are  *)
(* more than hygiene_run asks: it does not hold.                           *)
UnhitIsAlwaysUnhit ==
    sheet.kind = "unhit" => \A id \in sheet.unhit, d \in ScopeDevice : counted[d][id] = 0

(* "Live (as of report time)": of several devices the last is reported, so *)
(* that a rule that another has hit may have no hits.                      *)
LiveMeansAllDevices ==
    \A row \in IF sheet.kind = "export" THEN sheet.rows ELSE {} :
      sheet.live /\ row.hits = 0 => \A d \in ScopeDevice : counted[d][row.rule.id] = 0
=============================================================================
