---------------------------- MODULE ObjectGroups ----------------------------
(***************************************************************************)
(* How 4THealth+ expands address and service groups.                       *)
(*                                                                         *)
(* Groups nest, may be cyclic while an admin edits them, and may contain   *)
(* objects without fixed networks (FQDN, geography) or names that no       *)
(* longer exist.  Five pieces of code expand them, each with an answer of  *)
(* its own to what cannot be resolved: the hygiene checks (a group is      *)
(* resolved only if all of it is), the rule lookup (what resolves counts), *)
(* the change planner (the same, unless nothing resolves), its blast       *)
(* radius, and the search for unused objects.  The state is the catalog of *)
(* groups; its only action is an admin's edit.  The expansions are         *)
(* operators over it, compared with reachability.                          *)
(*                                                                         *)
(* An object stands for its networks or port ranges: to resolve a name is  *)
(* to find the objects behind it.                                          *)
(***************************************************************************)
EXTENDS Integers, Sequences, FiniteSets, TLC

CONSTANTS
    Leaf,         \* address objects, VIPs and service objects
    Kind,         \* what each of them is: a key of Kinds
    Group,        \* names of groups
    Gone,         \* names of deleted objects that groups still list
    MaxMembers,   \* bound on the members of a group
    Unresolved    \* None: cannot be resolved

Kinds == {"subnet", "iprange", "mapped", "vip", "fqdn"}

ASSUME GroupsAssumption ==
    /\ Kind \in [Leaf -> Kinds]
    /\ Leaf \cap Group = {} /\ Gone \cap (Leaf \cup Group) = {}
    /\ IsFiniteSet(Group) /\ MaxMembers \in Nat
    /\ \A nets \in SUBSET Leaf : nets # Unresolved

Member == Leaf \cup Group \cup Gone

VARIABLE members   \* the member list of each group

GroupsTypeOK == \A g \in Group : members[g] \in Seq(Member) /\ Len(members[g]) <= MaxMembers

GroupsInit == members = [g \in Group |-> <<>>]

(* An admin adds a member to a group in FortiManager.                      *)
AddMember(g, m) ==
    /\ Len(members[g]) < MaxMembers
    /\ \A i \in DOMAIN members[g] : members[g][i] # m
    /\ members' = [members EXCEPT ![g] = Append(@, m)]

GroupsNext == \E g \in Group, m \in Member : AddMember(g, m)

groupsVars == <<members>>

GroupsSpec == GroupsInit /\ [][GroupsNext]_groupsVars

-----------------------------------------------------------------------------
(* Reference: what lies below a name, by the definition of reachability.   *)

Listed(g) == {members[g][i] : i \in DOMAIN members[g]}

Below(names) ==
    LET step[n \in Nat] ==
          IF n = 0 THEN names
          ELSE step[n - 1] \cup UNION {Listed(g) : g \in step[n - 1] \cap Group}
    IN  step[Cardinality(Group)]

Cyclic(g) == g \in Below(Listed(g))

-----------------------------------------------------------------------------
(* Which objects have networks that the code can read.                     *)

(* A subnet, the first mapping of a managed device, or the external        *)
(* address of a VIP.  FortiManager keeps the bounds of a range in fields   *)
(* of their own, which _addr_subnet does not read.                         *)
_addr_subnet(o) == Kind[o] \in {"subnet", "mapped"}
_vip_addr(o)    == Kind[o] = "vip"
HygieneKnows(o) == _addr_subnet(o) \/ _vip_addr(o)

(* The planner reads subnets and ranges, and knows neither VIPs nor        *)
(* dynamic objects.                                                        *)
_networks_for_object(o) == Kind[o] \in {"subnet", "iprange"}

-----------------------------------------------------------------------------
(* Hygiene: build_addr_resolver and build_svc_resolver                     *)

(* A group without any network is not resolved.                            *)
ResolvedNets(union) == IF union = {} THEN Unresolved ELSE union

GroupCall ==
    [todo : Seq(Member), seen : SUBSET Group, union : SUBSET Leaf,
     memo : UNION {[D -> (SUBSET Leaf) \cup {Unresolved}] : D \in SUBSET Group}]

Memoized(memo, m, nets) == [n \in DOMAIN memo \cup {m} |-> IF n = m THEN nets ELSE memo[n]]

(* _resolve_group over a list of members.  seen is the path from the group *)
(* asked for, memo the dict resolved, which all calls share: an entry made *)
(* inside a cycle stays.  The first member that does not resolve ends the  *)
(* loop.                                                                   *)
_resolve_group[call \in GroupCall] ==
    IF call.todo = <<>> THEN [nets |-> call.union, memo |-> call.memo]
    ELSE LET m == Head(call.todo)
             Nested ==
               LET inner == _resolve_group[[call EXCEPT !.todo = members[m],
                                                        !.seen = @ \cup {m},
                                                        !.union = {}]]
                   nets  == ResolvedNets(inner.nets)
               IN  [nets |-> nets, memo |-> Memoized(inner.memo, m, nets)]
             Known == [nets |-> IF m \in DOMAIN call.memo THEN call.memo[m]
                                ELSE IF m \in Leaf /\ HygieneKnows(m) THEN {m} ELSE Unresolved,
                       memo |-> call.memo]
             one == IF m \in Group \ (call.seen \cup DOMAIN call.memo) THEN Nested ELSE Known
         IN  IF one.nets = Unresolved THEN one
             ELSE _resolve_group[[call EXCEPT !.todo = Tail(@),
                                              !.memo = one.memo,
                                              !.union = @ \cup one.nets]]

(* The loop over all group names, in the order FortiManager listed them.   *)
Resolver(order) ==
    LET after[i \in 0..Len(order)] ==
          IF i = 0 THEN [g \in {} |-> Unresolved]
          ELSE _resolve_group[[todo |-> <<order[i]>>, seen |-> {},
                               memo |-> after[i - 1], union |-> {}]].memo
    IN  after[Len(order)]

build_addr_resolver(order) == Resolver(order)

(* The same recursion, on the port ranges of service objects.              *)
build_svc_resolver(order) == Resolver(order)

-----------------------------------------------------------------------------
(* Rule lookup: resolve_groups, a walk with a stack                        *)

StackCall == [stack : Seq(Member), seen : SUBSET Member, nets : SUBSET Leaf]

WalkStack[call \in StackCall] ==
    IF call.stack = <<>> THEN call.nets
    ELSE LET n    == call.stack[Len(call.stack)]
             rest == SubSeq(call.stack, 1, Len(call.stack) - 1)
         IN  IF n \in call.seen THEN WalkStack[[call EXCEPT !.stack = rest]]
             ELSE WalkStack[[stack |-> IF n \in Group THEN rest \o members[n] ELSE rest,
                             seen  |-> call.seen \cup {n},
                             nets  |-> IF n \in Leaf /\ HygieneKnows(n)
                                       THEN call.nets \cup {n} ELSE call.nets]]

resolve_groups(g) ==
    LET nets == WalkStack[[stack |-> <<g>>, seen |-> {}, nets |-> {}]]
    IN  IF nets = {} THEN Unresolved ELSE nets

-----------------------------------------------------------------------------
(* Planner: AddressCatalog, ServiceCatalog and FQDNCatalog                 *)

NameCall == [todo : Seq(Member), seen : SUBSET Member, nets : SUBSET Leaf, known : BOOLEAN]

(* _resolve over a list of members.  One set seen serves the whole call:   *)
(* a name met again, in a cycle or not, gives an empty list, which counts  *)
(* as known.  known tells whether any member so far was.                   *)
_resolve[call \in NameCall] ==
    IF call.todo = <<>> THEN call
    ELSE LET m     == Head(call.todo)
             enter == [call EXCEPT !.todo = IF m \in Group THEN members[m] ELSE <<>>,
                                   !.seen = @ \cup {m}, !.nets = {}, !.known = FALSE]
             sub   == IF m \in call.seen THEN [call EXCEPT !.nets = {}, !.known = TRUE]
                      ELSE IF m \in Group THEN _resolve[enter]
                      ELSE IF m \in Leaf /\ _networks_for_object(m)
                           THEN [enter EXCEPT !.nets = {m}, !.known = TRUE]
                      ELSE enter
         IN  _resolve[[todo  |-> Tail(call.todo),
                       seen  |-> sub.seen,
                       nets  |-> call.nets \cup sub.nets,
                       known |-> call.known \/ sub.known]]

(* Mutant of networks_for_ref: nested groups are not expanded.            *)
networks_for_ref_one_level(name) ==
    IF name \in Group
    THEN {m \in Listed(name) \cap Leaf : _networks_for_object(m)}
    ELSE IF name \in Leaf /\ _networks_for_object(name) THEN {name} ELSE Unresolved

networks_for_ref(name) ==
    LET result == _resolve[[todo |-> <<name>>, seen |-> {}, nets |-> {}, known |-> FALSE]]
    IN  IF result.known THEN result.nets ELSE Unresolved

(* leaf_names: the objects of a group, in the order of the walk.           *)
LeafCall == [stack : Seq(Member), seen : SUBSET Member, out : Seq(Leaf)]

WalkLeaves[call \in LeafCall] ==
    IF call.stack = <<>> THEN call.out
    ELSE LET n    == Head(call.stack)
             rest == Tail(call.stack)
         IN  IF n \in call.seen THEN WalkLeaves[[call EXCEPT !.stack = rest]]
             ELSE WalkLeaves[[stack |-> IF n \in Group THEN members[n] \o rest ELSE rest,
                              seen  |-> call.seen \cup {n},
                              out   |-> IF n \in Leaf THEN Append(call.out, n) ELSE call.out]]

leaf_names(g) == WalkLeaves[[stack |-> <<g>>, seen |-> {}, out |-> <<>>]]

-----------------------------------------------------------------------------
(* Unused objects: _expand_group_members and find_unused_objects           *)

(* queue.pop() takes the last name of a list that begins with the names    *)
(* the policies refer to, in the order of a Python set, which is any.  A   *)
(* member is marked visited when its group is expanded, and a visited name *)
(* is not expanded when its own turn comes.                                *)
_expand_group_members(refs) ==
    LET expand[call \in [queue : Seq(Group), visited : SUBSET Member]] ==
          IF call.queue = <<>> THEN call.visited
          ELSE LET n    == call.queue[Len(call.queue)]
                   rest == SubSeq(call.queue, 1, Len(call.queue) - 1)
               IN  IF n \in call.visited THEN expand[[call EXCEPT !.queue = rest]]
                   ELSE expand[[queue   |-> rest \o SelectSeq(members[n], LAMBDA m : m \in Group),
                                visited |-> call.visited \cup {n} \cup Listed(n)]]
        Orders == {q \in [1..Cardinality(refs \cap Group) -> refs \cap Group] :
                     \A i, j \in DOMAIN q : q[i] = q[j] => i = j}
    IN  {expand[[queue |-> q, visited |-> {}]] : q \in Orders}

(* The reports find_unused_objects can give on policies that refer to refs.*)
find_unused_objects(refs) ==
    {(Leaf \cup Group) \ (refs \cup expanded) : expanded \in _expand_group_members(refs)}

-----------------------------------------------------------------------------
(* Properties                                                              *)

Orders == {q \in [1..Cardinality(Group) -> Group] : \A i, j \in DOMAIN q : q[i] = q[j] => i = j}

(* A group is resolved for the shadow and redundancy checks exactly if     *)
(* everything below it is: no name is gone or without networks, no nested  *)
(* group is empty, nothing is cyclic.  It then has all the networks below  *)
(* it.  The memo, which is also written inside cycles, and the order in    *)
(* which groups are listed make no difference.                             *)
ResolvedMeansComplete ==
    \A order \in Orders, g \in Group :
      LET below  == Below({g})
          opaque == \/ \E m \in below \ Group : m \in Gone \/ ~HygieneKnows(m)
                    \/ \E h \in below \cap Group : members[h] = <<>> \/ Cyclic(h)
      IN  build_addr_resolver(order)[g] = IF opaque THEN Unresolved ELSE below \cap Leaf

(* The rule lookup finds every resolvable object below a group, whatever   *)
(* else the group contains and through cycles, and only those; the planner *)
(* loses none either, though the names it has seen are shared by all the   *)
(* branches of a call, and lists the services of a group once each.        *)
ExpansionsLoseNothing ==
    \A g \in Group :
      LET below == Below({g})
          leafs == leaf_names(g)
      IN  /\ resolve_groups(g) \in {below \cap {o \in Leaf : HygieneKnows(o)}, Unresolved}
          /\ networks_for_ref(g) \in {below \cap {o \in Leaf : _networks_for_object(o)}, Unresolved}
          /\ {leafs[i] : i \in DOMAIN leafs} = below \cap Leaf
          /\ Len(leafs) = Cardinality(below \cap Leaf)

(* What each of the three ways to expand a group says of it is right, and  *)
(* says it of everything below the group.                                  *)
ExpansionsAreRight == ResolvedMeansComplete /\ ExpansionsLoseNothing

-----------------------------------------------------------------------------
(* Deviations, see the README; no run states them.                         *)

(* "Objects used only inside a group that IS referenced by a policy are    *)
(* considered used (via group membership expansion)", find_unused_objects. *)
UsedThroughGroups ==
    \A refs \in SUBSET Group : \A unused \in find_unused_objects(refs) :
      unused \cap Below(refs) = {}

(* "Unknown object names resolve to None", matching.py: a resolved group   *)
(* has nothing unknown below it.                                           *)
UnknownResolvesToNone ==
    \A g \in Group :
      networks_for_ref(g) # Unresolved =>
        \A m \in Below({g}) \ Group : m \in Leaf /\ _networks_for_object(m)
=============================================================================
