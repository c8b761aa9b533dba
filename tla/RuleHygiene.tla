----------------------------- MODULE RuleHygiene -----------------------------
(***************************************************************************)
(* The hygiene checks of a policy package (hygiene.py) and the fixes that  *)
(* Hygiene Fix offers for their findings (hygiene_fix.py).                 *)
(*                                                                         *)
(* The package lives in FortiManager, where admins edit it.  A run reads   *)
(* it and produces findings; an engineer pastes them later, the options    *)
(* are computed from the package as it is then, and the CLI of one of them *)
(* is applied.  What packets a rule matches is the reference the checks    *)
(* are held against.                                                       *)
(***************************************************************************)
EXTENDS Integers, Sequences, FiniteSets

CONSTANTS
    Object,       \* names of address and service objects
    Wild,         \* the names all and any
    Dangling,     \* the placeholder of deleted objects, and empty groups
    Opaque,       \* the resolver has None for a name
    Networks,     \* the resolver: the networks (sets of points) of a name, or Opaque
    Point,        \* addresses and ports
    Denotes,      \* the points that a name stands for on the firewall
    Interface,    \* interface pairs
    User,         \* groups of users
    Schedule,     \* schedule objects
    Shape,        \* the rules admins write; their id is NoRule until they are added
    Grace,        \* days after which a disabled rule may be deleted (90)
    TagRoom,      \* tags that fit into a comment
    MaxRules, MaxDay   \* bounds

Dim == {"srcaddr", "dstaddr", "service"}

NoRule == 0
Tag  == [day : 0..MaxDay, exempt : BOOLEAN]
Rule == [id : Nat, status : {"enable", "disable"}, tags : Seq(Tag), block : BOOLEAN, named : BOOLEAN,
         comment : BOOLEAN, log : {"all", "utm", "disable"}, schedule : {"always", "past"} \cup Schedule,
         hits : Nat, profiles : BOOLEAN, ident : SUBSET User, intf : SUBSET Interface, action : {"accept", "deny"},
         on : [Dim -> SUBSET (Object \cup Dangling)], negated : SUBSET Dim]

ASSUME HygieneAssumption ==
    /\ Shape \subseteq Rule
    /\ Wild \cap Dangling = {}
    /\ TagRoom \in Nat /\ MaxDay \in Nat

ASSUME ResolverSound ==
    \A o \in Object : Networks[o] # Opaque => UNION Networks[o] = Denotes[o]
ASSUME WildIsEverything == \A o \in Wild \cap Object : Denotes[o] = Point

VARIABLES
    pkg,       \* the rules of the package, in order
    today,
    nextId,    \* the policy id of the next rule
    report,    \* the findings of the last run
    edited     \* history: has anything but a "disable" fix changed the package since?

hygieneVars == <<pkg, today, nextId, report, edited>>

-----------------------------------------------------------------------------
(* Fields                                                                  *)

_status(r)  == r.status
_is_exempt(r) == \E i \in DOMAIN r.tags : r.tags[i].exempt
_is_any(r, d) == r.on[d] \cap Wild # {}
Commented(r) == r.comment \/ r.tags # <<>>

Finding(r, check, by) == [id |-> r.id, check |-> check, by |-> by, narrow |-> {}]

(* Rules, without the entries that stand for a global policy block.        *)
Regular(p) == {i \in DOMAIN p : ~p[i].block}
Enabled(p) == {i \in Regular(p) : _status(p[i]) # "disable"}

-----------------------------------------------------------------------------
(* _covers: does a set of names cover another?  By a wildcard, by name, or *)
(* by networks, when every name of both sides has some.  Without a         *)
(* resolver only names count: known tells whether the run has one.         *)

Resolved(names) == UNION {Networks[o] : o \in names}

ContainedByNetwork(a, b) ==
    /\ \A o \in a \cup b : o \in Object /\ Networks[o] # Opaque
    /\ Resolved(a) # {} /\ Resolved(b) # {}
    /\ \A n \in Resolved(b) : \E m \in Resolved(a) : n \subseteq m

(* Mutant of _covers: any overlap of networks is taken for containment.    *)
_covers_overlap(a, b, known) ==
    \/ b = {}
    \/ a \cap Wild # {}
    \/ b \subseteq a
    \/ /\ known
       /\ \A o \in a \cup b : o \in Object /\ Networks[o] # Opaque
       /\ \E n \in Resolved(b) : \E m \in Resolved(a) : n \cap m # {}

_covers(a, b, known) ==
    \/ b = {}
    \/ a \cap Wild # {}
    \/ b \subseteq a
    \/ known /\ ContainedByNetwork(a, b)

CoversScope(a, b, known) == a.ident = b.ident /\ \A d \in Dim : _covers(a.on[d], b.on[d], known)

-----------------------------------------------------------------------------
(* The checks                                                              *)

Checked(p) == {p[i] : i \in Regular(p)}

Flag(rules, check) == {Finding(r, check, NoRule) : r \in rules}

check_unnamed(p)  == Flag({r \in Checked(p) : ~r.named \/ ~Commented(r)}, "unnamed")
check_unlogged(p) == Flag({r \in Checked(p) : r.log = "disable"}, "unlogged")
check_disabled(p) == Flag({r \in Checked(p) : _status(r) = "disable"}, "disabled")
check_expired(p)  == Flag({r \in Checked(p) : r.schedule # "always"}, "expired")
check_unhit(p)    == Flag({r \in Checked(p) : r.hits = 0}, "unhit")
check_security_profile_gap(p) ==
    Flag({r \in Checked(p) : r.action = "accept" /\ ~r.profiles}, "missing_security_profile")
check_over_permissive(p) ==
    Flag({r \in Checked(p) : /\ _status(r) = "enable" /\ r.action = "accept"
                            /\ Cardinality({d \in Dim : _is_any(r, d)}) >= 2}, "over_permissive")
check_broken_refs(p) ==
    Flag({r \in Checked(p) : \E d \in Dim : r.on[d] \cap Dangling # {}}, "broken_refs")

(* The earlier rules that a rule is compared with, and the one that it is  *)
(* reported against: the first that fits.                                  *)
Earlier(p, j) == {i \in Enabled(p) : i < j}

FirstAbove(places) ==
    IF places = {} THEN NoRule ELSE CHOOSE i \in places : \A k \in places : i <= k

Shadowing(p, j, known) == FirstAbove({i \in Earlier(p, j) : CoversScope(p[i], p[j], known)})

(* _fix_shadow offers to narrow the shadowing rule a when its names differ *)
(* from those of the shadowed rule b in one field, without a wildcard: it  *)
(* keeps the names of a that b does not have.  Both rules are summarised   *)
(* in the finding, and these summaries decide.                             *)
_diff_dims(a, b) == {d \in Dim : a.on[d] # b.on[d]}

Narrowed(a, b) ==
    {<<d, a.on[d] \ b.on[d]>> : d \in {e \in _diff_dims(a, b) :
        _diff_dims(a, b) = {e} /\ ~_is_any(a, e) /\ ~(a.on[e] \subseteq b.on[e])}}

ShadowFinding(a, b) == [Finding(b, "shadow", a.id) EXCEPT !.narrow = Narrowed(a, b)]

check_shadow(p, known) ==
    {ShadowFinding(p[Shadowing(p, j, known)], p[j]) :
        j \in {k \in Enabled(p) : Shadowing(p, k, known) # NoRule}}

(* Mutant of Duplicate: the containment is only asked for the wrong way.   *)
DuplicateWider(p, j, known) ==
    FirstAbove({i \in Earlier(p, j) : p[i].action = p[j].action /\ CoversScope(p[j], p[i], known)})

Duplicate(p, j, known) ==
    FirstAbove({i \in Earlier(p, j) : /\ p[i].action = p[j].action
                                     /\ CoversScope(p[i], p[j], known) /\ CoversScope(p[j], p[i], known)})

check_redundant_rules(p, known) ==
    {Finding(p[j], "redundant", p[Duplicate(p, j, known)].id) :
        j \in {k \in Enabled(p) : Duplicate(p, k, known) # NoRule}}

(* run_checks with every check; exempted rules are left out of the result, *)
(* not of the analysis.                                                    *)
run_checks(p, known) ==
    LET found == UNION {check_unnamed(p), check_unlogged(p), check_shadow(p, known), check_disabled(p),
                        check_expired(p), check_unhit(p), check_security_profile_gap(p),
                        check_redundant_rules(p, known), check_over_permissive(p), check_broken_refs(p)}
        exempt == {p[i].id : i \in {j \in DOMAIN p : _is_exempt(p[j])}}
    IN  {f \in found : f.id \notin exempt}

-----------------------------------------------------------------------------
(* The package                                                             *)

HygieneInit ==
    /\ pkg = <<>>
    /\ today = 0
    /\ nextId = 1
    /\ report = {}
    /\ edited = FALSE

PlaceOf(id) == CHOOSE i \in DOMAIN pkg : pkg[i].id = id
Live(id) == \E i \in DOMAIN pkg : pkg[i].id = id
Without(p, i) == SubSeq(p, 1, i - 1) \o SubSeq(p, i + 1, Len(p))

Admin == edited' = TRUE /\ UNCHANGED <<today, report>>

(* An admin writes a rule at the end of the package.                       *)
AddRule(shape) ==
    /\ nextId <= MaxRules
    /\ pkg' = Append(pkg, [shape EXCEPT !.id = nextId])
    /\ nextId' = nextId + 1
    /\ Admin

(* An admin disables a rule, or enables it again.                          *)
Toggle(i) ==
    /\ pkg' = [pkg EXCEPT ![i].status = IF @ = "enable" THEN "disable" ELSE "enable"]
    /\ UNCHANGED nextId
    /\ Admin

NextDay ==
    /\ today < MaxDay
    /\ today' = today + 1
    /\ UNCHANGED <<pkg, nextId, report, edited>>

(* A run of all checks, the default, on the package as it is.  When the    *)
(* objects of the ADOM cannot be fetched it goes on without a resolver.    *)
hygiene_run(known) ==
    /\ pkg # <<>>
    /\ report' = run_checks(pkg, known)
    /\ edited' = FALSE
    /\ UNCHANGED <<pkg, today, nextId>>

-----------------------------------------------------------------------------
(* The fixes.  build_fixes matches a finding to the live rule with its id; *)
(* a finding whose rule is gone is stale and has no option.                *)

(* The first tag of a comment is the one that is found.                    *)
_find_tag(r) == IF r.tags = <<>> THEN -1 ELSE r.tags[1].day

(* A comment that is too long loses its end, never the new tag.            *)
_append_tag(r, exempt) ==
    [r EXCEPT !.tags = Append(SubSeq(@, 1, IF Len(@) < TagRoom THEN Len(@) ELSE TagRoom - 1),
                              [day |-> today, exempt |-> exempt])]

Disabled(r) == [_append_tag(r, FALSE) EXCEPT !.status = "disable"]

Change(i, rule) == pkg' = [pkg EXCEPT ![i] = rule]

(* Options that change one rule.                                           *)
Rewrites(f, r) ==
    CASE f.check = "unlogged" -> {[r EXCEPT !.log = "all"]}
      [] f.check = "unnamed" ->
           IF r.on["srcaddr"] \ Wild # {} /\ r.on["dstaddr"] \ Wild # {}
           THEN {[_append_tag(r, FALSE) EXCEPT !.named = TRUE]} ELSE {}
      [] f.check \in {"expired", "unhit", "redundant", "shadow"} -> {Disabled(r)}
      [] f.check = "disabled" -> IF _find_tag(r) = -1 THEN {_append_tag(r, FALSE)} ELSE {}
      [] f.check = "over_permissive" -> {Disabled(r), _append_tag(r, TRUE)}
      [] OTHER -> {}   \* missing_security_profile and broken_refs have no automatic fix

DisablesScope(f) == f.check \in {"shadow", "redundant"}

ApplyRewrite(f) ==
    /\ Live(f.id)
    /\ \E r \in Rewrites(f, pkg[PlaceOf(f.id)]) : Change(PlaceOf(f.id), r)
    /\ edited' = (edited \/ ~DisablesScope(f))
    /\ UNCHANGED <<today, nextId, report>>

(* _fix_disabled: a rule that was tagged long ago may be deleted.          *)
ApplyDelete(f) ==
    /\ f.check = "disabled" /\ Live(f.id)
    /\ _find_tag(pkg[PlaceOf(f.id)]) # -1
    /\ today - _find_tag(pkg[PlaceOf(f.id)]) > Grace
    /\ pkg' = Without(pkg, PlaceOf(f.id))
    /\ edited' = TRUE
    /\ UNCHANGED <<today, nextId, report>>

(* The summaries of the two rules, which a finding carries, tell whether   *)
(* the actions differ; they are read from the report here, where the rules *)
(* keep their action.  FortiOS rejects the move when the other rule is     *)
(* gone.                                                                   *)
ApplyReorder(f) ==
    /\ f.check = "shadow" /\ Live(f.id) /\ Live(f.by)
    /\ PlaceOf(f.by) < PlaceOf(f.id)
    /\ pkg[PlaceOf(f.id)].action # pkg[PlaceOf(f.by)].action
    /\ LET rest == Without(pkg, PlaceOf(f.id))
       IN  pkg' = SubSeq(rest, 1, PlaceOf(f.by) - 1) \o <<pkg[PlaceOf(f.id)]>> \o SubSeq(rest, PlaceOf(f.by), Len(rest))
    /\ edited' = TRUE
    /\ UNCHANGED <<today, nextId, report>>

ApplyNarrow(f) ==
    /\ f.check = "shadow" /\ Live(f.id) /\ Live(f.by)
    /\ \E n \in f.narrow : Change(PlaceOf(f.by), [pkg[PlaceOf(f.by)] EXCEPT !.on[n[1]] = n[2]])
    /\ edited' = TRUE
    /\ UNCHANGED <<today, nextId, report>>

HygieneNext ==
    \/ \E shape \in Shape : AddRule(shape)
    \/ \E i \in DOMAIN pkg : Toggle(i)
    \/ NextDay
    \/ \E known \in BOOLEAN : hygiene_run(known)
    \/ \E f \in report : ApplyRewrite(f) \/ ApplyDelete(f) \/ ApplyReorder(f) \/ ApplyNarrow(f)

HygieneSpec == HygieneInit /\ [][HygieneNext]_hygieneVars

-----------------------------------------------------------------------------
(* Reference: what the firewall does with a packet, which comes while some *)
(* of the schedules are active.  A rule whose date is past is never        *)
(* active; a negated side matches what its names do not denote.            *)

Packet == [intf : Interface, user : User \cup {NoRule}, during : SUBSET Schedule, at : [Dim -> Point]]

ActiveAt(r, k) == r.schedule = "always" \/ r.schedule \in k.during
Names(r, d, k) == \E o \in r.on[d] : k.at[d] \in Denotes[o]

Matches(r, k) ==
    /\ r.status = "enable" /\ ~r.block
    /\ ActiveAt(r, k)
    /\ k.intf \in r.intf
    /\ r.ident = {} \/ k.user \in r.ident
    /\ \A d \in Dim : Names(r, d, k) <=> d \notin r.negated

FirstMatch(p, k, i) ==
    /\ i \in DOMAIN p /\ Matches(p[i], k)
    /\ \A j \in DOMAIN p : j < i => ~Matches(p[j], k)

(* The two scope checks look at neither interfaces nor schedules nor       *)
(* negated sides.  What they say of two rules can only be meant for the    *)
(* packets that come on the interfaces and at the times of the rule above, *)
(* and for rules that negate nothing.                                      *)
InView(a, b, k) ==
    /\ k.intf \in a.intf
    /\ ActiveAt(a, k)
    /\ a.negated = {} /\ b.negated = {}

InViewOf(f, k) == InView(pkg[PlaceOf(f.by)], pkg[PlaceOf(f.id)], k)

-----------------------------------------------------------------------------
(* Properties                                                              *)

(* "Flag rules that will never be hit because an earlier rule already      *)
(* matches every connection that could reach them", check_shadow, as far   *)
(* as the check can see: no packet in its view reaches a rule reported as  *)
(* shadowed, whatever the rules in between are.                            *)
ShadowedNeverHit ==
    \A f \in check_shadow(pkg, TRUE) \cup check_shadow(pkg, FALSE), k \in Packet :
      InViewOf(f, k) => ~FirstMatch(pkg, k, PlaceOf(f.id))

(* Disabling the rules a run reported as shadowed or redundant, any of     *)
(* them and in any order, decides no packet otherwise that is in the view  *)
(* of these findings, as long as nothing else changed since.               *)
SameDecision(p, q, k) == \A i \in DOMAIN p : FirstMatch(p, k, i) <=> FirstMatch(q, k, i)

InViewOfAll(k) == \A f \in report : DisablesScope(f) => InViewOf(f, k)

FixesKeepDecisions ==
    [][\A f \in report : DisablesScope(f) /\ ApplyRewrite(f) /\ ~edited =>
         \A k \in Packet : InViewOfAll(k) => SameDecision(pkg, pkg', k)]_hygieneVars

-----------------------------------------------------------------------------
(* Deviations, see the README; no run states them.                         *)

(* The sentence of check_shadow quoted above, for every packet: a rule     *)
(* that is limited to a schedule or to other interfaces, or negates a      *)
(* side, leaves packets to the rules it is said to shadow; and so does a   *)
(* rule that negates what the rule above it names.                         *)
ShadowedNeverHitAtAll ==
    \A f \in check_shadow(pkg, TRUE), k \in Packet : ~FirstMatch(pkg, k, PlaceOf(f.id))

(* "Restrict rule ... to exclude this rule's traffic, so both rules become *)
(* independently reachable", _fix_shadow: the narrowed rule no longer      *)
(* shadows the other.                                                      *)
NarrowEndsShadow ==
    [][\A f \in report : ApplyNarrow(f) /\ ~edited =>
         ~CoversScope(pkg[PlaceOf(f.by)], pkg[PlaceOf(f.id)], TRUE)']_hygieneVars
=============================================================================
