--------------------------- MODULE PackageAlerts ---------------------------
(***************************************************************************)
(* Package Change Alerts (app/package_change_alerts.py): after each        *)
(* Config-Delta sweep of an ADOM, every rule of that ADOM is evaluated     *)
(* against the sweep's results, and the packages whose pending policy diff *)
(* is new are emailed.  What was emailed is remembered in the rule, in the *)
(* rules file, so that the same diff is not sent again.                    *)
(*                                                                         *)
(* The modelled evaluations run in one process (RUN_SCHEDULERS=inline, or  *)
(* the collector alone), where each "with _lock" block of the rules file   *)
(* is one step: module ScheduledJobs has the detail of such blocks.  All   *)
(* rules watch one ADOM.  A diff is what diff_hash tells apart: the policy *)
(* change pending on each device of the package that has one.              *)
(***************************************************************************)
EXTENDS Naturals, FiniteSets

CONSTANTS
    Rule,           \* rule ids (uuid4)
    Pkg,            \* policy packages of the ADOM
    Device,         \* its devices
    Group,          \* its device groups
    Scope,          \* the installation targets of a package: devices and groups
    Members,        \* the devices of a group
    WatchList,      \* the package lists that admins give their rules
    Change,         \* policy changes that can be pending on a device
    Evaluator,      \* Config-Delta jobs of the ADOM, which sweep and evaluate
    NoRule,         \* no rule with this id in the file
    Clean,          \* no policy change pending on the device
    Unreadable,     \* preview failed, or the device is missing from the results
    GroupReadFails, \* TRUE: reading the members of one group may fail
    SaveMayFail,    \* TRUE: writing the rules file may fail
    MaxCrashes,     \* bound: process crashes
    MaxFaults       \* bound: failures of FortiManager, SMTP and the disk

ASSUME ScopeAssumption ==
    /\ Device \cap Group = {}
    /\ Scope \in [Pkg -> SUBSET (Device \cup Group)]
    /\ Members \in [Group -> SUBSET Device]
    /\ WatchList \subseteq SUBSET Pkg
ASSUME FaultAssumption ==
    /\ GroupReadFails \in BOOLEAN
    /\ SaveMayFail \in BOOLEAN
    /\ MaxCrashes \in Nat
    /\ MaxFaults \in Nat

\* A diff maps the devices that have changes to them; NoDiff is "not diffs".
Diff   == UNION {[S -> Change] : S \in SUBSET Device}
NoDiff == [d \in {} |-> Clean]

\* A dedupe entry that is absent is NoDiff.
Sent      == [Pkg -> Diff]
RuleState == [enabled : BOOLEAN, packages : SUBSET Pkg, sent : Sent]
Result    == [Device -> Change \cup {Clean, Unreadable}]

ASSUME SentinelAssumption ==
    /\ NoRule \notin RuleState
    /\ {Clean, Unreadable} \cap Change = {}
    /\ Clean # Unreadable

VARIABLES
    rules,      \* package_change_alerts.json
    pending,    \* the policy change staged for each device in FortiManager
    eval,       \* program point and local variables of the evaluators
    crashes,    \* number of crashes so far
    faults,     \* number of failures so far
    created,    \* rule ids already generated
    asked,      \* history: what the admins last asked a rule to be
    delivered,  \* history: the diffs emailed for a rule and a package
    told        \* history: emails that reported the diff now pending (0, 1, many)

historyVars == <<asked, delivered, told>>
vars == <<rules, pending, eval, crashes, faults, created, historyVars>>

Idle == [pc |-> "idle", results |-> [d \in Device |-> Clean], rule |-> NoRule,
         queue |-> {}, snapshot |-> [r \in Rule |-> NoRule], targets |-> [p \in {} |-> {}],
         sent |-> [p \in Pkg |-> NoDiff], changed |-> {}]

Eval == [pc : {"idle", "load", "lookup", "next", "send", "save"}, results : Result,
         rule : Rule \cup {NoRule}, queue : SUBSET Rule, snapshot : [Rule -> RuleState \cup {NoRule}],
         targets : UNION {[S -> SUBSET (Device \cup Group)] : S \in SUBSET Pkg},
         sent : Sent, changed : SUBSET Pkg]

At(e, point) == eval[e].pc = point
Fault(ok) == IF ok THEN UNCHANGED faults ELSE faults < MaxFaults /\ faults' = faults + 1

----------------------------------------------------------------------------
(* Diffs and targets *)

\* package_targets: the scope of the packages found, with the groups that were
\* listed expanded; the members of the groups in unread came back empty.
package_targets(found, listed, unread) ==
    [p \in found |->
        UNION {IF m \notin Group \/ ~listed THEN {m}
               ELSE IF m \in unread THEN {} ELSE Members[m] : m \in Scope[p]}]

\* collect_package_diffs: what the results show pending on the targets.
collect_package_diffs(targets, results) ==
    [d \in {t \in targets \cap Device : results[t] \in Change} |-> results[d]]

\* A target that is not a device is a group that could not be expanded.
has_unreadable_targets(targets, results) ==
    \E t \in targets : t \notin Device \/ results[t] = Unreadable

\* The diff of package p that is pending in FortiManager now.
PendingDiff(p) ==
    collect_package_diffs(package_targets({p}, TRUE, {})[p], pending)

\* The dedupe state after looking at the results: a clean package is re-armed.
\* Watching nothing in particular means watching every package found.
Watched(rule, targets) == IF rule.packages = {} THEN DOMAIN targets ELSE rule.packages

Readable(rule, targets, results) ==
    {p \in Watched(rule, targets) \cap DOMAIN targets :
        ~has_unreadable_targets(targets[p], results)}

\* Mutant of Rearmed: an unreadable package counts as clean.
RearmedUnread(rule, targets, results) ==
    [p \in Pkg |->
        IF /\ p \in Watched(rule, targets) \cap DOMAIN targets
           /\ collect_package_diffs(targets[p], results) = NoDiff
        THEN NoDiff ELSE rule.sent[p]]

Rearmed(rule, targets, results) ==
    [p \in Pkg |->
        IF /\ p \in Readable(rule, targets, results)
           /\ collect_package_diffs(targets[p], results) = NoDiff
        THEN NoDiff ELSE rule.sent[p]]

\* Mutant of Changed: only a package with nothing sent yet is reported.
ChangedFirstOnly(rule, targets, results) ==
    {p \in Readable(rule, targets, results) :
        /\ collect_package_diffs(targets[p], results) # NoDiff
        /\ rule.sent[p] = NoDiff}

Changed(rule, targets, results) ==
    {p \in Readable(rule, targets, results) :
        collect_package_diffs(targets[p], results) \notin {NoDiff, rule.sent[p]}}

----------------------------------------------------------------------------
(* Evaluation *)

Move(e, f) == eval' = [eval EXCEPT ![e] = f]

\* bulk_preview_adom, by the Config-Delta job: the devices in bad cannot be previewed.
Sweep(e, bad) ==
    /\ At(e, "idle")
    /\ Fault(bad = {})
    /\ Move(e, [Idle EXCEPT !.pc = "load",
                  !.results = [d \in Device |-> IF d \in bad THEN Unreadable ELSE pending[d]]])
    /\ UNCHANGED <<rules, pending, crashes, created, historyVars>>

\* evaluate_alerts: the enabled rules are read under _lock, and used after it.
LoadRules(e) ==
    LET enabled == {r \in Rule : rules[r] # NoRule /\ rules[r].enabled} IN
    /\ At(e, "load")
    /\ Move(e, IF enabled = {} THEN Idle
               ELSE [eval[e] EXCEPT !.pc = "lookup", !.queue = enabled,
                       !.snapshot = [r \in Rule |-> IF r \in enabled THEN rules[r] ELSE NoRule]])
    /\ UNCHANGED <<rules, pending, crashes, faults, created, historyVars>>

\* _fetch_packages_and_groups: no package at all is an error, recorded on every
\* rule. Otherwise some packages are found, the groups are listed or not, and the
\* members of the groups in unread come back as an empty list.
Lookup(e, found, listed, unread) ==
    /\ At(e, "lookup")
    /\ unread # {} => GroupReadFails
    /\ Fault(found = Pkg /\ listed /\ unread = {})
    /\ Move(e, IF found = {} THEN Idle
               ELSE [eval[e] EXCEPT !.pc = "next",
                       !.targets = package_targets(found, listed, unread)])
    /\ UNCHANGED <<rules, pending, crashes, created, historyVars>>

\* _evaluate_rule, up to the emails. Without the policy reports (reports is FALSE)
\* no email can be built, and every changed package is an error.
EvaluateRule(e, r, reports) ==
    LET v == eval[e]
        changed == Changed(v.snapshot[r], v.targets, v.results) IN
    /\ At(e, "next")
    /\ r \in v.queue
    /\ changed = {} => reports
    /\ Fault(reports)
    /\ Move(e, [v EXCEPT !.pc = IF changed = {} \/ ~reports THEN "save" ELSE "send",
                  !.rule = r, !.queue = v.queue \ {r},
                  !.sent = Rearmed(v.snapshot[r], v.targets, v.results),
                  !.changed = IF reports THEN changed ELSE {}])
    /\ UNCHANGED <<rules, pending, crashes, created, historyVars>>

\* Mutant of Emailed: the diff is marked as sent whether or not it was.
EmailedAnyway(v, p, diff, ok) ==
    [v EXCEPT !.pc = IF v.changed = {p} THEN "save" ELSE "send",
              !.changed = v.changed \ {p},
              !.sent = [v.sent EXCEPT ![p] = diff]]

\* One email of _evaluate_rule. Only a delivered one enters the dedupe state.
Emailed(v, p, diff, ok) ==
    [v EXCEPT !.pc = IF v.changed = {p} THEN "save" ELSE "send",
              !.changed = v.changed \ {p},
              !.sent = IF ok THEN [v.sent EXCEPT ![p] = diff] ELSE v.sent]

SendAlert(e, p, ok) ==
    LET v == eval[e]
        r == v.rule
        diff == collect_package_diffs(v.targets[p], v.results) IN
    /\ At(e, "send")
    /\ p \in v.changed
    /\ Fault(ok)
    /\ Move(e, Emailed(v, p, diff, ok))
    /\ delivered' = IF ok THEN [delivered EXCEPT ![r][p] = @ \cup {diff}] ELSE delivered
    /\ told' = IF ok /\ diff = PendingDiff(p) /\ told[r][p] < 2
               THEN [told EXCEPT ![r][p] = @ + 1] ELSE told
    /\ UNCHANGED <<rules, pending, crashes, created, asked>>

\* Mutant of WithSent: the rule is written back as it was when the evaluation began.
WithSentFromSnapshot(r, v) == [rules EXCEPT ![r] = [v.snapshot[r] EXCEPT !.sent = v.sent]]

\* The rules file with the dedupe state of rule r replaced, unless r was deleted.
WithSent(r, v) ==
    IF rules[r] = NoRule THEN rules ELSE [rules EXCEPT ![r].sent = v.sent]

\* _save_rule_state reloads the file under _lock. Then the next rule is evaluated,
\* also when the save failed (the failure is recorded, without the dedupe state).
SaveRuleState(e, ok) ==
    LET v == eval[e] IN
    /\ At(e, "save")
    /\ ok \/ SaveMayFail
    /\ Fault(ok)
    /\ rules' = IF ok THEN WithSent(v.rule, v) ELSE rules
    /\ Move(e, IF v.queue = {} THEN Idle ELSE [v EXCEPT !.pc = "next"])
    /\ UNCHANGED <<pending, crashes, created, historyVars>>

----------------------------------------------------------------------------
(* Admin requests and the environment *)

Config(enabled, packages) == [enabled |-> enabled, packages |-> packages]

SetRule(r, enabled, packages, sent) ==
    /\ rules' = [rules EXCEPT ![r] = [enabled |-> enabled, packages |-> packages,
                                      sent |-> sent]]
    /\ asked' = [asked EXCEPT ![r] = Config(enabled, packages)]
    /\ UNCHANGED <<pending, eval, crashes, faults, delivered, told>>

create_rule(r, enabled, packages) ==
    /\ r \notin created
    /\ created' = created \cup {r}
    /\ SetRule(r, enabled, packages, [p \in Pkg |-> NoDiff])

\* An edit keeps what was already sent. (An unknown id is a KeyError.)
update_rule(r, enabled, packages) ==
    /\ rules[r] # NoRule
    /\ SetRule(r, enabled, packages, rules[r].sent)
    /\ UNCHANGED created

delete_rule(r) ==
    /\ rules[r] # NoRule
    /\ rules' = [rules EXCEPT ![r] = NoRule]
    /\ asked' = [asked EXCEPT ![r] = NoRule]
    /\ UNCHANGED <<pending, eval, crashes, faults, created, delivered, told>>

\* A change is committed, edited, withdrawn or installed in FortiManager.
Stage(d, c) ==
    /\ c # pending[d]
    /\ pending' = [pending EXCEPT ![d] = c]
    /\ told' = [r \in Rule |-> [p \in Pkg |->
                  IF PendingDiff(p)' = PendingDiff(p) THEN told[r][p] ELSE 0]]
    /\ UNCHANGED <<rules, eval, crashes, faults, created, asked, delivered>>

\* The process dies and is started again.
Crash ==
    /\ crashes < MaxCrashes
    /\ crashes' = crashes + 1
    /\ eval' = [e \in Evaluator |-> Idle]
    /\ UNCHANGED <<rules, pending, faults, created, historyVars>>

----------------------------------------------------------------------------
(* Specification *)

Init ==
    /\ rules = [r \in Rule |-> NoRule]
    /\ pending \in [Device -> Change \cup {Clean}]
    /\ eval = [e \in Evaluator |-> Idle]
    /\ crashes = 0 /\ faults = 0
    /\ created = {}
    /\ asked = [r \in Rule |-> NoRule]
    /\ delivered = [r \in Rule |-> [p \in Pkg |-> {}]]
    /\ told = [r \in Rule |-> [p \in Pkg |-> 0]]

EvalStep(e) ==
    \/ \E bad \in SUBSET Device : Sweep(e, bad)
    \/ LoadRules(e)
    \/ \E found \in SUBSET Pkg, listed \in BOOLEAN, unread \in SUBSET Group :
          Lookup(e, found, listed, unread)
    \/ \E r \in Rule, ok \in BOOLEAN : EvaluateRule(e, r, ok)
    \/ \E p \in Pkg, ok \in BOOLEAN : SendAlert(e, p, ok)
    \/ \E ok \in BOOLEAN : SaveRuleState(e, ok)

AdminStep ==
    \E r \in Rule :
        \/ \E enabled \in BOOLEAN, packages \in WatchList :
              create_rule(r, enabled, packages) \/ update_rule(r, enabled, packages)
        \/ delete_rule(r)

Next ==
    \/ \E e \in Evaluator : EvalStep(e)
    \/ AdminStep
    \/ \E d \in Device, c \in Change \cup {Clean} : Stage(d, c)
    \/ Crash

Spec == Init /\ [][Next]_vars

\* The Config-Delta jobs of the ADOM keep being run by their schedule, and an
\* evaluation that has begun goes on: its calls all have timeouts.
FairSpec == Spec /\ \A e \in Evaluator : WF_vars(EvalStep(e))

----------------------------------------------------------------------------
(* Properties *)

TypeOK ==
    /\ rules \in [Rule -> RuleState \cup {NoRule}]
    /\ pending \in [Device -> Change \cup {Clean}]
    /\ eval \in [Evaluator -> Eval]
    /\ crashes \in 0..MaxCrashes /\ faults \in 0..MaxFaults
    /\ created \subseteq Rule
    /\ asked \in [Rule -> [enabled : BOOLEAN, packages : SUBSET Pkg] \cup {NoRule}]
    /\ delivered \in [Rule -> [Pkg -> SUBSET Diff]]
    /\ told \in [Rule -> [Pkg -> 0..2]]

\* "The same pending diff is never emailed twice" (docs/features.md): while the diff
\* of a package stays what it is, a rule reports it in one email at most.
NeverEmailedTwice == \A r \in Rule, p \in Pkg : told[r][p] <= 1

\* A diff is only remembered as sent, and so never sent again, when an email with
\* it was delivered for this rule: whatever fails, crashes or runs concurrently.
SentWasDelivered ==
    \A r \in Rule, p \in Pkg :
        rules[r] # NoRule => rules[r].sent[p] \in delivered[r][p] \cup {NoDiff}

\* "Re-loads under the lock so concurrent rule edits are preserved": an evaluation
\* that saves its state neither undoes an edit nor brings back a deleted rule.
EditsPreserved ==
    \A r \in Rule :
        IF rules[r] = NoRule THEN asked[r] = NoRule
        ELSE asked[r] = Config(rules[r].enabled, rules[r].packages)

\* An enabled rule has not been told that diff is pending for a package it watches.
Owed(r, p, diff) ==
    /\ rules[r] # NoRule
    /\ rules[r].enabled
    /\ p \in Watched(rules[r], [q \in Pkg |-> {}])
    /\ PendingDiff(p) = diff
    /\ diff \notin {NoDiff, rules[r].sent[p]}

\* A failed preview, lookup, report, email or save delays an alert and never loses
\* it: once failures are over, a diff that stays pending is sent, if still wanted.
EventuallyTold ==
    \A r \in Rule, p \in Pkg : \A diff \in Diff : Owed(r, p, diff) ~> ~Owed(r, p, diff)

=============================================================================
