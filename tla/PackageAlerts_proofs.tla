------------------------ MODULE PackageAlerts_proofs ------------------------
(***************************************************************************)
(* Theorems about PackageAlerts, for any rules, packages, devices and      *)
(* groups, any number of concurrent evaluations, and any failures.         *)
(***************************************************************************)
EXTENDS PackageAlerts, TLAPS

(* Types of the operators that actions are built from *)

LEMMA NoDiffType == NoDiff \in Diff
<1>1. NoDiff \in [{} -> Change]
  BY DEF NoDiff
<1>. QED BY <1>1 DEF Diff

LEMMA DiffType ==
    ASSUME NEW targets, NEW results \in Result
    PROVE  collect_package_diffs(targets, results) \in Diff
<1> DEFINE S == {t \in targets \cap Device : results[t] \in Change}
<1>1. collect_package_diffs(targets, results) \in [S -> Change]
  BY DEF collect_package_diffs
<1>2. S \in SUBSET Device
  OBVIOUS
<1>. HIDE DEF S
<1>. QED BY <1>1, <1>2 DEF Diff

LEMMA RearmedType ==
    ASSUME NEW rule \in RuleState, NEW targets, NEW results
    PROVE  Rearmed(rule, targets, results) \in Sent
BY NoDiffType DEF Rearmed, Sent, RuleState

LEMMA TargetsType ==
    ASSUME NEW found \in SUBSET Pkg, NEW listed, NEW unread
    PROVE  package_targets(found, listed, unread) \in [found -> SUBSET (Device \cup Group)]
<1>. SUFFICES ASSUME NEW p \in found, NEW m \in Scope[p]
              PROVE  (IF m \notin Group \/ ~listed THEN {m}
                      ELSE IF m \in unread THEN {} ELSE Members[m])
                       \subseteq Device \cup Group
  BY DEF package_targets
<1>1. m \in Device \cup Group
  BY ScopeAssumption
<1>2. m \in Group => Members[m] \subseteq Device
  BY ScopeAssumption
<1>. QED BY <1>1, <1>2

LEMMA IdleType == Idle \in Eval
<1>1. [p \in {} |-> {}] \in [{} -> SUBSET (Device \cup Group)] /\ {} \in SUBSET Pkg
  OBVIOUS
<1>2. [p \in {} |-> {}] \in UNION {[S -> SUBSET (Device \cup Group)] : S \in SUBSET Pkg}
  BY <1>1
<1>3. [d \in Device |-> Clean] \in Result
  BY DEF Result
<1>4. [p \in Pkg |-> NoDiff] \in Sent
  BY NoDiffType DEF Sent
<1>. QED BY <1>2, <1>3, <1>4 DEF Idle, Eval

----------------------------------------------------------------------------
(* The inductive invariant *)

\* What a local dedupe state says was sent for rule r was delivered for r.
Backed(sent, r) == \A p \in Pkg : sent[p] \in delivered[r][p] \cup {NoDiff}

\* An evaluation works on copies: of the rules as they were when it began, and of
\* the dedupe state of the rule it is at. Both are backed by deliveries.
EvalBacked(v) ==
    /\ \A r \in v.queue : v.snapshot[r] # NoRule
    /\ \A r \in Rule : v.snapshot[r] # NoRule => Backed(v.snapshot[r].sent, r)
    /\ v.pc \in {"send", "save"} => v.rule \in Rule /\ Backed(v.sent, v.rule)

AlertInv ==
    /\ TypeOK
    /\ EditsPreserved
    /\ \A r \in Rule : rules[r] # NoRule => Backed(rules[r].sent, r)
    /\ \A e \in Evaluator : EvalBacked(eval[e])

LEMMA InitAlertInv == Init => AlertInv
<1>. SUFFICES ASSUME Init PROVE AlertInv
  OBVIOUS
<1>1. TypeOK
  BY IdleType, FaultAssumption DEF Init, TypeOK
<1>2. EvalBacked(Idle)
  BY DEF EvalBacked, Idle
<1>. QED BY <1>1, <1>2 DEF Init, AlertInv, EditsPreserved

\* A step of one evaluation that leaves the file and the deliveries alone.
LEMMA MoveInv ==
    ASSUME AlertInv, NEW e \in Evaluator, NEW v \in Eval, EvalBacked(v), Move(e, v),
           faults' \in 0..MaxFaults,
           UNCHANGED <<rules, pending, crashes, created, historyVars>>
    PROVE  AlertInv'
<1>1. TypeOK'
  BY DEF AlertInv, TypeOK, Move, historyVars
<1>2. EditsPreserved'
  BY DEF AlertInv, EditsPreserved, historyVars
<1>3. delivered' = delivered /\ rules' = rules
  BY DEF historyVars
<1>4. \A r \in Rule : rules'[r] # NoRule => Backed(rules[r].sent, r)'
  BY <1>3 DEF AlertInv, Backed
<1>5. ASSUME NEW f \in Evaluator PROVE EvalBacked(eval[f])'
  <2>1. eval'[f] = IF f = e THEN v ELSE eval[f]
    BY DEF AlertInv, TypeOK, Move
  <2>2. EvalBacked(eval'[f])
    BY <2>1 DEF AlertInv
  <2>. QED BY <2>2, <1>3 DEF EvalBacked, Backed
<1>. QED BY <1>1, <1>2, <1>3, <1>4, <1>5 DEF AlertInv

LEMMA FaultType ==
    ASSUME TypeOK, NEW ok, Fault(ok)
    PROVE  faults' \in 0..MaxFaults
BY FaultAssumption DEF TypeOK, Fault

LEMMA EvalFacts ==
    ASSUME AlertInv, NEW e \in Evaluator
    PROVE  eval[e] \in Eval /\ EvalBacked(eval[e]) /\ TypeOK
BY DEF AlertInv, TypeOK

LEMMA SweepInv ==
    ASSUME AlertInv, NEW e \in Evaluator, NEW bad \in SUBSET Device, Sweep(e, bad)
    PROVE  AlertInv'
<1> DEFINE results == [d \in Device |-> IF d \in bad THEN Unreadable ELSE pending[d]]
           v == [Idle EXCEPT !.pc = "load", !.results = results]
<1>1. results \in Result
  BY EvalFacts DEF TypeOK, Result
<1>. HIDE DEF results
<1>2. v \in Eval
  BY <1>1, IdleType DEF Eval
<1>3. v.queue = {} /\ v.pc = "load" /\ \A r \in Rule : v.snapshot[r] = NoRule
  BY DEF Idle
<1>4. EvalBacked(v)
  BY <1>3 DEF EvalBacked
<1>5. Move(e, v) /\ faults' \in 0..MaxFaults
  BY EvalFacts, FaultType DEF Sweep, results
<1>. QED BY <1>2, <1>4, <1>5, MoveInv DEF Sweep

LEMMA LoadRulesInv ==
    ASSUME AlertInv, NEW e \in Evaluator, LoadRules(e)
    PROVE  AlertInv'
<1> DEFINE enabled == {r \in Rule : rules[r] # NoRule /\ rules[r].enabled}
           snap == [r \in Rule |-> IF r \in enabled THEN rules[r] ELSE NoRule]
           v == [eval[e] EXCEPT !.pc = "lookup", !.queue = enabled, !.snapshot = snap]
<1>1. enabled \in SUBSET Rule /\ snap \in [Rule -> RuleState \cup {NoRule}]
  BY EvalFacts DEF TypeOK
<1>2. /\ \A r \in enabled : snap[r] # NoRule
      /\ \A r \in Rule : snap[r] # NoRule => Backed(snap[r].sent, r)
  BY DEF AlertInv
<1>3. Move(e, IF enabled = {} THEN Idle ELSE v)
  BY DEF LoadRules
<1>. HIDE DEF enabled, snap
<1>4. v \in Eval /\ v.queue = enabled /\ v.snapshot = snap /\ v.pc = "lookup"
  BY <1>1, EvalFacts DEF Eval
<1>5. EvalBacked(v)
  BY <1>2, <1>4 DEF EvalBacked
<1>6. EvalBacked(Idle)
  BY DEF EvalBacked, Idle
<1>7. faults' \in 0..MaxFaults
  BY EvalFacts DEF LoadRules, TypeOK
<1>. HIDE DEF v
<1>8. UNCHANGED <<rules, pending, crashes, created, historyVars>>
  BY DEF LoadRules
<1>. QED BY <1>3, <1>4, <1>5, <1>6, <1>7, <1>8, IdleType, MoveInv

LEMMA LookupInv ==
    ASSUME AlertInv, NEW e \in Evaluator, NEW found \in SUBSET Pkg, NEW listed \in BOOLEAN,
           NEW unread \in SUBSET Group, Lookup(e, found, listed, unread)
    PROVE  AlertInv'
<1> DEFINE t == package_targets(found, listed, unread)
           v == [eval[e] EXCEPT !.pc = "next", !.targets = t]
<1>1. t \in UNION {[S -> SUBSET (Device \cup Group)] : S \in SUBSET Pkg}
  BY TargetsType
<1>2. Move(e, IF found = {} THEN Idle ELSE v) /\ faults' \in 0..MaxFaults
  BY EvalFacts, FaultType DEF Lookup
<1>. HIDE DEF t
<1>3. /\ v \in Eval /\ v.pc = "next" /\ v.queue = eval[e].queue
      /\ v.snapshot = eval[e].snapshot
  BY <1>1, EvalFacts DEF Eval
<1>4. EvalBacked(v)
  BY <1>3, EvalFacts DEF EvalBacked
<1>5. EvalBacked(Idle)
  BY DEF EvalBacked, Idle
<1>. HIDE DEF v
<1>6. UNCHANGED <<rules, pending, crashes, created, historyVars>>
  BY DEF Lookup
<1>. QED BY <1>2, <1>3, <1>4, <1>5, <1>6, IdleType, MoveInv

LEMMA EvaluateRuleInv ==
    ASSUME AlertInv, NEW e \in Evaluator, NEW r \in Rule, NEW reports \in BOOLEAN,
           EvaluateRule(e, r, reports)
    PROVE  AlertInv'
<1> DEFINE w == eval[e]
           changed == Changed(w.snapshot[r], w.targets, w.results)
           c == IF reports THEN changed ELSE {}
           s == Rearmed(w.snapshot[r], w.targets, w.results)
           pc == IF changed = {} \/ ~reports THEN "save" ELSE "send"
           v == [w EXCEPT !.pc = pc, !.rule = r, !.queue = w.queue \ {r},
                          !.sent = s, !.changed = c]
<1>1. w \in Eval /\ EvalBacked(w) /\ r \in w.queue
  BY EvalFacts DEF EvaluateRule
<1>2. w.snapshot[r] \in RuleState /\ Backed(w.snapshot[r].sent, r)
  BY <1>1 DEF EvalBacked, Eval
<1>3. s \in Sent /\ Backed(s, r)
  <2>1. s \in Sent
    BY <1>2, RearmedType
  <2>2. \A p \in Pkg : s[p] \in {NoDiff, w.snapshot[r].sent[p]}
    BY DEF Rearmed
  <2>. QED BY <1>2, <2>1, <2>2 DEF Backed
<1>4. c \in SUBSET Pkg /\ pc \in {"send", "save"}
  <2>1. \A p \in changed : p \in Watched(w.snapshot[r], w.targets)
    BY DEF Changed, Readable
  <2>2. Watched(w.snapshot[r], w.targets) \subseteq Pkg
    BY <1>1, <1>2 DEF Watched, RuleState, Eval
  <2>. QED BY <2>1, <2>2
<1>5. Move(e, v) /\ faults' \in 0..MaxFaults
  BY EvalFacts, FaultType DEF EvaluateRule
<1>6. UNCHANGED <<rules, pending, crashes, created, historyVars>>
  BY DEF EvaluateRule
<1>. HIDE DEF s, pc, c, changed
<1>7. /\ v \in Eval /\ v.pc = pc /\ v.queue = w.queue \ {r}
      /\ v.snapshot = w.snapshot /\ v.rule = r /\ v.sent = s
  BY <1>1, <1>3, <1>4 DEF Eval
<1>8. EvalBacked(v)
  BY <1>1, <1>3, <1>7 DEF EvalBacked
<1>. HIDE DEF v
<1>. QED BY <1>5, <1>6, <1>7, <1>8, MoveInv

LEMMA SendAlertInv ==
    ASSUME AlertInv, NEW e \in Evaluator, NEW p \in Pkg, NEW ok \in BOOLEAN,
           SendAlert(e, p, ok)
    PROVE  AlertInv'
<1>. PICK w : w = eval[e]
  OBVIOUS
<1> DEFINE diff == collect_package_diffs(w.targets[p], w.results)
           v == Emailed(w, p, diff, ok)
           s == IF ok THEN [w.sent EXCEPT ![p] = diff] ELSE w.sent
           pc == IF w.changed = {p} THEN "save" ELSE "send"
<1>1. w \in Eval /\ EvalBacked(w) /\ w.pc = "send" /\ TypeOK
  BY EvalFacts DEF SendAlert, At
<1>2. w.rule \in Rule /\ Backed(w.sent, w.rule) /\ w.sent \in Sent
  BY <1>1 DEF EvalBacked, Eval
<1>3. diff \in Diff
  BY <1>1, DiffType DEF Eval
<1>4. delivered' = IF ok THEN [delivered EXCEPT ![w.rule][p] = delivered[w.rule][p] \cup {diff}]
                   ELSE delivered
  BY DEF SendAlert
<1>5. Move(e, v) /\ faults' \in 0..MaxFaults
  BY <1>1, FaultType DEF SendAlert
<1>6. UNCHANGED <<rules, pending, crashes, created, asked>>
  BY DEF SendAlert
<1>7. told' \in [Rule -> [Pkg -> 0..2]]
  <2>1. told \in [Rule -> [Pkg -> 0..2]]
    BY <1>1 DEF TypeOK
  <2>2. told[w.rule][p] < 2 => told[w.rule][p] + 1 \in 0..2
    BY <1>2, <2>1
  <2>3. CASE /\ ok /\ diff = PendingDiff(p) /\ told[w.rule][p] < 2
    <3>1. told' = [told EXCEPT ![w.rule][p] = told[w.rule][p] + 1]
      BY <2>3 DEF SendAlert
    <3>. QED BY <3>1, <2>1, <2>2, <2>3
  <2>4. CASE ~(ok /\ diff = PendingDiff(p) /\ told[w.rule][p] < 2)
    <3>1. told' = told
      BY <2>4 DEF SendAlert
    <3>. QED BY <3>1, <2>1
  <2>. QED BY <2>3, <2>4
<1>. HIDE DEF diff
<1>8. delivered' \in [Rule -> [Pkg -> SUBSET Diff]]
  BY <1>1, <1>2, <1>3, <1>4 DEF TypeOK
<1>9. \A r \in Rule, q \in Pkg : delivered[r][q] \subseteq delivered'[r][q]
  BY <1>1, <1>2, <1>4 DEF TypeOK
<1>10. s \in Sent /\ Backed(s, w.rule)'
  <2>1. s \in Sent
    BY <1>2, <1>3 DEF Sent
  <2>2. ASSUME NEW q \in Pkg PROVE s[q] \in delivered'[w.rule][q] \cup {NoDiff}
    <3>1. CASE ok /\ q = p
      <4>1. s[q] = diff
        BY <1>2, <3>1 DEF Sent
      <4>2. diff \in delivered'[w.rule][p]
        BY <1>1, <1>2, <1>4, <3>1 DEF TypeOK
      <4>. QED BY <3>1, <4>1, <4>2
    <3>2. CASE ~(ok /\ q = p)
      <4>1. s[q] = w.sent[q]
        BY <1>2, <3>2 DEF Sent
      <4>. QED BY <4>1, <1>2, <1>9 DEF Backed
    <3>. QED BY <3>1, <3>2
  <2>. QED BY <2>1, <2>2 DEF Backed
<1>11. /\ v \in Eval /\ v.rule = w.rule /\ v.queue = w.queue /\ v.snapshot = w.snapshot
       /\ v.sent = s
  <2>1. pc \in {"send", "save"} /\ w.changed \ {p} \in SUBSET Pkg
    BY <1>1 DEF Eval
  <2>2. v = [w EXCEPT !.pc = pc, !.changed = w.changed \ {p}, !.sent = s]
    BY DEF Emailed
  <2>. HIDE DEF v, s, pc
  <2>. QED BY <1>1, <1>10, <2>1, <2>2 DEF Eval
<1>12. \A r \in Rule : \A x : Backed(x, r) =>
         \A q \in Pkg : x[q] \in delivered'[r][q] \cup {NoDiff}
  BY <1>9 DEF Backed
<1>13. \A f \in Evaluator : eval'[f] = IF f = e THEN v ELSE eval[f]
  BY <1>1, <1>5 DEF TypeOK, Move
<1>. HIDE DEF v, s, pc
<1>14. ASSUME NEW f \in Evaluator PROVE EvalBacked(eval[f])'
  <2>1. CASE f = e
    <3>1. eval'[f] = v
      BY <1>13, <2>1
    <3>2. /\ \A r \in w.queue : w.snapshot[r] # NoRule
          /\ \A r \in Rule : w.snapshot[r] # NoRule => Backed(w.snapshot[r].sent, r)'
      BY <1>1, <1>12 DEF EvalBacked, Backed
    <3>. QED BY <3>1, <3>2, <1>2, <1>10, <1>11 DEF EvalBacked
  <2>2. CASE f # e
    <3>1. PICK u : u = eval[f]
      OBVIOUS
    <3>2. eval'[f] = u
      BY <1>13, <2>2, <3>1
    <3>3. EvalBacked(u)
      BY <3>1, EvalFacts
    <3>4. ASSUME NEW r \in Rule, u.snapshot[r] # NoRule
          PROVE  \A q \in Pkg : u.snapshot[r].sent[q] \in delivered'[r][q] \cup {NoDiff}
      BY <3>3, <3>4, <1>12 DEF EvalBacked
    <3>5. ASSUME u.pc \in {"send", "save"}
          PROVE  /\ u.rule \in Rule
                 /\ \A q \in Pkg : u.sent[q] \in delivered'[u.rule][q] \cup {NoDiff}
      BY <3>3, <3>5, <1>12 DEF EvalBacked
    <3>6. \A r \in u.queue : u.snapshot[r] # NoRule
      BY <3>3 DEF EvalBacked
    <3>. QED BY <3>2, <3>4, <3>5, <3>6 DEF EvalBacked, Backed
  <2>. QED BY <2>1, <2>2
<1>15. \A r \in Rule : rules'[r] # NoRule => Backed(rules[r].sent, r)'
  BY <1>6, <1>12 DEF AlertInv, Backed
<1>16. TypeOK'
  BY <1>1, <1>5, <1>6, <1>7, <1>8, <1>11, <1>13 DEF TypeOK, Move
<1>17. EditsPreserved'
  BY <1>6 DEF AlertInv, EditsPreserved
<1>. QED BY <1>14, <1>15, <1>16, <1>17 DEF AlertInv

LEMMA SaveRuleStateInv ==
    ASSUME AlertInv, NEW e \in Evaluator, NEW ok \in BOOLEAN, SaveRuleState(e, ok)
    PROVE  AlertInv'
<1>. PICK w : w = eval[e]
  OBVIOUS
<1> DEFINE v == IF w.queue = {} THEN Idle ELSE [w EXCEPT !.pc = "next"]
<1>1. w \in Eval /\ EvalBacked(w) /\ w.pc = "save" /\ TypeOK
  BY EvalFacts DEF SaveRuleState, At
<1>2. w.rule \in Rule /\ Backed(w.sent, w.rule) /\ w.sent \in Sent
  BY <1>1 DEF EvalBacked, Eval
<1>3. Move(e, v) /\ faults' \in 0..MaxFaults
  BY <1>1, FaultType DEF SaveRuleState
<1>4. UNCHANGED <<pending, crashes, created, historyVars>>
  BY DEF SaveRuleState
<1>5. v \in Eval
  BY <1>1, IdleType DEF Eval
<1>6. EvalBacked(v)
  <2>1. CASE w.queue = {}
    BY <2>1 DEF EvalBacked, Idle
  <2>2. CASE w.queue # {}
    <3>1. /\ v.pc = "next" /\ v.queue = w.queue /\ v.snapshot = w.snapshot
      BY <1>1, <2>2 DEF Eval
    <3>. QED BY <3>1, <1>1 DEF EvalBacked
  <2>. QED BY <2>1, <2>2
<1>7. \/ rules' = rules
      \/ /\ rules[w.rule] # NoRule
         /\ rules' = [rules EXCEPT ![w.rule] = [rules[w.rule] EXCEPT !.sent = w.sent]]
  BY DEF SaveRuleState, WithSent
<1>8. rules[w.rule] # NoRule => rules[w.rule] \in RuleState
  BY <1>1, <1>2 DEF TypeOK
<1>9. rules[w.rule] # NoRule => [rules[w.rule] EXCEPT !.sent = w.sent] \in RuleState
  BY <1>2, <1>8 DEF RuleState
<1>. HIDE DEF v
<1>10. rules' \in [Rule -> RuleState \cup {NoRule}]
  <2>1. rules \in [Rule -> RuleState \cup {NoRule}]
    BY <1>1 DEF TypeOK
  <2>2. CASE rules' = rules
    BY <2>1, <2>2
  <2>3. PICK x : x = [rules[w.rule] EXCEPT !.sent = w.sent]
    OBVIOUS
  <2>4. CASE rules[w.rule] # NoRule /\ rules' = [rules EXCEPT ![w.rule] = x]
    BY <2>1, <2>3, <2>4, <1>9
  <2>. QED BY <1>7, <2>2, <2>3, <2>4
<1>11. ASSUME NEW r \in Rule
       PROVE  /\ rules'[r] = NoRule <=> rules[r] = NoRule
              /\ rules[r] # NoRule => /\ rules'[r].enabled = rules[r].enabled
                                      /\ rules'[r].packages = rules[r].packages
                                      /\ rules'[r].sent \in {rules[r].sent} \cup (IF r = w.rule THEN {w.sent} ELSE {})
  <2>1. CASE rules' = rules
    BY <2>1
  <2>2. CASE rules' # rules
    <3>1. rules' = [rules EXCEPT ![w.rule] = [rules[w.rule] EXCEPT !.sent = w.sent]]
      BY <1>7, <2>2
    <3>2. rules[w.rule] # NoRule
      BY <1>7, <2>2
    <3>3. [rules[w.rule] EXCEPT !.sent = w.sent] # NoRule
      BY <1>9, <3>2, SentinelAssumption
    <3>. QED BY <3>1, <3>2, <3>3, <1>1, <1>2, <1>8 DEF TypeOK, RuleState
  <2>. QED BY <2>1, <2>2
<1>12. TypeOK'
  BY <1>1, <1>3, <1>4, <1>5, <1>10 DEF TypeOK, Move, historyVars
<1>13. EditsPreserved'
  BY <1>4, <1>11 DEF AlertInv, EditsPreserved, Config, historyVars
<1>14. delivered' = delivered
  BY <1>4 DEF historyVars
<1>15. ASSUME NEW r \in Rule, rules'[r] # NoRule PROVE Backed(rules'[r].sent, r)
  <2>1. Backed(rules[r].sent, r)
    BY <1>11, <1>15 DEF AlertInv
  <2>2. rules'[r].sent = rules[r].sent \/ (r = w.rule /\ rules'[r].sent = w.sent)
    BY <1>11, <1>15
  <2>3. CASE rules'[r].sent = rules[r].sent
    BY <2>1, <2>3
  <2>4. CASE r = w.rule /\ rules'[r].sent = w.sent
    BY <2>4, <1>2
  <2>. QED BY <2>2, <2>3, <2>4
<1>16. ASSUME NEW f \in Evaluator PROVE EvalBacked(eval'[f])
  <2>1. eval'[f] = IF f = e THEN v ELSE eval[f]
    BY <1>1, <1>3 DEF TypeOK, Move
  <2>. QED BY <2>1, <1>6 DEF AlertInv
<1>. QED BY <1>12, <1>13, <1>14, <1>15, <1>16 DEF AlertInv, EvalBacked, Backed

\* An admin's edit of one rule, whose dedupe state is kept or is empty.
LEMMA SetRuleInv ==
    ASSUME AlertInv, NEW r \in Rule, NEW enabled \in BOOLEAN, NEW packages \in WatchList,
           NEW sent \in Sent, Backed(sent, r), SetRule(r, enabled, packages, sent),
           created' \subseteq Rule
    PROVE  AlertInv'
<1> DEFINE x == [enabled |-> enabled, packages |-> packages, sent |-> sent]
<1>1. x \in RuleState /\ x # NoRule
  BY ScopeAssumption, SentinelAssumption DEF RuleState
<1>2. rules' = [rules EXCEPT ![r] = x]
  BY DEF SetRule
<1>3. asked' = [asked EXCEPT ![r] = Config(enabled, packages)]
  BY DEF SetRule
<1>4. UNCHANGED <<pending, eval, crashes, faults, delivered, told>>
  BY DEF SetRule
<1>5. x.enabled = enabled /\ x.packages = packages /\ x.sent = sent
  OBVIOUS
<1>6. Config(enabled, packages) \in [enabled : BOOLEAN, packages : SUBSET Pkg]
  BY ScopeAssumption DEF Config
<1>. HIDE DEF x
<1>7. TypeOK'
  BY <1>1, <1>2, <1>3, <1>4, <1>6 DEF AlertInv, TypeOK
<1>8. rules \in [Rule -> RuleState \cup {NoRule}] /\ DOMAIN asked = Rule
  BY DEF AlertInv, TypeOK
<1>9. EditsPreserved'
  BY <1>1, <1>2, <1>3, <1>5, <1>8 DEF AlertInv, EditsPreserved
<1>10. ASSUME NEW q \in Rule, rules'[q] # NoRule PROVE Backed(rules'[q].sent, q)
  BY <1>2, <1>5, <1>8, <1>10 DEF AlertInv
<1>. QED BY <1>4, <1>7, <1>9, <1>10 DEF AlertInv, EvalBacked, Backed

LEMMA AdminInv ==
    ASSUME AlertInv, AdminStep
    PROVE  AlertInv'
<1>1. ASSUME NEW r \in Rule, NEW enabled \in BOOLEAN, NEW packages \in WatchList,
             create_rule(r, enabled, packages)
      PROVE  AlertInv'
  <2>1. [p \in Pkg |-> NoDiff] \in Sent /\ Backed([p \in Pkg |-> NoDiff], r)
    BY NoDiffType DEF Sent, Backed
  <2>2. created' \subseteq Rule
    BY <1>1 DEF create_rule, AlertInv, TypeOK
  <2>. QED BY <1>1, <2>1, <2>2, SetRuleInv DEF create_rule
<1>2. ASSUME NEW r \in Rule, NEW enabled \in BOOLEAN, NEW packages \in WatchList,
             update_rule(r, enabled, packages)
      PROVE  AlertInv'
  <2>1. rules[r].sent \in Sent /\ Backed(rules[r].sent, r)
    BY <1>2 DEF update_rule, AlertInv, TypeOK, RuleState
  <2>2. created' \subseteq Rule
    BY <1>2 DEF update_rule, AlertInv, TypeOK
  <2>. QED BY <1>2, <2>1, <2>2, SetRuleInv DEF update_rule
<1>3. ASSUME NEW r \in Rule, delete_rule(r)
      PROVE  AlertInv'
  <2>1. /\ rules' = [rules EXCEPT ![r] = NoRule]
        /\ asked' = [asked EXCEPT ![r] = NoRule]
        /\ UNCHANGED <<pending, eval, crashes, faults, created, delivered, told>>
    BY <1>3 DEF delete_rule
  <2>2. DOMAIN rules = Rule /\ DOMAIN asked = Rule
    BY DEF AlertInv, TypeOK
  <2>3. TypeOK'
    BY <2>1 DEF AlertInv, TypeOK
  <2>4. EditsPreserved'
    BY <2>1, <2>2 DEF AlertInv, EditsPreserved
  <2>5. ASSUME NEW q \in Rule, rules'[q] # NoRule PROVE Backed(rules'[q].sent, q)
    BY <2>1, <2>2, <2>5 DEF AlertInv
  <2>. QED BY <2>1, <2>3, <2>4, <2>5 DEF AlertInv, EvalBacked, Backed
<1>. QED BY <1>1, <1>2, <1>3 DEF AdminStep

LEMMA StageInv ==
    ASSUME AlertInv, NEW d \in Device, NEW c \in Change \cup {Clean}, Stage(d, c)
    PROVE  AlertInv'
<1>1. UNCHANGED <<rules, eval, crashes, faults, created, asked, delivered>>
  BY DEF Stage
<1>2. told' = [r \in Rule |-> [p \in Pkg |->
                IF PendingDiff(p)' = PendingDiff(p) THEN told[r][p] ELSE 0]]
  BY DEF Stage
<1>3. told' \in [Rule -> [Pkg -> 0..2]]
  <2>1. told \in [Rule -> [Pkg -> 0..2]]
    BY DEF AlertInv, TypeOK
  <2>2. \A r \in Rule, p \in Pkg :
          (IF PendingDiff(p)' = PendingDiff(p) THEN told[r][p] ELSE 0) \in 0..2
    BY <2>1
  <2>. QED BY <1>2, <2>2
<1>4. pending' \in [Device -> Change \cup {Clean}]
  BY DEF Stage, AlertInv, TypeOK
<1>5. TypeOK'
  BY <1>1, <1>3, <1>4 DEF AlertInv, TypeOK
<1>6. EditsPreserved'
  BY <1>1 DEF AlertInv, EditsPreserved
<1>. QED BY <1>1, <1>5, <1>6 DEF AlertInv, EvalBacked, Backed

LEMMA CrashInv ==
    ASSUME AlertInv, Crash
    PROVE  AlertInv'
<1>1. /\ eval' = [e \in Evaluator |-> Idle] /\ crashes' \in 0..MaxCrashes
      /\ UNCHANGED <<rules, pending, faults, created, historyVars>>
  BY FaultAssumption DEF Crash, AlertInv, TypeOK
<1>2. TypeOK'
  BY <1>1, IdleType DEF AlertInv, TypeOK, historyVars
<1>3. EditsPreserved'
  BY <1>1 DEF AlertInv, EditsPreserved, historyVars
<1>4. EvalBacked(Idle)
  BY DEF EvalBacked, Idle
<1>5. delivered' = delivered /\ rules' = rules
  BY <1>1 DEF historyVars
<1>. QED BY <1>1, <1>2, <1>3, <1>4, <1>5 DEF AlertInv, EvalBacked, Backed

LEMMA NextAlertInv == AlertInv /\ [Next]_vars => AlertInv'
<1>. SUFFICES ASSUME AlertInv, [Next]_vars PROVE AlertInv'
  OBVIOUS
<1>1. ASSUME NEW e \in Evaluator, EvalStep(e) PROVE AlertInv'
  BY <1>1, SweepInv, LoadRulesInv, LookupInv, EvaluateRuleInv, SendAlertInv,
     SaveRuleStateInv DEF EvalStep
<1>2. CASE UNCHANGED vars
  BY <1>2 DEF vars, historyVars, AlertInv, TypeOK, EditsPreserved, EvalBacked, Backed
<1>. QED BY <1>1, <1>2, AdminInv, StageInv, CrashInv DEF Next

----------------------------------------------------------------------------
(* Theorems *)

\* The invariant holds in every reachable state.
THEOREM AlwaysAlertInv == Spec => []AlertInv
BY InitAlertInv, NextAlertInv, PTL DEF Spec

\* Every variable keeps its type: evaluations never build a malformed rule.
THEOREM TypeCorrect == Spec => []TypeOK
<1>1. AlertInv => TypeOK
  BY DEF AlertInv
<1>. QED BY <1>1, AlwaysAlertInv, PTL

\* The dedupe state never holds back a diff that no email reported.
THEOREM OnlyDeliveredIsRemembered == Spec => []SentWasDelivered
<1>1. AlertInv => SentWasDelivered
  BY DEF AlertInv, SentWasDelivered, Backed
<1>. QED BY <1>1, AlwaysAlertInv, PTL

\* A running evaluation never undoes an edit or revives a deleted rule.
THEOREM EditsSurvive == Spec => []EditsPreserved
<1>1. AlertInv => EditsPreserved
  BY DEF AlertInv
<1>. QED BY <1>1, AlwaysAlertInv, PTL


----------------------------------------------------------------------------
(* One email for a diff, when the evaluations of the ADOM follow each other  *)

\* One Config-Delta job sweeps the ADOM, its process is not restarted, and neither
\* the read of a group nor the write of the rules file fails. FortiManager previews,
\* package and group listings, reports and emails may still fail.
Reliable ==
    /\ GroupReadFails = FALSE /\ SaveMayFail = FALSE /\ MaxCrashes = 0
    /\ \A e, f \in Evaluator : e = f

\* The devices that package p is installed on, its groups expanded.
Targets(p) == package_targets({p}, TRUE, {})[p]

LEMMA TargetsAreDevices ==
    ASSUME NEW p \in Pkg
    PROVE  Targets(p) \subseteq Device
<1>1. Targets(p) = UNION {IF m \notin Group \/ ~TRUE THEN {m}
                          ELSE IF m \in {} THEN {} ELSE Members[m] : m \in Scope[p]}
  BY DEF Targets, package_targets
<1>. SUFFICES ASSUME NEW m \in Scope[p]
              PROVE  (IF m \notin Group THEN {m} ELSE Members[m]) \subseteq Device
  BY <1>1
<1>. QED BY ScopeAssumption

\* A package whose targets are all devices has the targets that it really has:
\* without the group listing its groups stay among them.
LEMMA FoundTargets ==
    ASSUME NEW found \in SUBSET Pkg, NEW listed \in BOOLEAN, NEW p \in found,
           package_targets(found, listed, {})[p] \subseteq Device
    PROVE  package_targets(found, listed, {})[p] = Targets(p)
<1>1. Targets(p) = UNION {IF m \notin Group THEN {m} ELSE Members[m] : m \in Scope[p]}
  BY DEF Targets, package_targets
<1>2. package_targets(found, listed, {})[p] =
        UNION {IF m \notin Group \/ ~listed THEN {m} ELSE Members[m] : m \in Scope[p]}
  BY DEF package_targets
<1>3. CASE listed
  BY <1>1, <1>2, <1>3
<1>4. CASE ~listed
  <2>1. \A m \in Scope[p] : m \in package_targets(found, listed, {})[p]
    BY <1>2, <1>4
  <2>2. \A m \in Scope[p] : m \notin Group
    BY <2>1, ScopeAssumption
  <2>. QED BY <1>1, <1>2, <1>4, <2>2
<1>. QED BY <1>3, <1>4

LEMMA PendingOnTargets ==
    \A p : PendingDiff(p) = collect_package_diffs(Targets(p), pending)
BY DEF PendingDiff, Targets

\* Two results that show the same diff on targets without unreadable devices agree there.
LEMMA SameDiff ==
    ASSUME NEW T \in SUBSET Device, NEW a, NEW b,
           \A d \in T : a[d] \in Change \cup {Clean} /\ b[d] \in Change \cup {Clean},
           collect_package_diffs(T, a) = collect_package_diffs(T, b), NEW d \in T
    PROVE  a[d] = b[d]
<1>1. d \in DOMAIN collect_package_diffs(T, a) <=> a[d] \in Change
  BY DEF collect_package_diffs
<1>2. d \in DOMAIN collect_package_diffs(T, b) <=> b[d] \in Change
  BY DEF collect_package_diffs
<1>3. CASE a[d] \in Change
  <2>1. collect_package_diffs(T, a)[d] = a[d] /\ collect_package_diffs(T, b)[d] = b[d]
    BY <1>1, <1>2, <1>3 DEF collect_package_diffs
  <2>. QED BY <2>1
<1>4. CASE a[d] \notin Change
  BY <1>1, <1>2, <1>4
<1>. QED BY <1>3, <1>4

LEMMA AgreeingDiff ==
    ASSUME NEW T \in SUBSET Device, NEW a, NEW b, \A d \in T : a[d] = b[d]
    PROVE  collect_package_diffs(T, a) = collect_package_diffs(T, b)
<1>1. {t \in T \cap Device : a[t] \in Change} = {t \in T \cap Device : b[t] \in Change}
  OBVIOUS
<1>. QED BY <1>1 DEF collect_package_diffs

----------------------------------------------------------------------------
(* The inductive invariant of the emails *)

\* What an evaluation knows of its rules and its targets: a package it is about to
\* email has a diff on readable devices, which are the devices it is installed on.
EvalShape(v) ==
    /\ v.queue \subseteq created
    /\ v.pc \in {"send", "save"} => v.rule \in created /\ v.rule \notin v.queue
    /\ \A p \in DOMAIN v.targets : v.targets[p] \subseteq Device => v.targets[p] = Targets(p)
    /\ v.pc = "send" => \A p \in v.changed :
          /\ p \in DOMAIN v.targets
          /\ ~has_unreadable_targets(v.targets[p], v.results)
          /\ collect_package_diffs(v.targets[p], v.results) # NoDiff

Current(v, r) == v.pc \in {"send", "save"} /\ v.rule = r

\* Once rule r has told of the diff that is pending for package p, an evaluation has
\* seen no older state of p, and the dedupe state that will decide about p holds that
\* diff: in the copy of the rules, in the evaluation of r, or in the rules file.
KnowsTold(v, r, p) ==
    /\ v.pc # "idle" => \A d \in Targets(p) : v.results[d] \in {pending[d], Unreadable}
    /\ r \in v.queue => v.snapshot[r].sent[p] = PendingDiff(p)
    /\ Current(v, r) => v.sent[p] = PendingDiff(p) /\ p \notin v.changed
    /\ ~Current(v, r) => (rules[r] # NoRule => rules[r].sent[p] = PendingDiff(p))

ToldOnce(r, p) ==
    \/ told[r][p] = 0
    \/ /\ told[r][p] = 1
       /\ r \in created /\ PendingDiff(p) # NoDiff
       /\ \A e \in Evaluator : KnowsTold(eval[e], r, p)

OnceInv ==
    /\ \A r \in Rule : rules[r] # NoRule => r \in created
    /\ \A e \in Evaluator : EvalShape(eval[e])
    /\ \A r \in Rule, p \in Pkg : ToldOnce(r, p)

LEMMA InitOnceInv == Init => OnceInv
<1>. SUFFICES ASSUME Init PROVE OnceInv
  OBVIOUS
<1>1. EvalShape(Idle)
  BY DEF EvalShape, Idle
<1>. QED BY <1>1 DEF Init, OnceInv, ToldOnce

\* A step of the evaluation that leaves the file, the diffs and the emails alone.
LEMMA MoveOnce ==
    ASSUME Reliable, AlertInv, OnceInv, NEW e \in Evaluator, NEW v, Move(e, v),
           UNCHANGED <<rules, pending, created, told>>, EvalShape(v),
           \A r \in Rule, p \in Pkg : told[r][p] # 0 => KnowsTold(v, r, p)
    PROVE  OnceInv'
<1>1. \A f \in Evaluator : eval'[f] = v
  BY DEF Reliable, AlertInv, TypeOK, Move
<1>2. \A p \in Pkg : PendingDiff(p)' = PendingDiff(p)
  BY DEF PendingDiff
<1>3. ASSUME NEW f \in Evaluator PROVE EvalShape(eval[f])'
  BY <1>1 DEF EvalShape
<1>4. ASSUME NEW r \in Rule, NEW p \in Pkg PROVE ToldOnce(r, p)'
  <2>1. CASE told[r][p] = 0
    BY <2>1 DEF ToldOnce
  <2>2. CASE told[r][p] # 0
    <3>1. told[r][p] = 1 /\ r \in created /\ PendingDiff(p) # NoDiff
      BY <2>2 DEF OnceInv, ToldOnce
    <3>2. ASSUME NEW f \in Evaluator PROVE KnowsTold(eval[f], r, p)'
      BY <1>1, <1>2, <2>2 DEF KnowsTold, Current
    <3>. QED BY <1>2, <3>1, <3>2 DEF ToldOnce
  <2>. QED BY <2>1, <2>2
<1>. QED BY <1>3, <1>4 DEF OnceInv

\* What holds of a pair that has been told of.
LEMMA ToldFacts ==
    ASSUME OnceInv, NEW e \in Evaluator, NEW r \in Rule, NEW p \in Pkg, told[r][p] # 0
    PROVE  /\ told[r][p] = 1 /\ r \in created /\ PendingDiff(p) # NoDiff
           /\ KnowsTold(eval[e], r, p)
BY DEF OnceInv, ToldOnce

LEMMA SweepOnce ==
    ASSUME Reliable, AlertInv, OnceInv, NEW e \in Evaluator, NEW bad \in SUBSET Device,
           Sweep(e, bad)
    PROVE  OnceInv'
<1> DEFINE results == [d \in Device |-> IF d \in bad THEN Unreadable ELSE pending[d]]
           v == [Idle EXCEPT !.pc = "load", !.results = results]
<1>1. /\ v.pc = "load" /\ v.queue = {} /\ v.results = results
      /\ v.targets = [p \in {} |-> {}]
  BY DEF Idle
<1>2. Move(e, v) /\ UNCHANGED <<rules, pending, created, told>> /\ eval[e].pc = "idle"
  BY DEF Sweep, At, historyVars
<1>3. \A p \in Pkg : \A d \in Targets(p) : results[d] \in {pending[d], Unreadable}
  BY TargetsAreDevices
<1>. HIDE DEF v, results
<1>4. EvalShape(v)
  BY <1>1 DEF EvalShape
<1>5. ASSUME NEW r \in Rule, NEW p \in Pkg, told[r][p] # 0 PROVE KnowsTold(v, r, p)
  <2>1. rules[r] # NoRule => rules[r].sent[p] = PendingDiff(p)
    BY <1>2, <1>5, ToldFacts DEF KnowsTold, Current
  <2>. QED BY <1>1, <1>3, <2>1 DEF KnowsTold, Current
<1>. QED BY <1>2, <1>4, <1>5, MoveOnce

LEMMA IdleKnows ==
    ASSUME NEW r, NEW p, rules[r] # NoRule => rules[r].sent[p] = PendingDiff(p)
    PROVE  KnowsTold(Idle, r, p) /\ EvalShape(Idle)
BY DEF KnowsTold, Current, EvalShape, Idle

LEMMA LoadRulesOnce ==
    ASSUME Reliable, AlertInv, OnceInv, NEW e \in Evaluator, LoadRules(e)
    PROVE  OnceInv'
<1> DEFINE enabled == {r \in Rule : rules[r] # NoRule /\ rules[r].enabled}
           snap == [r \in Rule |-> IF r \in enabled THEN rules[r] ELSE NoRule]
           v == [eval[e] EXCEPT !.pc = "lookup", !.queue = enabled, !.snapshot = snap]
           w == IF enabled = {} THEN Idle ELSE v
<1>1. eval[e] \in Eval /\ EvalShape(eval[e]) /\ eval[e].pc = "load"
  BY EvalFacts DEF OnceInv, LoadRules, At
<1>2. Move(e, w) /\ UNCHANGED <<rules, pending, created, told>>
  BY DEF LoadRules, historyVars
<1>3. /\ enabled \subseteq created
      /\ \A r \in enabled : snap[r] = rules[r] /\ rules[r] # NoRule
  BY DEF OnceInv
<1>. HIDE DEF enabled, snap
<1>4. /\ v.pc = "lookup" /\ v.queue = enabled /\ v.snapshot = snap
      /\ v.results = eval[e].results /\ v.targets = eval[e].targets
  BY <1>1 DEF Eval
<1>. HIDE DEF v
<1>5. EvalShape(v)
  BY <1>1, <1>3, <1>4 DEF EvalShape
<1>6. ASSUME NEW r \in Rule, NEW p \in Pkg, told[r][p] # 0
      PROVE  KnowsTold(v, r, p) /\ KnowsTold(Idle, r, p)
  <2>1. /\ KnowsTold(eval[e], r, p)
        /\ rules[r] # NoRule => rules[r].sent[p] = PendingDiff(p)
    BY <1>1, <1>6, ToldFacts DEF KnowsTold, Current
  <2>. QED BY <1>1, <1>3, <1>4, <2>1, IdleKnows DEF KnowsTold, Current
<1>7. EvalShape(Idle)
  BY DEF EvalShape, Idle
<1>8. EvalShape(w) /\ \A r \in Rule, p \in Pkg : told[r][p] # 0 => KnowsTold(w, r, p)
  BY <1>5, <1>6, <1>7
<1>. HIDE DEF w
<1>. QED BY <1>2, <1>8, MoveOnce

LEMMA LookupOnce ==
    ASSUME Reliable, AlertInv, OnceInv, NEW e \in Evaluator, NEW found \in SUBSET Pkg,
           NEW listed \in BOOLEAN, NEW unread \in SUBSET Group, Lookup(e, found, listed, unread)
    PROVE  OnceInv'
<1> DEFINE t == package_targets(found, listed, {})
           v == [eval[e] EXCEPT !.pc = "next", !.targets = t]
           w == IF found = {} THEN Idle ELSE v
<1>1. eval[e] \in Eval /\ EvalShape(eval[e]) /\ eval[e].pc = "lookup"
  BY EvalFacts DEF OnceInv, Lookup, At
<1>2. unread = {}
  BY DEF Lookup, Reliable
<1>3. Move(e, w) /\ UNCHANGED <<rules, pending, created, told>>
  BY <1>2 DEF Lookup, historyVars
<1>4. \A p \in DOMAIN t : p \in Pkg /\ (t[p] \subseteq Device => t[p] = Targets(p))
  <2>1. DOMAIN t = found
    BY DEF package_targets
  <2>. HIDE DEF t
  <2>. QED BY <2>1, FoundTargets DEF t
<1>. HIDE DEF t
<1>5. /\ v.pc = "next" /\ v.queue = eval[e].queue /\ v.snapshot = eval[e].snapshot
      /\ v.results = eval[e].results /\ v.targets = t
  BY <1>1 DEF Eval
<1>. HIDE DEF v
<1>6. EvalShape(v)
  BY <1>1, <1>4, <1>5 DEF EvalShape
<1>7. ASSUME NEW r \in Rule, NEW p \in Pkg, told[r][p] # 0
      PROVE  KnowsTold(v, r, p) /\ KnowsTold(Idle, r, p)
  <2>1. /\ KnowsTold(eval[e], r, p)
        /\ rules[r] # NoRule => rules[r].sent[p] = PendingDiff(p)
    BY <1>1, <1>7, ToldFacts DEF KnowsTold, Current
  <2>. QED BY <1>1, <1>5, <2>1, IdleKnows DEF KnowsTold, Current
<1>8. EvalShape(Idle)
  BY DEF EvalShape, Idle
<1>9. EvalShape(w) /\ \A r \in Rule, p \in Pkg : told[r][p] # 0 => KnowsTold(w, r, p)
  BY <1>6, <1>7, <1>8
<1>. HIDE DEF w
<1>. QED BY <1>3, <1>9, MoveOnce

\* A readable package has its own targets, and what the results show there is pending
\* or newer than what was told.
LEMMA ReadableFacts ==
    ASSUME AlertInv, OnceInv, NEW e \in Evaluator, NEW rule,
           NEW p \in Readable(rule, eval[e].targets, eval[e].results)
    PROVE  /\ p \in Pkg /\ p \in DOMAIN eval[e].targets
           /\ ~has_unreadable_targets(eval[e].targets[p], eval[e].results)
           /\ eval[e].targets[p] = Targets(p)
           /\ \A d \in Targets(p) : eval[e].results[d] \in Change \cup {Clean}
<1>1. eval[e] \in Eval /\ EvalShape(eval[e])
  BY EvalFacts DEF OnceInv
<1>2. p \in DOMAIN eval[e].targets /\ ~has_unreadable_targets(eval[e].targets[p], eval[e].results)
  BY DEF Readable
<1>3. p \in Pkg
  BY <1>1, <1>2 DEF Eval
<1>4. eval[e].targets[p] \subseteq Device
  BY <1>2 DEF has_unreadable_targets
<1>5. eval[e].targets[p] = Targets(p)
  BY <1>1, <1>2, <1>4 DEF EvalShape
<1>6. eval[e].results \in Result
  BY <1>1 DEF Eval
<1>. QED BY <1>2, <1>3, <1>4, <1>5, <1>6 DEF has_unreadable_targets, Result

LEMMA EvaluateRuleOnce ==
    ASSUME Reliable, AlertInv, OnceInv, NEW e \in Evaluator, NEW r \in Rule,
           NEW reports \in BOOLEAN, EvaluateRule(e, r, reports)
    PROVE  OnceInv'
<1>. PICK w : w = eval[e]
  OBVIOUS
<1> DEFINE changed == Changed(w.snapshot[r], w.targets, w.results)
           c == IF reports THEN changed ELSE {}
           s == Rearmed(w.snapshot[r], w.targets, w.results)
           pc == IF changed = {} \/ ~reports THEN "save" ELSE "send"
           v == [w EXCEPT !.pc = pc, !.rule = r, !.queue = w.queue \ {r},
                          !.sent = s, !.changed = c]
<1>1. w \in Eval /\ EvalShape(w) /\ r \in w.queue /\ w.pc = "next"
  BY EvalFacts DEF EvaluateRule, OnceInv, At
<1>2. Move(e, v) /\ UNCHANGED <<rules, pending, created, told>>
  BY DEF EvaluateRule, historyVars
<1>3. \A p \in changed : /\ p \in DOMAIN w.targets
                         /\ ~has_unreadable_targets(w.targets[p], w.results)
                         /\ collect_package_diffs(w.targets[p], w.results) # NoDiff
  BY DEF Changed, Readable
\* What was told of this rule before is neither reported nor re-armed.
<1>4. ASSUME NEW p \in Pkg, told[r][p] # 0
      PROVE  s[p] = PendingDiff(p) /\ p \notin changed
  <2>1. /\ KnowsTold(w, r, p) /\ PendingDiff(p) # NoDiff
    BY <1>4, ToldFacts
  <2>2. w.snapshot[r].sent[p] = PendingDiff(p)
    BY <1>1, <2>1 DEF KnowsTold
  <2>3. CASE p \in Readable(w.snapshot[r], w.targets, w.results)
    <3>1. /\ w.targets[p] = Targets(p)
          /\ \A d \in Targets(p) : w.results[d] \in Change \cup {Clean}
      BY <2>3, ReadableFacts
    <3>2. \A d \in Targets(p) : w.results[d] = pending[d]
      BY <1>1, <2>1, <3>1, SentinelAssumption DEF KnowsTold
    <3>3. collect_package_diffs(w.targets[p], w.results) = PendingDiff(p)
      <4>1. collect_package_diffs(Targets(p), w.results)
              = collect_package_diffs(Targets(p), pending)
        BY <3>2, TargetsAreDevices, AgreeingDiff
      <4>. QED BY <3>1, <4>1, PendingOnTargets
    <3>. QED BY <2>1, <2>2, <3>3 DEF Rearmed, Changed
  <2>4. CASE p \notin Readable(w.snapshot[r], w.targets, w.results)
    BY <2>2, <2>4 DEF Rearmed, Changed
  <2>. QED BY <2>3, <2>4
<1>5. pc = "send" => c = changed
  OBVIOUS
<1>6. c \subseteq changed /\ pc \in {"send", "save"}
  OBVIOUS
<1>. HIDE DEF s, pc, c, changed
<1>7. /\ v.pc = pc /\ v.queue = w.queue \ {r} /\ v.snapshot = w.snapshot /\ v.rule = r
      /\ v.sent = s /\ v.changed = c /\ v.results = w.results /\ v.targets = w.targets
  BY <1>1 DEF Eval
<1>. HIDE DEF v
<1>8. EvalShape(v)
  <2>1. v.queue \subseteq created /\ v.rule \in created /\ v.rule \notin v.queue
    BY <1>1, <1>7 DEF EvalShape
  <2>. QED BY <1>1, <1>3, <1>5, <1>7, <2>1 DEF EvalShape
<1>9. ASSUME NEW q \in Rule, NEW p \in Pkg, told[q][p] # 0 PROVE KnowsTold(v, q, p)
  <2>1. KnowsTold(w, q, p)
    BY <1>9, ToldFacts
  <2>2. CASE q = r
    <3>1. v.sent[p] = PendingDiff(p) /\ p \notin v.changed
      BY <1>4, <1>6, <1>7, <1>9, <2>2
    <3>. QED BY <1>1, <1>6, <1>7, <2>1, <2>2, <3>1 DEF KnowsTold, Current
  <2>3. CASE q # r
    BY <1>1, <1>7, <2>1, <2>3 DEF KnowsTold, Current
  <2>. QED BY <2>2, <2>3
<1>. QED BY <1>2, <1>8, <1>9, MoveOnce

LEMMA SendAlertOnce ==
    ASSUME Reliable, AlertInv, OnceInv, NEW e \in Evaluator, NEW p \in Pkg,
           NEW ok \in BOOLEAN, SendAlert(e, p, ok)
    PROVE  OnceInv'
<1>. PICK v : v = eval[e]
  OBVIOUS
<1> DEFINE diff == collect_package_diffs(v.targets[p], v.results)
           u == Emailed(v, p, diff, ok)
           new == ok /\ diff = PendingDiff(p)
<1>1. v \in Eval /\ EvalShape(v) /\ v.pc = "send" /\ p \in v.changed /\ v.rule \in Rule
  BY EvalFacts DEF SendAlert, OnceInv, At, EvalBacked
<1>2. Move(e, u) /\ UNCHANGED <<rules, pending, created>>
  BY DEF SendAlert
<1>3. told[v.rule][p] = 0
  BY <1>1, ToldFacts DEF KnowsTold, Current
<1>4. told' = IF new THEN [told EXCEPT ![v.rule][p] = 1] ELSE told
  <2>1. told[v.rule][p] < 2 /\ told[v.rule][p] + 1 = 1
    BY <1>3
  <2>. QED BY <2>1 DEF SendAlert
<1>5. told \in [Rule -> [Pkg -> 0..2]]
  BY EvalFacts DEF TypeOK
\* The email reports what is on the devices that the package is installed on.
<1>6. /\ ~has_unreadable_targets(v.targets[p], v.results) /\ diff # NoDiff
      /\ v.targets[p] = Targets(p)
  <2>1. ~has_unreadable_targets(v.targets[p], v.results) /\ diff # NoDiff
    BY <1>1 DEF EvalShape
  <2>2. v.targets[p] \subseteq Device /\ p \in DOMAIN v.targets
    BY <1>1, <2>1 DEF has_unreadable_targets, EvalShape
  <2>. QED BY <1>1, <2>1, <2>2 DEF EvalShape
<1>7. new => \A d \in Targets(p) : v.results[d] = pending[d]
  <2>. SUFFICES ASSUME new, NEW d \in Targets(p) PROVE v.results[d] = pending[d]
    OBVIOUS
  <2>1. \A x \in Targets(p) : v.results[x] \in Change \cup {Clean}
    BY <1>1, <1>6, TargetsAreDevices DEF has_unreadable_targets, Eval, Result
  <2>2. \A x \in Targets(p) : pending[x] \in Change \cup {Clean}
    BY EvalFacts, TargetsAreDevices DEF TypeOK
  <2>3. collect_package_diffs(Targets(p), v.results)
          = collect_package_diffs(Targets(p), pending)
    BY <1>6, PendingOnTargets
  <2>4. Targets(p) \in SUBSET Device
    BY TargetsAreDevices
  <2>. QED BY <2>1, <2>2, <2>3, <2>4, SameDiff
<1>8. /\ u.pc \in {"send", "save"} /\ u.queue = v.queue /\ u.snapshot = v.snapshot
      /\ u.rule = v.rule /\ u.results = v.results /\ u.targets = v.targets
      /\ u.changed = v.changed \ {p}
      /\ u.sent = IF ok THEN [v.sent EXCEPT ![p] = diff] ELSE v.sent
  BY <1>1 DEF Emailed, Eval
<1>9. v.sent \in Sent
  BY <1>1 DEF Eval
<1>. HIDE DEF u, diff
<1>10. \A f \in Evaluator : eval'[f] = u
  BY <1>2 DEF Reliable, AlertInv, TypeOK, Move
<1>11. EvalShape(u)
  <2>1. u.queue \subseteq created /\ u.rule \in created /\ u.rule \notin u.queue
    BY <1>1, <1>8 DEF EvalShape
  <2>2. \A q \in DOMAIN u.targets : u.targets[q] \subseteq Device => u.targets[q] = Targets(q)
    BY <1>1, <1>8 DEF EvalShape
  <2>3. \A q \in u.changed :
          /\ q \in DOMAIN u.targets
          /\ ~has_unreadable_targets(u.targets[q], u.results)
          /\ collect_package_diffs(u.targets[q], u.results) # NoDiff
    BY <1>1, <1>8 DEF EvalShape
  <2>. QED BY <2>1, <2>2, <2>3 DEF EvalShape
<1>12. \A q : PendingDiff(q)' = PendingDiff(q)
  BY <1>2 DEF PendingDiff
<1>13. ASSUME NEW q \in Rule, NEW k \in Pkg PROVE ToldOnce(q, k)'
  <2>1. CASE new /\ q = v.rule /\ k = p
    <3>1. told'[q][k] = 1
      BY <1>1, <1>4, <1>5, <2>1
    <3>2. q \in created /\ q \notin u.queue /\ Current(u, q)
      BY <1>1, <1>8, <2>1 DEF EvalShape, Current
    <3>3. u.sent[k] = PendingDiff(k) /\ k \notin u.changed /\ PendingDiff(k) # NoDiff
      BY <1>6, <1>8, <1>9, <2>1 DEF Sent
    <3>4. \A d \in Targets(k) : u.results[d] \in {pending[d], Unreadable}
      BY <1>7, <1>8, <2>1
    <3>5. ASSUME NEW f \in Evaluator PROVE KnowsTold(eval[f], q, k)'
      BY <1>2, <1>10, <1>12, <3>2, <3>3, <3>4 DEF KnowsTold, Current
    <3>. QED BY <1>2, <1>12, <3>1, <3>2, <3>3, <3>5 DEF ToldOnce
  <2>2. CASE ~(new /\ q = v.rule /\ k = p) /\ told[q][k] # 0
    <3>1. told'[q][k] = told[q][k]
      BY <1>1, <1>4, <1>5, <2>2
    <3>2. told[q][k] = 1 /\ q \in created /\ PendingDiff(k) # NoDiff /\ KnowsTold(v, q, k)
      BY <2>2, ToldFacts
    <3>3. q = v.rule => k # p
      BY <1>3, <2>2
    <3>4. Current(u, q) <=> Current(v, q)
      BY <1>1, <1>8 DEF Current
    <3>5. Current(v, q) => u.sent[k] = v.sent[k]
      BY <1>8, <1>9, <3>3 DEF Current, Sent
    <3>6. KnowsTold(u, q, k)
      BY <1>1, <1>8, <3>2, <3>4, <3>5 DEF KnowsTold
    <3>7. ASSUME NEW f \in Evaluator PROVE KnowsTold(eval[f], q, k)'
      BY <1>2, <1>10, <1>12, <3>6 DEF KnowsTold, Current
    <3>. QED BY <1>2, <1>12, <3>1, <3>2, <3>7 DEF ToldOnce
  <2>3. CASE ~(new /\ q = v.rule /\ k = p) /\ told[q][k] = 0
    <3>1. told'[q][k] = 0
      BY <1>1, <1>4, <1>5, <2>3
    <3>. QED BY <3>1 DEF ToldOnce
  <2>. QED BY <2>1, <2>2, <2>3
<1>. QED BY <1>2, <1>10, <1>11, <1>13 DEF OnceInv, EvalShape

LEMMA SaveRuleStateOnce ==
    ASSUME Reliable, AlertInv, OnceInv, NEW e \in Evaluator, NEW ok \in BOOLEAN,
           SaveRuleState(e, ok)
    PROVE  OnceInv'
<1>. PICK v : v = eval[e]
  OBVIOUS
<1> DEFINE u == IF v.queue = {} THEN Idle ELSE [v EXCEPT !.pc = "next"]
<1>1. v \in Eval /\ EvalShape(v) /\ v.pc = "save" /\ v.rule \in Rule /\ v.sent \in Sent
  BY EvalFacts DEF SaveRuleState, OnceInv, At, EvalBacked, Eval
<1>2. Move(e, u) /\ UNCHANGED <<pending, created, told>>
  BY DEF SaveRuleState, historyVars
<1>3. rules' = WithSent(v.rule, v)
  BY DEF SaveRuleState, Reliable
<1>4. rules \in [Rule -> RuleState \cup {NoRule}]
  BY EvalFacts DEF TypeOK
<1>5. \A q \in Rule : q # v.rule => rules'[q] = rules[q]
  BY <1>3, <1>4 DEF WithSent
<1>6. rules'[v.rule] # NoRule => rules[v.rule] # NoRule /\ rules'[v.rule].sent = v.sent
  <2>1. rules[v.rule] # NoRule => rules[v.rule] \in RuleState
    BY <1>1, <1>4
  <2>. QED BY <1>1, <1>3, <1>4, <2>1 DEF WithSent, RuleState
<1>7. \A f \in Evaluator : eval'[f] = u
  BY <1>2 DEF Reliable, AlertInv, TypeOK, Move
<1>8. /\ u.pc \in {"idle", "next"} /\ u.queue = v.queue
      /\ u.pc # "idle" => u.results = v.results
      /\ u.queue # {} => u.snapshot = v.snapshot
      /\ u.targets = v.targets \/ DOMAIN u.targets = {}
  BY <1>1 DEF Idle, Eval
<1>. HIDE DEF u
<1>9. EvalShape(u)
  BY <1>1, <1>8 DEF EvalShape
<1>10. \A q : PendingDiff(q)' = PendingDiff(q)
  BY <1>2 DEF PendingDiff
<1>11. ASSUME NEW q \in Rule, NEW k \in Pkg, told[q][k] # 0
       PROVE  ToldOnce(q, k)'
  <2>1. told[q][k] = 1 /\ q \in created /\ PendingDiff(k) # NoDiff /\ KnowsTold(v, q, k)
    BY <1>11, ToldFacts
  <2>2. rules'[q] # NoRule => rules'[q].sent[k] = PendingDiff(k)
    <3>1. CASE q = v.rule
      BY <1>1, <1>6, <2>1, <3>1 DEF KnowsTold, Current
    <3>2. CASE q # v.rule
      BY <1>5, <2>1, <3>2 DEF KnowsTold, Current
    <3>. QED BY <3>1, <3>2
  <2>3. q \in u.queue => u.snapshot[q].sent[k] = PendingDiff(k)
    BY <1>8, <2>1 DEF KnowsTold
  <2>4. u.pc # "idle" => \A d \in Targets(k) : u.results[d] \in {pending[d], Unreadable}
    BY <1>1, <1>8, <2>1 DEF KnowsTold
  <2>5. ASSUME NEW f \in Evaluator PROVE KnowsTold(eval[f], q, k)'
    BY <1>2, <1>7, <1>8, <1>10, <2>2, <2>3, <2>4 DEF KnowsTold, Current
  <2>. QED BY <1>2, <1>10, <2>1, <2>5 DEF ToldOnce
<1>12. \A q \in Rule, k \in Pkg : ToldOnce(q, k)'
  <2>1. \A q \in Rule, k \in Pkg : told[q][k] = 0 => ToldOnce(q, k)'
    BY <1>2 DEF ToldOnce
  <2>. QED BY <1>11, <2>1
<1>13. \A q \in Rule : rules'[q] # NoRule => q \in created
  BY <1>5, <1>6 DEF OnceInv
<1>. QED BY <1>2, <1>7, <1>9, <1>12, <1>13 DEF OnceInv, EvalShape

\* An admin's edit of rule r, which was told of nothing or keeps its dedupe state.
LEMMA EditOnce ==
    ASSUME AlertInv, OnceInv, NEW r \in Rule, NEW x, rules' = [rules EXCEPT ![r] = x],
           created \subseteq created', UNCHANGED <<eval, pending, told>>,
           x # NoRule => r \in created',
           \A p \in Pkg : told[r][p] = 0 \/ x = NoRule \/ x.sent = rules[r].sent,
           x # NoRule => (r \notin created \/ rules[r] # NoRule)
    PROVE  OnceInv'
<1>1. \A q \in Rule : rules'[q] = IF q = r THEN x ELSE rules[q]
  BY DEF AlertInv, TypeOK
<1>2. \A q : PendingDiff(q)' = PendingDiff(q)
  BY DEF PendingDiff
<1>3. ASSUME NEW e \in Evaluator PROVE EvalShape(eval[e])'
  <2>1. EvalShape(eval[e])
    BY DEF OnceInv
  <2>. QED BY <2>1 DEF EvalShape
<1>4. ASSUME NEW q \in Rule, NEW p \in Pkg PROVE ToldOnce(q, p)'
  <2>1. CASE told[q][p] = 0
    BY <2>1 DEF ToldOnce
  <2>2. CASE told[q][p] # 0
    <3>1. told[q][p] = 1 /\ q \in created /\ PendingDiff(p) # NoDiff
      BY <2>2 DEF OnceInv, ToldOnce
    <3>2. ASSUME NEW e \in Evaluator PROVE KnowsTold(eval[e], q, p)'
      <4>1. KnowsTold(eval[e], q, p)
        BY <2>2, ToldFacts
      <4>2. ~Current(eval[e], q) => (rules'[q] # NoRule => rules'[q].sent[p] = PendingDiff(p))
        BY <1>1, <2>2, <3>1, <4>1 DEF KnowsTold
      <4>. QED BY <1>2, <4>1, <4>2 DEF KnowsTold, Current
    <3>. QED BY <1>2, <3>1, <3>2 DEF ToldOnce
  <2>. QED BY <2>1, <2>2
<1>. QED BY <1>1, <1>3, <1>4 DEF OnceInv

LEMMA AdminOnce ==
    ASSUME AlertInv, OnceInv, AdminStep
    PROVE  OnceInv'
<1>1. ASSUME NEW r \in Rule, NEW enabled \in BOOLEAN, NEW packages \in WatchList,
             create_rule(r, enabled, packages)
      PROVE  OnceInv'
  <2>1. \A p \in Pkg : told[r][p] = 0
    BY <1>1 DEF create_rule, OnceInv, ToldOnce
  <2>. QED BY <1>1, <2>1, EditOnce DEF create_rule, SetRule
<1>2. ASSUME NEW r \in Rule, NEW enabled \in BOOLEAN, NEW packages \in WatchList,
             update_rule(r, enabled, packages)
      PROVE  OnceInv'
  <2> DEFINE x == [enabled |-> enabled, packages |-> packages, sent |-> rules[r].sent]
  <2>1. x.sent = rules[r].sent
    OBVIOUS
  <2>2. /\ rules' = [rules EXCEPT ![r] = x] /\ rules[r] # NoRule
        /\ UNCHANGED <<created, eval, pending, told>>
    BY <1>2 DEF update_rule, SetRule
  <2>3. r \in created
    BY <2>2 DEF OnceInv
  <2>. HIDE DEF x
  <2>. QED BY <2>1, <2>2, <2>3, EditOnce
<1>3. ASSUME NEW r \in Rule, delete_rule(r)
      PROVE  OnceInv'
  BY <1>3, EditOnce DEF delete_rule
<1>. QED BY <1>1, <1>2, <1>3 DEF AdminStep

LEMMA StageOnce ==
    ASSUME AlertInv, OnceInv, NEW d \in Device, NEW c \in Change \cup {Clean}, Stage(d, c)
    PROVE  OnceInv'
<1>1. UNCHANGED <<rules, eval, created>>
  BY DEF Stage
<1>2. \A r \in Rule, p \in Pkg :
        told'[r][p] = IF PendingDiff(p)' = PendingDiff(p) THEN told[r][p] ELSE 0
  BY DEF Stage
<1>3. /\ pending \in [Device -> Change \cup {Clean}]
      /\ pending' \in [Device -> Change \cup {Clean}]
  BY DEF Stage, AlertInv, TypeOK
<1>4. ASSUME NEW p \in Pkg, PendingDiff(p)' = PendingDiff(p), NEW x \in Targets(p)
      PROVE  pending'[x] = pending[x]
  <2>1. Targets(p) \in SUBSET Device
    BY TargetsAreDevices
  <2>2. collect_package_diffs(Targets(p), pending') = collect_package_diffs(Targets(p), pending)
    BY <1>4 DEF PendingDiff, Targets
  <2>3. \A y \in Targets(p) : /\ pending'[y] \in Change \cup {Clean}
                              /\ pending[y] \in Change \cup {Clean}
    BY <1>3, <2>1
  <2>. QED BY <2>1, <2>2, <2>3, SameDiff
<1>5. ASSUME NEW r \in Rule, NEW p \in Pkg PROVE ToldOnce(r, p)'
  <2>1. CASE told'[r][p] = 0
    BY <2>1 DEF ToldOnce
  <2>2. CASE told'[r][p] # 0
    <3>1. PendingDiff(p)' = PendingDiff(p) /\ told'[r][p] = told[r][p] /\ told[r][p] # 0
      BY <1>2, <2>2
    <3>2. told[r][p] = 1 /\ r \in created /\ PendingDiff(p) # NoDiff
      BY <3>1 DEF OnceInv, ToldOnce
    <3>3. ASSUME NEW e \in Evaluator PROVE KnowsTold(eval[e], r, p)'
      <4>1. KnowsTold(eval[e], r, p)
        BY <3>1, ToldFacts
      <4>2. \A x \in Targets(p) : pending'[x] = pending[x]
        BY <1>4, <3>1
      <4>. QED BY <1>1, <3>1, <4>1, <4>2 DEF KnowsTold, Current
    <3>. QED BY <1>1, <3>1, <3>2, <3>3 DEF ToldOnce
  <2>. QED BY <2>1, <2>2
<1>. QED BY <1>1, <1>5 DEF OnceInv, EvalShape

LEMMA NextOnceInv == Reliable /\ AlertInv /\ OnceInv /\ [Next]_vars => OnceInv'
<1>. SUFFICES ASSUME Reliable, AlertInv, OnceInv, [Next]_vars PROVE OnceInv'
  OBVIOUS
<1>1. ASSUME NEW e \in Evaluator, EvalStep(e) PROVE OnceInv'
  BY <1>1, SweepOnce, LoadRulesOnce, LookupOnce, EvaluateRuleOnce, SendAlertOnce,
     SaveRuleStateOnce DEF EvalStep
<1>2. ~Crash
  BY DEF Crash, Reliable, AlertInv, TypeOK
<1>3. CASE UNCHANGED vars
  <2>1. UNCHANGED <<rules, eval, pending, created, told>>
    BY <1>3 DEF vars, historyVars
  <2>2. \A p : PendingDiff(p)' = PendingDiff(p)
    BY <2>1 DEF PendingDiff
  <2>3. \A e \in Evaluator : EvalShape(eval[e]) => EvalShape(eval[e])'
    BY <2>1 DEF EvalShape
  <2>4. \A e \in Evaluator, r \in Rule, p \in Pkg :
          KnowsTold(eval[e], r, p) => KnowsTold(eval[e], r, p)'
    BY <2>1, <2>2 DEF KnowsTold, Current
  <2>5. \A r \in Rule, p \in Pkg : ToldOnce(r, p) => ToldOnce(r, p)'
    BY <2>1, <2>2, <2>4 DEF ToldOnce
  <2>. QED BY <2>1, <2>3, <2>5 DEF OnceInv
<1>. QED BY <1>1, <1>2, <1>3, AdminOnce, StageOnce DEF Next

\* "The same pending diff is never emailed twice" (docs/features.md): it holds while
\* the evaluations of an ADOM follow each other, through failing previews, listings,
\* reports and emails, edits of the rules, and any coming and going of the diff.
THEOREM EmailedOnce == Reliable => (Spec => []NeverEmailedTwice)
<1>. SUFFICES ASSUME Reliable PROVE Spec => []NeverEmailedTwice
  OBVIOUS
<1>1. AlertInv /\ OnceInv /\ [Next]_vars => OnceInv'
  BY NextOnceInv
<1>2. OnceInv => NeverEmailedTwice
  BY DEF OnceInv, ToldOnce, NeverEmailedTwice
<1>. QED BY <1>1, <1>2, InitOnceInv, AlwaysAlertInv, PTL DEF Spec

=============================================================================
