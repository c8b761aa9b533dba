--------------------------- MODULE Services_proofs ---------------------------
(***************************************************************************)
(* What is true of the hygiene checks, of PSIRT, of the NAT report, of     *)
(* device reviews and of the report jobs for every package, fleet, device, *)
(* job and set of users: findings, assessments, verdicts and records that  *)
(* cannot mislead whoever acts on them.                                    *)
(***************************************************************************)
EXTENDS RuleHygiene, Psirt, NatReport, DeviceReview, PolicyReports, ReportJobs,
        SequenceTheorems, FiniteSetTheorems, WellFoundedInduction, TLAPS

-----------------------------------------------------------------------------
(* PSIRT.  Nothing to act on is only said of what was read, with any       *)
(* failing reads, and for what is assessed, merged, re-assessed and stored *)
(* alike.                                                                  *)

(* What is true of every assessment: its priority is the conclusion from   *)
(* its findings, and it is degraded when something was missed.             *)
Concluded(r) ==
    /\ r.missed => r.degraded
    /\ r.priority = Conclude(r.advisory, r.findings, r.degraded)

Safe(r) == r.priority = "informational" => ~r.missed /\ ~Confirmed(r.findings)

(* The inductive invariant.  InformationalIsSafe says nothing of the       *)
(* requests, from which the rows come, beyond their own priority.          *)
PsirtIInv ==
    /\ DOMAIN latest = Advisory
    /\ DOMAIN request = Analyst
    /\ \A u \in Analyst : request[u] # NoAdvisory => Concluded(request[u])
    /\ \A a \in Advisory :
          latest[a] # NoAdvisory /\ latest[a].priority = "informational" =>
             ~latest[a].missed /\ latest[a].devices_affected = {}

-----------------------------------------------------------------------------
(* The conclusion                                                          *)

(* A confirmed finding always has a priority of its own (compute_priority).*)
LEMMA ConfirmedHasPriority ==
    ASSUME NEW adv
    PROVE  compute_priority(adv, TRUE) # "informational"
  BY DEF compute_priority, _cvss_band

(* Nothing to act on follows from a complete reading without findings.     *)
LEMMA ConclusionIsSafe ==
    ASSUME NEW adv, NEW findings, NEW degraded,
           Conclude(adv, findings, degraded) = "informational"
    PROVE  ~degraded /\ ~Confirmed(findings)
<1>1. CASE degraded /\ ~Confirmed(findings)
  BY <1>1 DEF Conclude
<1>2. CASE ~(degraded /\ ~Confirmed(findings))
  <2>1. compute_priority(adv, Confirmed(findings)) = "informational"
    BY <1>2 DEF Conclude
  <2>2. Confirmed(findings) \in BOOLEAN
    BY DEF Confirmed
  <2>3. ~Confirmed(findings)
    BY <2>1, <2>2, ConfirmedHasPriority
  <2>4. QED
    BY <1>2, <2>3
<1>3. QED
  BY <1>1, <1>2

LEMMA ConcludedIsSafe ==
    ASSUME NEW r, Concluded(r)
    PROVE  Safe(r)
  BY ConclusionIsSafe DEF Concluded, Safe

(* assess and merge, whatever could be read.                               *)
LEMMA AssessConcludes ==
    ASSUME NEW adv, NEW client, NEW scope, NEW web, NEW enabled
    PROVE  Concluded(assess(adv, client, scope, web, enabled))
  BY DEF assess, Concluded

LEMMA MergeConcludes ==
    ASSUME NEW pieces, \A i \in DOMAIN pieces : Concluded(pieces[i])
    PROVE  Concluded(merge(pieces))
  BY DEF merge, Concluded

LEMMA AssessmentsConclude ==
    ASSUME NEW u, NEW adv, NEW client, NEW web, NEW r \in Assessments(u, adv, client, web)
    PROVE  Concluded(r)
<1> DEFINE once == enrich_advisory(adv, web, EnrichmentEnabled)
           pieces(o) == [i \in DOMAIN o |-> assess(once, client, o[i], web, FALSE)]
<1>1. \/ \E scope : r = assess(adv, client, scope, web, EnrichmentEnabled)
      \/ \E o : r = merge(pieces(o))
  BY DEF Assessments
<1>2. ASSUME NEW o
      PROVE  Concluded(merge(pieces(o)))
  <2>1. \A i \in DOMAIN pieces(o) : Concluded(pieces(o)[i])
    BY AssessConcludes
  <2> HIDE DEF pieces
  <2>2. QED
    BY <2>1, MergeConcludes
<1> HIDE DEF pieces
<1>3. QED
  BY <1>1, <1>2, AssessConcludes

-----------------------------------------------------------------------------
(* The steps                                                               *)

(* A saved assessment keeps what the rows promise.                         *)
LEMMA SaveKeeps ==
    ASSUME NEW r, Concluded(r), save_assessment_result(r), PsirtIInv
    PROVE  /\ DOMAIN latest' = Advisory
           /\ \A a \in Advisory :
                 latest'[a] # NoAdvisory /\ latest'[a].priority = "informational" =>
                    ~latest'[a].missed /\ latest'[a].devices_affected = {}
<1> DEFINE row == [devices_affected |-> {[name |-> f.device, adom |-> f.adom,
                                          workaround_applied |-> f.workaround_status = "in_place"] :
                                         f \in {g \in r.findings : g.in_range}},
                   findings_count |-> Cardinality(r.findings), priority |-> r.priority,
                   degraded |-> r.degraded, missed |-> r.missed]
<1>1. latest' = [latest EXCEPT ![r.advisory.id] = row]
  BY DEF save_assessment_result
<1>2. row.priority = "informational" => ~row.missed /\ row.devices_affected = {}
  BY ConcludedIsSafe DEF Safe, Confirmed
<1> HIDE DEF row
<1>3. QED
  BY <1>1, <1>2 DEF PsirtIInv

LEMMA PsirtInitial == PsirtInit => PsirtIInv
  BY DEF PsirtInit, PsirtIInv

LEMMA PsirtInductive == PsirtIInv /\ [PsirtNext]_psirtVars => PsirtIInv'
<1> SUFFICES ASSUME PsirtIInv, [PsirtNext]_psirtVars PROVE PsirtIInv'
  OBVIOUS
<1>1. ASSUME NEW u \in Analyst, NEW a \in Advisory, psirt_assess_bulk(u, a)
      PROVE  PsirtIInv'
  <2>1. PICK client, web, r :
            /\ r \in Assessments(u, _advisory_from_payload(a), client, web)
            /\ request' = [request EXCEPT ![u] = r]
    BY <1>1 DEF psirt_assess_bulk
  <2>2. Concluded(r)
    BY <2>1, AssessmentsConclude
  <2>3. latest' = latest
    BY <1>1 DEF psirt_assess_bulk
  <2>4. QED
    BY <2>1, <2>2, <2>3 DEF PsirtIInv
<1>2. ASSUME NEW u \in Analyst, psirt_assess_save(u)
      PROVE  PsirtIInv'
  <2>1. /\ request[u] # NoAdvisory
        /\ request' = [request EXCEPT ![u] = NoAdvisory]
    BY <1>2 DEF psirt_assess_save
  <2>2. CASE save_assessment_result(request[u])
    <3>1. Concluded(request[u])
      BY <2>1 DEF PsirtIInv
    <3>2. QED
      BY <2>1, <2>2, <3>1, SaveKeeps DEF PsirtIInv
  <2>3. CASE UNCHANGED <<advisories, latest>>
    BY <2>1, <2>3 DEF PsirtIInv
  <2>4. QED
    BY <1>2, <2>2, <2>3 DEF psirt_assess_save
<1>3. CASE ReassessNext
  <2>1. request' = request
    BY <1>3 DEF ReassessNext
  <2>2. PICK a : (\E kev \in BOOLEAN : save_assessment_result(Reassess(a, kev)))
                 \/ UNCHANGED <<advisories, latest>>
    BY <1>3 DEF ReassessNext
  <2>3. ASSUME NEW kev \in BOOLEAN, save_assessment_result(Reassess(a, kev))
        PROVE  PsirtIInv'
    <3>1. Concluded(Reassess(a, kev))
      BY AssessConcludes DEF Reassess
    <3>2. QED
      BY <2>1, <2>3, <3>1, SaveKeeps DEF PsirtIInv
  <2>4. QED
    BY <2>1, <2>2, <2>3 DEF PsirtIInv
<1>4. CASE UNCHANGED <<latest, request>>
  BY <1>4 DEF PsirtIInv
<1>5. QED
  BY <1>1, <1>2, <1>3, <1>4 DEF PsirtNext, psirtVars, close_advisory, _run_reassessment,
     ReassessDone, SweepInventory, UpgradeDevice, RestartPsirt

-----------------------------------------------------------------------------
(* InformationalIsSafe: no assessment, of a user or of the scheduler, and  *)
(* no row of the database says that there is nothing to do when a device   *)
(* is in range or something of the scope could not be read.                *)
THEOREM NothingToDoIsTrue == PsirtSpec => []InformationalIsSafe
<1>1. PsirtIInv => InformationalIsSafe
  BY ConcludedIsSafe DEF PsirtIInv, InformationalIsSafe, Safe
<1>2. QED
  BY <1>1, PsirtInitial, PsirtInductive, PTL DEF PsirtSpec

-----------------------------------------------------------------------------
(* Closed advisories                                                       *)

(* The inductive invariant: a row of the table has the column of closed_at. *)
RowsHaveClosed == \A a \in DOMAIN advisories : "closed" \in DOMAIN advisories[a]

LEMMA SaveKeepsClosed ==
    ASSUME NEW r, save_assessment_result(r), RowsHaveClosed
    PROVE  /\ RowsHaveClosed'
           /\ \A a \in Advisory : IsClosed(a) => IsClosed(a)'
<1> DEFINE id  == r.advisory.id
           row == StoredRow(r)
<1>1. advisories' = [b \in DOMAIN advisories \cup {id} |-> IF b = id THEN row ELSE advisories[b]]
  BY DEF save_assessment_result
<1>2. "closed" \in DOMAIN row /\ row.closed = IsClosed(id)
  BY DEF StoredRow
<1> HIDE DEF id, row
<1>3. QED
  BY <1>1, <1>2 DEF RowsHaveClosed, IsClosed

LEMMA CloseKeepsClosed ==
    ASSUME NEW c \in Advisory, close_advisory(c), RowsHaveClosed
    PROVE  /\ RowsHaveClosed'
           /\ \A a \in Advisory : IsClosed(a) => IsClosed(a)'
<1> DEFINE row == [advisories[c] EXCEPT !.closed = TRUE]
<1>1. c \in DOMAIN advisories /\ advisories' = [advisories EXCEPT ![c] = row]
  BY DEF close_advisory
<1>2. "closed" \in DOMAIN row /\ row.closed = TRUE
  BY <1>1 DEF RowsHaveClosed
<1> HIDE DEF row
<1>3. QED
  BY <1>1, <1>2 DEF RowsHaveClosed, IsClosed

LEMMA ClosedStep ==
    ASSUME RowsHaveClosed, [PsirtNext]_psirtVars
    PROVE  /\ RowsHaveClosed'
           /\ \A a \in Advisory : IsClosed(a) => IsClosed(a)'
<1>1. CASE UNCHANGED advisories
  BY <1>1 DEF RowsHaveClosed, IsClosed
<1>2. ASSUME NEW u \in Analyst, psirt_assess_save(u)
      PROVE  save_assessment_result(request[u]) \/ UNCHANGED advisories
  BY <1>2 DEF psirt_assess_save
<1>3. ASSUME ReassessNext
      PROVE  (\E a, kev : save_assessment_result(Reassess(a, kev))) \/ UNCHANGED advisories
  BY <1>3 DEF ReassessNext
<1>4. QED
  BY <1>1, <1>2, <1>3, SaveKeepsClosed, CloseKeepsClosed
     DEF PsirtNext, psirtVars, psirt_assess_bulk, _run_reassessment, ReassessDone, SweepInventory,
         UpgradeDevice, RestartPsirt

(* ClosedStaysClosed: an assessment that is saved after an advisory was    *)
(* closed keeps closed_at, however long it was under way.                  *)
THEOREM ClosedIsFinal == PsirtSpec => ClosedStaysClosed
<1>1. PsirtInit => RowsHaveClosed
  BY DEF PsirtInit, RowsHaveClosed
<1>2. QED
  BY <1>1, ClosedStep, PTL DEF PsirtSpec, ClosedStaysClosed

-----------------------------------------------------------------------------
(* Sequences: one element less, and one element more.                      *)

LEMMA WithoutOne ==
    ASSUME NEW S, NEW p \in Seq(S), NEW i \in DOMAIN p
    PROVE  /\ Without(p, i) \in Seq(S)
           /\ Len(Without(p, i)) = Len(p) - 1
           /\ \A j \in 1..Len(p) - 1 : Without(p, i)[j] = IF j < i THEN p[j] ELSE p[j + 1]
<1> DEFINE before == SubSeq(p, 1, i - 1)
           after  == SubSeq(p, i + 1, Len(p))
<1>1. i \in 1..Len(p) /\ Len(p) \in Nat /\ \A j \in 1..Len(p) : p[j] \in S
  BY ElementOfSeq
<1>2. /\ before \in Seq(S) /\ Len(before) = i - 1
      /\ \A j \in 1..i - 1 : before[j] = p[j]
  <2>1. \A j \in 1..i - 1 : p[j] \in S
    BY <1>1
  <2>2. /\ before \in Seq(S)
        /\ Len(before) = IF 1 <= i - 1 THEN i - 1 - 1 + 1 ELSE 0
        /\ \A j \in 1..i - 1 - 1 + 1 : before[j] = p[1 + j - 1]
    BY <1>1, <2>1, SubSeqProperties
  <2>3. QED
    BY <1>1, <2>2
<1>3. /\ after \in Seq(S) /\ Len(after) = Len(p) - i
      /\ \A j \in 1..Len(p) - i : after[j] = p[i + j]
  <2>1. \A j \in i + 1..Len(p) : p[j] \in S
    BY <1>1
  <2>2. /\ after \in Seq(S)
        /\ Len(after) = IF i + 1 <= Len(p) THEN Len(p) - (i + 1) + 1 ELSE 0
        /\ \A j \in 1..Len(p) - (i + 1) + 1 : after[j] = p[(i + 1) + j - 1]
    BY <1>1, <2>1, SubSeqProperties
  <2>3. QED
    BY <1>1, <2>2
<1>4. Without(p, i) = before \o after
  BY DEF Without
<1> HIDE DEF before, after
<1>5. /\ Without(p, i) \in Seq(S)
      /\ Len(Without(p, i)) = Len(before) + Len(after)
      /\ \A j \in 1..Len(before) + Len(after) : Without(p, i)[j] =
            IF j <= Len(before) THEN before[j] ELSE after[j - Len(before)]
  <2>1. /\ before \o after \in Seq(S)
        /\ Len(before \o after) = Len(before) + Len(after)
        /\ \A j \in 1..Len(before) + Len(after) : (before \o after)[j] =
              IF j <= Len(before) THEN before[j] ELSE after[j - Len(before)]
    BY <1>2, <1>3, ConcatProperties, Zenon
  <2>2. QED
    BY <1>4, <2>1, Zenon
<1>6. ASSUME NEW j \in 1..Len(p) - 1
      PROVE  Without(p, i)[j] = IF j < i THEN p[j] ELSE p[j + 1]
  <2>1. CASE j < i
    BY <1>1, <1>2, <1>3, <1>5, <2>1
  <2>2. CASE i <= j
    <3>1. Without(p, i)[j] = after[j - (i - 1)]
      BY <1>1, <1>2, <1>3, <1>5, <2>2
    <3>2. after[j - (i - 1)] = p[i + (j - (i - 1))]
      BY <1>1, <1>3, <2>2
    <3>3. i + (j - (i - 1)) = j + 1
      BY <1>1
    <3>4. QED
      BY <1>1, <2>2, <3>1, <3>2, <3>3
  <2>3. QED
    BY <1>1, <2>1, <2>2
<1>7. QED
  BY <1>1, <1>2, <1>3, <1>5, <1>6

(* A sequence with e put before its b-th element, or at its end.           *)
Inserted(q, b, e) == SubSeq(q, 1, b - 1) \o <<e>> \o SubSeq(q, b, Len(q))

InsertedAt(q, b, e, j) == IF j < b THEN q[j] ELSE IF j = b THEN e ELSE q[j - 1]

LEMMA InsertedOne ==
    ASSUME NEW S, NEW q \in Seq(S), NEW b \in 1..Len(q) + 1, NEW e \in S
    PROVE  /\ Inserted(q, b, e) \in Seq(S)
           /\ Len(Inserted(q, b, e)) = Len(q) + 1
           /\ \A j \in 1..Len(q) + 1 : Inserted(q, b, e)[j] = InsertedAt(q, b, e, j)
<1> DEFINE before == SubSeq(q, 1, b - 1)
           after  == SubSeq(q, b, Len(q))
<1>1. Len(q) \in Nat /\ b \in Nat /\ b >= 1 /\ b <= Len(q) + 1 /\ \A j \in 1..Len(q) : q[j] \in S
  BY ElementOfSeq
<1>2. /\ before \in Seq(S) /\ Len(before) = b - 1
      /\ \A j \in 1..b - 1 : before[j] = q[j]
  <2>1. \A j \in 1..b - 1 : q[j] \in S
    BY <1>1
  <2>2. /\ before \in Seq(S)
        /\ Len(before) = IF 1 <= b - 1 THEN b - 1 - 1 + 1 ELSE 0
        /\ \A j \in 1..b - 1 - 1 + 1 : before[j] = q[1 + j - 1]
    BY <1>1, <2>1, SubSeqProperties
  <2>3. QED
    BY <1>1, <2>2
<1>3. /\ after \in Seq(S) /\ Len(after) = Len(q) - b + 1
      /\ \A j \in 1..Len(q) - b + 1 : after[j] = q[b + j - 1]
  <2>1. \A j \in b..Len(q) : q[j] \in S
    BY <1>1
  <2>2. /\ after \in Seq(S)
        /\ Len(after) = IF b <= Len(q) THEN Len(q) - b + 1 ELSE 0
        /\ \A j \in 1..Len(q) - b + 1 : after[j] = q[b + j - 1]
    BY <1>1, <2>1, SubSeqProperties
  <2>3. QED
    BY <1>1, <2>2
<1> DEFINE top == before \o <<e>>
<1>4. Inserted(q, b, e) = top \o after
  BY DEF Inserted
<1> HIDE DEF before, after
<1>5. /\ top \in Seq(S) /\ Len(top) = b
      /\ \A j \in 1..b : top[j] = IF j <= b - 1 THEN before[j] ELSE e
  <2>1. <<e>> \in Seq(S) /\ Len(<<e>>) = 1 /\ <<e>>[1] = e
    OBVIOUS
  <2>2. /\ top \in Seq(S) /\ Len(top) = Len(before) + Len(<<e>>)
        /\ \A j \in 1..Len(before) + Len(<<e>>) : top[j] =
              IF j <= Len(before) THEN before[j] ELSE <<e>>[j - Len(before)]
    BY <1>2, <2>1, ConcatProperties, Zenon
  <2>3. Len(top) = b
    BY <1>1, <1>2, <2>1, <2>2
  <2>4. ASSUME NEW j \in 1..b
        PROVE  top[j] = IF j <= b - 1 THEN before[j] ELSE e
    <3>1. top[j] = IF j <= b - 1 THEN before[j] ELSE <<e>>[j - (b - 1)]
      BY <1>1, <1>2, <2>1, <2>2
    <3>2. j <= b - 1 \/ j - (b - 1) = 1
      BY <1>1
    <3>3. QED
      BY <2>1, <3>1, <3>2
  <2>5. QED
    BY <2>2, <2>3, <2>4
<1> HIDE DEF top
<1>6. /\ Inserted(q, b, e) \in Seq(S)
      /\ Len(Inserted(q, b, e)) = Len(top) + Len(after)
      /\ \A j \in 1..Len(top) + Len(after) : Inserted(q, b, e)[j] =
            IF j <= Len(top) THEN top[j] ELSE after[j - Len(top)]
  <2>1. /\ top \o after \in Seq(S)
        /\ Len(top \o after) = Len(top) + Len(after)
        /\ \A j \in 1..Len(top) + Len(after) : (top \o after)[j] =
              IF j <= Len(top) THEN top[j] ELSE after[j - Len(top)]
    BY <1>3, <1>5, ConcatProperties, Zenon
  <2>2. QED
    BY <1>4, <2>1, Zenon
<1>7. Len(top) = b /\ Len(top) + Len(after) = Len(q) + 1
  BY <1>1, <1>3, <1>5
<1>8. \A j \in 1..Len(q) + 1 : Inserted(q, b, e)[j] = IF j <= b THEN top[j] ELSE after[j - b]
  BY <1>6, <1>7, Zenon
<1>9. ASSUME NEW j \in 1..Len(q) + 1
      PROVE  Inserted(q, b, e)[j] = IF j < b THEN q[j] ELSE IF j = b THEN e ELSE q[j - 1]
  <2>1. CASE j < b
    <3>1. Inserted(q, b, e)[j] = top[j] /\ top[j] = before[j]
      BY <1>1, <1>5, <1>8, <2>1
    <3>2. before[j] = q[j]
      BY <1>1, <1>2, <2>1
    <3>3. QED
      BY <2>1, <3>1, <3>2
  <2>2. CASE j = b
    BY <1>1, <1>5, <1>8, <2>2
  <2>3. CASE b < j
    <3>1. Inserted(q, b, e)[j] = after[j - b]
      BY <1>1, <1>8, <2>3
    <3>2. after[j - b] = q[b + (j - b) - 1] /\ b + (j - b) - 1 = j - 1
      BY <1>1, <1>3, <2>3
    <3>3. QED
      BY <1>1, <2>3, <3>1, <3>2
  <2>4. QED
    BY <1>1, <2>1, <2>2, <2>3
<1>10. QED
  BY <1>6, <1>7, <1>9 DEF InsertedAt

-----------------------------------------------------------------------------
(* Rule hygiene.  Coverage: whatever _covers accepts, a packet that is     *)
(* matched by the covered names is matched by the covering ones.           *)

LEMMA CoversIsSound ==
    ASSUME NEW a \in SUBSET (Object \cup Dangling), NEW b \in SUBSET (Object \cup Dangling), NEW known,
           _covers(a, b, known), NEW x \in Point, \E o \in b : x \in Denotes[o]
    PROVE  \E o \in a : x \in Denotes[o]
<1>1. PICK o \in b : x \in Denotes[o]
  OBVIOUS
<1>2. CASE a \cap Wild # {}
  <2>1. PICK w \in a \cap Wild : TRUE
    BY <1>2
  <2>2. w \in Wild \cap Object
    BY <2>1, HygieneAssumption
  <2>3. Denotes[w] = Point
    BY <2>2, WildIsEverything
  <2>4. QED
    BY <2>1, <2>3
<1>3. CASE b \subseteq a
  BY <1>1, <1>3
<1>4. CASE ContainedByNetwork(a, b)
  <2>1. o \in Object /\ Networks[o] # Opaque
    BY <1>1, <1>4 DEF ContainedByNetwork
  <2>2. PICK n \in Networks[o] : x \in n
    BY <1>1, <2>1, ResolverSound
  <2>3. n \in Resolved(b)
    BY <1>1, <2>2 DEF Resolved
  <2>4. PICK m \in Resolved(a) : n \subseteq m
    BY <1>4, <2>3 DEF ContainedByNetwork
  <2>5. PICK q \in a : m \in Networks[q]
    BY <2>4 DEF Resolved
  <2>6. q \in Object /\ Networks[q] # Opaque
    BY <1>4, <2>5 DEF ContainedByNetwork
  <2>7. x \in Denotes[q]
    BY <2>2, <2>4, <2>5, <2>6, ResolverSound
  <2>8. QED
    BY <2>5, <2>7
<1>5. b # {}
  BY <1>1
<1>6. QED
  BY <1>2, <1>3, <1>4, <1>5 DEF _covers

LEMMA ScopeIsSound ==
    ASSUME NEW a \in Rule, NEW b \in Rule, NEW known, CoversScope(a, b, known),
           NEW k \in Packet, Matches(b, k), a.status = "enable", ~a.block, InView(a, b, k)
    PROVE  Matches(a, k)
<1>1. /\ a.ident = {} \/ k.user \in a.ident
      /\ ActiveAt(a, k) /\ k.intf \in a.intf /\ a.negated = {} /\ b.negated = {}
  BY DEF Matches, CoversScope, InView
<1>2. ASSUME NEW d \in Dim
      PROVE  \E o \in a.on[d] : k.at[d] \in Denotes[o]
  <2>1. a.on[d] \in SUBSET (Object \cup Dangling) /\ b.on[d] \in SUBSET (Object \cup Dangling)
    BY DEF Rule
  <2>2. k.at[d] \in Point /\ (\E o \in b.on[d] : k.at[d] \in Denotes[o])
    BY <1>1 DEF Matches, Names, Packet
  <2>3. _covers(a.on[d], b.on[d], known)
    BY DEF CoversScope
  <2>4. QED
    BY <2>1, <2>2, <2>3, CoversIsSound
<1>3. \A d \in Dim : Names(a, d, k) <=> d \notin a.negated
  BY <1>1, <1>2 DEF Names
<1>4. QED
  BY <1>1, <1>3 DEF Matches

-----------------------------------------------------------------------------
(* The package: rules with an id of their own, whatever is done to it.     *)

UniqueIds(p) == \A i, j \in DOMAIN p : p[i].id = p[j].id => i = j

OlderThan(p, n) == \A i \in DOMAIN p : p[i].id < n

Narrowings == \A f \in report : f.narrow \subseteq Dim \X SUBSET (Object \cup Dangling)

PackageIInv ==
    /\ pkg \in Seq(Rule)
    /\ today \in 0..MaxDay
    /\ nextId \in Nat
    /\ edited \in BOOLEAN
    /\ UniqueIds(pkg)
    /\ OlderThan(pkg, nextId)
    /\ Narrowings

(* A package whose rules are those of another one, each at most once, under *)
(* the same ids.                                                           *)
LEMMA Rearranged ==
    ASSUME NEW p \in Seq(Rule), UniqueIds(p), NEW n, OlderThan(p, n), NEW q \in Seq(Rule),
           NEW at \in [DOMAIN q -> DOMAIN p],
           \A i, j \in DOMAIN q : at[i] = at[j] => i = j,
           \A i \in DOMAIN q : q[i].id = p[at[i]].id
    PROVE  UniqueIds(q) /\ OlderThan(q, n)
<1>1. ASSUME NEW i \in DOMAIN q, NEW j \in DOMAIN q, q[i].id = q[j].id
      PROVE  i = j
  <2>1. at[i] \in DOMAIN p /\ at[j] \in DOMAIN p /\ p[at[i]].id = p[at[j]].id
    BY <1>1
  <2>2. at[i] = at[j]
    BY <2>1 DEF UniqueIds
  <2>3. QED
    BY <2>2
<1>2. ASSUME NEW i \in DOMAIN q
      PROVE  q[i].id < n
  <2>1. at[i] \in DOMAIN p /\ q[i].id = p[at[i]].id
    BY <1>2
  <2>2. QED
    BY <2>1 DEF OlderThan
<1>3. QED
  BY <1>1, <1>2 DEF UniqueIds, OlderThan

LEMMA Placed ==
    ASSUME NEW id, Live(id)
    PROVE  PlaceOf(id) \in DOMAIN pkg /\ pkg[PlaceOf(id)].id = id
BY DEF Live, PlaceOf

LEMMA PlaceIsUnique ==
    ASSUME UniqueIds(pkg), NEW i \in DOMAIN pkg
    PROVE  PlaceOf(pkg[i].id) = i
<1>1. PlaceOf(pkg[i].id) \in DOMAIN pkg /\ pkg[PlaceOf(pkg[i].id)].id = pkg[i].id
  BY DEF PlaceOf
<1>2. QED
  BY <1>1 DEF UniqueIds

LEMMA Replaced ==
    ASSUME PackageIInv, NEW i \in DOMAIN pkg, NEW r \in Rule, r.id = pkg[i].id, Change(i, r)
    PROVE  /\ pkg' \in Seq(Rule) /\ UniqueIds(pkg') /\ OlderThan(pkg', nextId)
           /\ DOMAIN pkg' = DOMAIN pkg
<1>1. pkg \in Seq(Rule) /\ i \in 1..Len(pkg) /\ pkg' = [pkg EXCEPT ![i] = r]
  BY DEF PackageIInv, Change
<1>2. pkg' \in Seq(Rule) /\ DOMAIN pkg' = DOMAIN pkg
  BY <1>1, ExceptSeq
<1>3. \A j \in DOMAIN pkg' : pkg'[j].id = pkg[j].id
  BY <1>1
<1>4. UniqueIds(pkg') /\ OlderThan(pkg', nextId)
  BY <1>2, <1>3 DEF PackageIInv, UniqueIds, OlderThan
<1>5. QED
  BY <1>2, <1>4

Moved(p, i, b) == Inserted(Without(p, i), b, p[i])

LEMMA MovedUp ==
    ASSUME NEW p \in Seq(Rule), NEW i \in DOMAIN p, NEW b \in DOMAIN p, b < i
    PROVE  /\ Moved(p, i, b) \in Seq(Rule)
           /\ Len(Moved(p, i, b)) = Len(p)
           /\ \A j \in 1..Len(p) : Moved(p, i, b)[j] =
                 p[IF j < b THEN j ELSE IF j = b THEN i ELSE IF j <= i THEN j - 1 ELSE j]
<1> DEFINE q == Without(p, i)
<1>0. i \in 1..Len(p) /\ b \in 1..Len(p) /\ Len(p) \in Nat /\ p[i] \in Rule
  BY ElementOfSeq
<1>1. /\ q \in Seq(Rule) /\ Len(q) = Len(p) - 1
      /\ \A j \in 1..Len(p) - 1 : q[j] = IF j < i THEN p[j] ELSE p[j + 1]
  BY WithoutOne
<1>2. Moved(p, i, b) = Inserted(q, b, p[i])
  BY DEF Moved
<1> HIDE DEF q
<1>3. b \in 1..Len(q) + 1 /\ Len(q) + 1 = Len(p)
  BY <1>0, <1>1
<1>4. /\ Moved(p, i, b) \in Seq(Rule)
      /\ Len(Moved(p, i, b)) = Len(p)
      /\ \A j \in 1..Len(p) : Moved(p, i, b)[j] =
            IF j < b THEN q[j] ELSE IF j = b THEN p[i] ELSE q[j - 1]
  <2>1. /\ Inserted(q, b, p[i]) \in Seq(Rule)
        /\ Len(Inserted(q, b, p[i])) = Len(q) + 1
        /\ \A j \in 1..Len(q) + 1 : Inserted(q, b, p[i])[j] = InsertedAt(q, b, p[i], j)
    <3>1. q \in Seq(Rule) /\ b \in 1..Len(q) + 1 /\ p[i] \in Rule
      BY <1>0, <1>1, <1>3
    <3>2. QED
      BY <3>1, InsertedOne, Zenon
  <2>2. QED
    BY <1>2, <1>3, <2>1 DEF InsertedAt
<1>5. ASSUME NEW j \in 1..Len(p)
      PROVE  Moved(p, i, b)[j] = p[IF j < b THEN j ELSE IF j = b THEN i ELSE IF j <= i THEN j - 1 ELSE j]
  <2>0. Moved(p, i, b)[j] = IF j < b THEN q[j] ELSE IF j = b THEN p[i] ELSE q[j - 1]
    BY <1>4
  <2>1. CASE j < b
    <3>1. Moved(p, i, b)[j] = q[j]
      BY <2>0, <2>1
    <3>2. j \in 1..Len(p) - 1 /\ j < i
      BY <1>0, <2>1
    <3>3. q[j] = p[j]
      BY <1>1, <3>2
    <3>4. QED
      BY <2>1, <3>1, <3>3
  <2>2. CASE j = b
    BY <1>0, <2>0, <2>2
  <2>3. CASE b < j
    <3>1. Moved(p, i, b)[j] = q[j - 1]
      BY <1>0, <2>0, <2>3
    <3>2. q[j - 1] = IF j - 1 < i THEN p[j - 1] ELSE p[j - 1 + 1]
      BY <1>0, <1>1, <2>3
    <3>3. (j - 1 < i <=> j <= i) /\ j - 1 + 1 = j
      BY <1>0
    <3>4. QED
      BY <1>0, <2>3, <3>1, <3>2, <3>3
  <2>4. QED
    BY <1>0, <2>1, <2>2, <2>3
<1>6. QED
  BY <1>4, <1>5

-----------------------------------------------------------------------------
(* Single rules                                                            *)

LEMMA TagKeeps ==
    ASSUME NEW r \in Rule, NEW exempt \in BOOLEAN, today \in 0..MaxDay
    PROVE  /\ _append_tag(r, exempt) \in Rule
           /\ \A x \in {"id", "status", "block", "ident", "intf", "action", "on", "schedule", "negated"} : _append_tag(r, exempt)[x] = r[x]
<1> DEFINE n == IF Len(r.tags) < TagRoom THEN Len(r.tags) ELSE TagRoom - 1
           tags == Append(SubSeq(r.tags, 1, n), [day |-> today, exempt |-> exempt])
<1>1. r.tags \in Seq(Tag) /\ Len(r.tags) \in Nat
  BY LenProperties DEF Rule
<1>2. n \in Int /\ n <= Len(r.tags)
  BY <1>1, HygieneAssumption
<1>3. \A i \in 1..n : r.tags[i] \in Tag
  BY <1>1, <1>2, ElementOfSeq
<1> HIDE DEF n
<1>4. SubSeq(r.tags, 1, n) \in Seq(Tag)
  BY <1>2, <1>3, SubSeqProperties
<1>5. [day |-> today, exempt |-> exempt] \in Tag
  BY DEF Tag
<1>6. tags \in Seq(Tag)
  BY <1>4, <1>5, AppendProperties
<1>7. _append_tag(r, exempt) = [r EXCEPT !.tags = tags]
  BY DEF _append_tag, n
<1> HIDE DEF tags
<1>8. QED
  BY <1>6, <1>7 DEF Rule

LEMMA DisabledKeeps ==
    ASSUME NEW r \in Rule, today \in 0..MaxDay
    PROVE  /\ Disabled(r) \in Rule /\ Disabled(r).status = "disable"
           /\ \A x \in {"id", "block", "ident", "intf", "action", "on", "schedule", "negated"} : Disabled(r)[x] = r[x]
<1>1. _append_tag(r, FALSE) \in Rule
  BY TagKeeps
<1>2. Disabled(r) = [_append_tag(r, FALSE) EXCEPT !.status = "disable"]
  BY DEF Disabled
<1>3. /\ Disabled(r) \in Rule /\ Disabled(r).status = "disable"
      /\ \A x \in {"id", "block", "ident", "intf", "action", "on", "schedule", "negated"} : Disabled(r)[x] = _append_tag(r, FALSE)[x]
  BY <1>1, <1>2 DEF Rule
<1>4. \A x \in {"id", "status", "block", "ident", "intf", "action", "on", "schedule", "negated"} : _append_tag(r, FALSE)[x] = r[x]
  BY TagKeeps
<1>5. QED
  BY <1>3, <1>4

LEMMA RewritesKeep ==
    ASSUME NEW r \in Rule, today \in 0..MaxDay, NEW f, NEW x \in Rewrites(f, r)
    PROVE  x \in Rule /\ x.id = r.id
<1>1. x \in {[r EXCEPT !.log = "all"], [_append_tag(r, FALSE) EXCEPT !.named = TRUE], Disabled(r),
             _append_tag(r, FALSE), _append_tag(r, TRUE)}
  BY DEF Rewrites
<1>2. _append_tag(r, FALSE) \in Rule /\ _append_tag(r, FALSE).id = r.id
  BY TagKeeps
<1>3. _append_tag(r, TRUE) \in Rule /\ _append_tag(r, TRUE).id = r.id
  BY TagKeeps
<1>4. [r EXCEPT !.log = "all"] \in Rule /\ [r EXCEPT !.log = "all"].id = r.id
  BY DEF Rule
<1>5. [_append_tag(r, FALSE) EXCEPT !.named = TRUE] \in Rule /\ [_append_tag(r, FALSE) EXCEPT !.named = TRUE].id = r.id
  BY <1>2 DEF Rule
<1>6. Disabled(r) \in Rule /\ Disabled(r).id = r.id
  BY DisabledKeeps
<1>7. QED
  BY <1>1, <1>2, <1>3, <1>4, <1>5, <1>6

(* What a finding keeps of the rules.                                      *)
LEMMA NarrowedKeeps ==
    ASSUME NEW a \in Rule, NEW b \in Rule
    PROVE  Narrowed(a, b) \subseteq Dim \X SUBSET (Object \cup Dangling)
<1>1. \A d \in Dim : a.on[d] \in SUBSET (Object \cup Dangling)
  BY DEF Rule
<1>2. \A d \in _diff_dims(a, b) : d \in Dim
  BY DEF _diff_dims
<1>3. QED
  BY <1>1, <1>2 DEF Narrowed

(* The rule a finding of the two scope checks is about, and the earlier    *)
(* rule it is reported against.                                            *)
Pairs(p, known, i, j) ==
    i \in Enabled(p) /\ j \in Enabled(p) /\ i < j /\ CoversScope(p[i], p[j], known)

LEMMA FirstIsThere ==
    ASSUME NEW S \in SUBSET Nat, FirstAbove(S) # NoRule
    PROVE  FirstAbove(S) \in S
<1>1. S # {}
  BY DEF FirstAbove
<1>2. PICK m \in S : \A k \in S : ~(<<k, m>> \in OpToRel(<, Nat))
  BY <1>1, WFMin, NatLessThanWellFounded, Zenon
<1>3. \A k \in S : ~(k < m)
  BY <1>2, Zenon DEF OpToRel
<1>4. \E i \in S : \A k \in S : i <= k
  BY <1>3
<1>5. QED
  BY <1>1, <1>4 DEF FirstAbove

(* The finding stands for such a pair of rules.                            *)
LEMMA FindingsArePairs ==
    ASSUME NEW p \in Seq(Rule), NEW known, NEW f \in check_shadow(p, known) \cup check_redundant_rules(p, known)
    PROVE  \E i, j \in DOMAIN p : /\ Pairs(p, known, i, j)
                                  /\ f.id = p[j].id /\ f.by = p[i].id
                                  /\ f.narrow \subseteq Dim \X SUBSET (Object \cup Dangling)
<1>0. DOMAIN p = 1..Len(p) /\ Enabled(p) \subseteq DOMAIN p /\ \A j \in DOMAIN p : p[j] \in Rule
  BY ElementOfSeq, LenProperties DEF Enabled, Regular
<1>a. ASSUME NEW j \in Enabled(p), NEW S \in SUBSET Earlier(p, j), FirstAbove(S) # NoRule
      PROVE  FirstAbove(S) \in S
  <2>1. S \in SUBSET Nat
    BY <1>0 DEF Earlier
  <2>2. QED
    BY <1>a, <2>1, FirstIsThere
<1>1. CASE f \in check_shadow(p, known)
  <2>1. PICK j \in Enabled(p) : /\ Shadowing(p, j, known) # NoRule
                                /\ f = ShadowFinding(p[Shadowing(p, j, known)], p[j])
    BY <1>1 DEF check_shadow
  <2> DEFINE i == Shadowing(p, j, known)
  <2>2. i \in {x \in Earlier(p, j) : CoversScope(p[x], p[j], known)}
    BY <1>a, <2>1 DEF Shadowing
  <2>3. i \in Enabled(p) /\ i < j /\ CoversScope(p[i], p[j], known)
    BY <2>2 DEF Earlier
  <2> HIDE DEF i
  <2>4. f.id = p[j].id /\ f.by = p[i].id /\ f.narrow = Narrowed(p[i], p[j])
    BY <2>1 DEF ShadowFinding, Finding, i
  <2>5. p[i] \in Rule /\ p[j] \in Rule
    BY <1>0, <2>3
  <2>6. QED
    BY <1>0, <2>3, <2>4, <2>5, NarrowedKeeps DEF Pairs
<1>2. CASE f \in check_redundant_rules(p, known)
  <2>1. PICK j \in Enabled(p) : /\ Duplicate(p, j, known) # NoRule
                                /\ f = Finding(p[j], "redundant", p[Duplicate(p, j, known)].id)
    BY <1>2 DEF check_redundant_rules
  <2> DEFINE i == Duplicate(p, j, known)
  <2>2. i \in {x \in Earlier(p, j) : /\ p[x].action = p[j].action
                                     /\ CoversScope(p[x], p[j], known) /\ CoversScope(p[j], p[x], known)}
    BY <1>a, <2>1 DEF Duplicate
  <2>3. i \in Enabled(p) /\ i < j /\ CoversScope(p[i], p[j], known)
    BY <2>2 DEF Earlier
  <2> HIDE DEF i
  <2>4. f.id = p[j].id /\ f.by = p[i].id /\ f.narrow = {}
    BY <2>1 DEF Finding, i
  <2>5. QED
    BY <1>0, <2>3, <2>4 DEF Pairs
<1>3. QED
  BY <1>1, <1>2

(* A packet in the view of the checks that matches the later rule of a     *)
(* pair matches the earlier one.                                           *)
LEMMA PairHides ==
    ASSUME NEW p \in Seq(Rule), NEW known, NEW i \in DOMAIN p, NEW j \in DOMAIN p, Pairs(p, known, i, j),
           NEW k \in Packet, InView(p[i], p[j], k)
    PROVE  ~FirstMatch(p, k, j)
<1>1. p[i] \in Rule /\ p[j] \in Rule
  BY ElementOfSeq, LenProperties
<1>2. ~p[i].block /\ p[i].status # "disable" /\ i < j /\ CoversScope(p[i], p[j], known)
  BY DEF Pairs, Enabled, Regular, _status
<1>3. p[i].status = "enable"
  BY <1>1, <1>2 DEF Rule
<1>4. Matches(p[j], k) => Matches(p[i], k)
  BY <1>1, <1>2, <1>3, ScopeIsSound
<1>5. QED
  BY <1>2, <1>4 DEF FirstMatch

LEMMA RunNarrows ==
    ASSUME NEW p \in Seq(Rule), NEW known, NEW f \in run_checks(p, known)
    PROVE  /\ f.narrow \subseteq Dim \X SUBSET (Object \cup Dangling)
           /\ DisablesScope(f) => f \in check_shadow(p, known) \cup check_redundant_rules(p, known)
<1>1. \/ f \in check_shadow(p, known) \cup check_redundant_rules(p, known)
      \/ f \in UNION {check_unnamed(p), check_unlogged(p), check_disabled(p),
                      check_expired(p), check_unhit(p), check_security_profile_gap(p),
                      check_over_permissive(p), check_broken_refs(p)}
  BY DEF run_checks
<1>2. CASE f \in check_shadow(p, known) \cup check_redundant_rules(p, known)
  BY <1>2, FindingsArePairs
<1>3. CASE f \in UNION {check_unnamed(p), check_unlogged(p), check_disabled(p),
                        check_expired(p), check_unhit(p), check_security_profile_gap(p),
                        check_over_permissive(p), check_broken_refs(p)}
  <2>1. ASSUME NEW rules, NEW c, f \in Flag(rules, c)
        PROVE  f.narrow = {} /\ f.check = c
    <3>1. PICK r \in rules : f = Finding(r, c, NoRule)
      BY <2>1 DEF Flag
    <3>2. QED
      BY <3>1 DEF Finding
  <2>2. CASE f \in check_unnamed(p) \/ f \in check_unlogged(p) \/ f \in check_disabled(p) \/ f \in check_expired(p)
    <3>1. f.narrow = {} /\ f.check \in {"unnamed", "unlogged", "disabled", "expired"}
      BY <2>1, <2>2 DEF check_unnamed, check_unlogged, check_disabled, check_expired
    <3>2. QED
      BY <3>1 DEF DisablesScope
  <2>3. CASE f \in check_unhit(p) \/ f \in check_security_profile_gap(p) \/ f \in check_over_permissive(p) \/ f \in check_broken_refs(p)
    <3>1. f.narrow = {} /\ f.check \in {"unhit", "missing_security_profile", "over_permissive", "broken_refs"}
      BY <2>1, <2>3 DEF check_unhit, check_security_profile_gap, check_over_permissive, check_broken_refs
    <3>2. QED
      BY <3>1 DEF DisablesScope
  <2>4. QED
    BY <1>3, <2>2, <2>3
<1>4. QED
  BY <1>1, <1>2, <1>3

-----------------------------------------------------------------------------
(* The steps of the package                                                *)

LEMMA PackageInit == HygieneInit => PackageIInv
<1> SUFFICES ASSUME HygieneInit PROVE PackageIInv
  OBVIOUS
<1>1. pkg \in Seq(Rule) /\ DOMAIN pkg = {}
  BY DEF HygieneInit
<1>2. today = 0 /\ nextId = 1 /\ edited = FALSE /\ report = {}
  BY DEF HygieneInit
<1>3. today \in 0..MaxDay /\ nextId \in Nat
  BY <1>2, HygieneAssumption
<1>4. QED
  BY <1>1, <1>2, <1>3 DEF PackageIInv, UniqueIds, OlderThan, Narrowings

LEMMA PackageStep == PackageIInv /\ [HygieneNext]_hygieneVars => PackageIInv'
<1> SUFFICES ASSUME PackageIInv, [HygieneNext]_hygieneVars
             PROVE  PackageIInv'
  OBVIOUS
<1>0. /\ pkg \in Seq(Rule) /\ today \in 0..MaxDay /\ nextId \in Nat /\ edited \in BOOLEAN
      /\ UniqueIds(pkg) /\ OlderThan(pkg, nextId) /\ Narrowings
      /\ Len(pkg) \in Nat /\ DOMAIN pkg = 1..Len(pkg)
      /\ \A i \in DOMAIN pkg : pkg[i] \in Rule
  BY ElementOfSeq, LenProperties DEF PackageIInv
<1>a. ASSUME pkg' \in Seq(Rule), UniqueIds(pkg'), OlderThan(pkg', nextId), edited' \in BOOLEAN,
             UNCHANGED <<today, nextId, report>>
      PROVE  PackageIInv'
  BY <1>0, <1>a DEF PackageIInv, Narrowings
<1>1. ASSUME NEW shape \in Shape, AddRule(shape)
      PROVE  PackageIInv'
  <2> DEFINE r == [shape EXCEPT !.id = nextId]
  <2>1. r \in Rule /\ r.id = nextId
    BY <1>0, HygieneAssumption DEF Rule
  <2>2. pkg' = Append(pkg, r) /\ nextId' = nextId + 1 /\ edited' = TRUE /\ UNCHANGED <<today, report>>
    BY <1>1 DEF AddRule, Admin
  <2> HIDE DEF r
  <2>3. /\ pkg' \in Seq(Rule) /\ Len(pkg') = Len(pkg) + 1
        /\ \A i \in 1..Len(pkg) : pkg'[i] = pkg[i]
        /\ pkg'[Len(pkg) + 1] = r
    BY <1>0, <2>1, <2>2, AppendProperties
  <2>4. DOMAIN pkg' = 1..Len(pkg) + 1
    BY <2>3, LenProperties
  <2>5. \A i \in 1..Len(pkg) : pkg'[i].id = pkg[i].id /\ pkg[i].id < nextId /\ pkg[i].id \in Nat
    BY <1>0, <2>3 DEF OlderThan, Rule
  <2>6. OlderThan(pkg', nextId')
    BY <1>0, <2>1, <2>2, <2>3, <2>4, <2>5 DEF OlderThan
  <2>7. UniqueIds(pkg')
    <3> SUFFICES ASSUME NEW i \in 1..Len(pkg) + 1, NEW j \in 1..Len(pkg) + 1, pkg'[i].id = pkg'[j].id
                 PROVE  i = j
      BY <2>4 DEF UniqueIds
    <3>1. CASE i \in 1..Len(pkg) /\ j \in 1..Len(pkg)
      BY <1>0, <2>5, <3>1 DEF UniqueIds
    <3>2. CASE i = Len(pkg) + 1 \/ j = Len(pkg) + 1
      BY <1>0, <2>1, <2>3, <2>5, <3>2
    <3>3. QED
      BY <1>0, <3>1, <3>2
  <2>8. QED
    BY <1>0, <2>2, <2>3, <2>6, <2>7 DEF PackageIInv, Narrowings
<1>2. ASSUME NEW i \in DOMAIN pkg, Toggle(i)
      PROVE  PackageIInv'
  <2> DEFINE r == [pkg[i] EXCEPT !.status = IF @ = "enable" THEN "disable" ELSE "enable"]
  <2>1. r \in Rule /\ r.id = pkg[i].id
    BY <1>0 DEF Rule
  <2>2. Change(i, r) /\ edited' = TRUE /\ UNCHANGED <<today, nextId, report>>
    BY <1>0, <1>2 DEF Toggle, Change, Admin
  <2> HIDE DEF r
  <2>3. QED
    BY <1>a, <2>1, <2>2, Replaced
<1>3. CASE NextDay
  BY <1>0, <1>3, HygieneAssumption DEF NextDay, PackageIInv, Narrowings
<1>4. ASSUME NEW known \in BOOLEAN, hygiene_run(known)
      PROVE  PackageIInv'
  <2>1. Narrowings'
    BY <1>0, <1>4, RunNarrows DEF hygiene_run, Narrowings
  <2>2. QED
    BY <1>0, <1>4, <2>1 DEF hygiene_run, PackageIInv
<1>5. ASSUME NEW f \in report, ApplyRewrite(f)
      PROVE  PackageIInv'
  <2>1. PICK r \in Rewrites(f, pkg[PlaceOf(f.id)]) : Change(PlaceOf(f.id), r)
    BY <1>5 DEF ApplyRewrite
  <2>2. PlaceOf(f.id) \in DOMAIN pkg
    BY <1>5, Placed DEF ApplyRewrite
  <2>3. r \in Rule /\ r.id = pkg[PlaceOf(f.id)].id
    BY <1>0, <2>1, <2>2, RewritesKeep
  <2>4. edited' \in BOOLEAN /\ UNCHANGED <<today, nextId, report>>
    BY <1>5 DEF ApplyRewrite
  <2>5. QED
    BY <1>a, <2>1, <2>2, <2>3, <2>4, Replaced
<1>6. ASSUME NEW f \in report, ApplyNarrow(f)
      PROVE  PackageIInv'
  <2> DEFINE a == pkg[PlaceOf(f.by)]
  <2>1. PICK n \in f.narrow : Change(PlaceOf(f.by), [a EXCEPT !.on[n[1]] = n[2]])
    BY <1>6 DEF ApplyNarrow
  <2>2. PlaceOf(f.by) \in DOMAIN pkg
    BY <1>6, Placed DEF ApplyNarrow
  <2>3. n[1] \in Dim /\ n[2] \in SUBSET (Object \cup Dangling)
    BY <1>0, <1>6, <2>1 DEF Narrowings
  <2>4. [a EXCEPT !.on[n[1]] = n[2]] \in Rule /\ [a EXCEPT !.on[n[1]] = n[2]].id = a.id
    <3>1. a \in Rule
      BY <1>0, <2>2
    <3> HIDE DEF a
    <3>2. QED
      BY <2>3, <3>1 DEF Rule
  <2>5. edited' \in BOOLEAN /\ UNCHANGED <<today, nextId, report>>
    BY <1>6 DEF ApplyNarrow
  <2>6. QED
    BY <1>a, <2>1, <2>2, <2>4, <2>5, Replaced
<1>7. ASSUME NEW f \in report, ApplyDelete(f)
      PROVE  PackageIInv'
  <2> DEFINE i == PlaceOf(f.id)
             at == [j \in 1..Len(pkg) - 1 |-> IF j < i THEN j ELSE j + 1]
  <2>1. i \in DOMAIN pkg /\ pkg' = Without(pkg, i) /\ edited' = TRUE /\ UNCHANGED <<today, nextId, report>>
    BY <1>7, Placed DEF ApplyDelete
  <2> HIDE DEF i
  <2>2. /\ pkg' \in Seq(Rule) /\ Len(pkg') = Len(pkg) - 1
        /\ \A j \in 1..Len(pkg) - 1 : pkg'[j] = IF j < i THEN pkg[j] ELSE pkg[j + 1]
    BY <1>0, <2>1, WithoutOne
  <2>3. DOMAIN pkg' = 1..Len(pkg) - 1
    BY <2>2, LenProperties
  <2>4. \A j \in 1..Len(pkg) - 1 : at[j] \in DOMAIN pkg /\ pkg'[j] = pkg[at[j]]
    BY <1>0, <2>1, <2>2
  <2>5. \A j, k \in 1..Len(pkg) - 1 : at[j] = at[k] => j = k
    BY <1>0, <2>1
  <2>6. at \in [DOMAIN pkg' -> DOMAIN pkg]
    BY <2>3, <2>4
  <2> HIDE DEF at
  <2>a. /\ \A j \in DOMAIN pkg' : pkg'[j].id = pkg[at[j]].id
        /\ \A j, k \in DOMAIN pkg' : at[j] = at[k] => j = k
    BY <2>3, <2>4, <2>5
  <2>7. UniqueIds(pkg') /\ OlderThan(pkg', nextId)
    BY <1>0, <2>2, <2>6, <2>a, Rearranged
  <2>8. QED
    BY <1>a, <2>1, <2>2, <2>7
<1>8. ASSUME NEW f \in report, ApplyReorder(f)
      PROVE  PackageIInv'
  <2> DEFINE i  == PlaceOf(f.id)
             b  == PlaceOf(f.by)
             at == [j \in 1..Len(pkg) |-> IF j < b THEN j ELSE IF j = b THEN i ELSE IF j <= i THEN j - 1 ELSE j]
  <2>1. /\ i \in DOMAIN pkg /\ b \in DOMAIN pkg /\ b < i
        /\ pkg' = Moved(pkg, i, b) /\ edited' = TRUE /\ UNCHANGED <<today, nextId, report>>
    BY <1>8, Placed DEF ApplyReorder, Moved, Inserted
  <2> HIDE DEF i, b
  <2>2. /\ pkg' \in Seq(Rule) /\ Len(pkg') = Len(pkg)
        /\ \A j \in 1..Len(pkg) : pkg'[j] =
              pkg[IF j < b THEN j ELSE IF j = b THEN i ELSE IF j <= i THEN j - 1 ELSE j]
    BY <1>0, <2>1, MovedUp
  <2>3. DOMAIN pkg' = 1..Len(pkg)
    BY <2>2, LenProperties
  <2>4. \A j \in 1..Len(pkg) : at[j] \in DOMAIN pkg /\ pkg'[j] = pkg[at[j]]
    BY <1>0, <2>1, <2>2
  <2>5. \A j, k \in 1..Len(pkg) : at[j] = at[k] => j = k
    BY <1>0, <2>1
  <2>6. at \in [DOMAIN pkg' -> DOMAIN pkg]
    BY <2>3, <2>4
  <2> HIDE DEF at
  <2>a. /\ \A j \in DOMAIN pkg' : pkg'[j].id = pkg[at[j]].id
        /\ \A j, k \in DOMAIN pkg' : at[j] = at[k] => j = k
    BY <2>3, <2>4, <2>5
  <2>7. UniqueIds(pkg') /\ OlderThan(pkg', nextId)
    BY <1>0, <2>2, <2>6, <2>a, Rearranged
  <2>8. QED
    BY <1>a, <2>1, <2>2, <2>7
<1>9. CASE UNCHANGED hygieneVars
  BY <1>0, <1>9 DEF hygieneVars, PackageIInv, Narrowings
<1>10. QED
  BY <1>1, <1>2, <1>3, <1>4, <1>5, <1>6, <1>7, <1>8, <1>9 DEF HygieneNext

(* ShadowedNeverHit, for any rules, objects, networks and users, and for   *)
(* every package that admins and fixes can make, with schedules and        *)
(* negated sides: no packet in the view of the check reaches a rule that   *)
(* is reported as shadowed.                                                *)
THEOREM ShadowedIsNeverHit == HygieneSpec => []ShadowedNeverHit
<1>1. PackageIInv => ShadowedNeverHit
  <2> SUFFICES ASSUME PackageIInv, NEW known, NEW f \in check_shadow(pkg, known), NEW k \in Packet,
                      InViewOf(f, k)
               PROVE  ~FirstMatch(pkg, k, PlaceOf(f.id))
    BY DEF ShadowedNeverHit
  <2>1. pkg \in Seq(Rule) /\ UniqueIds(pkg)
    BY DEF PackageIInv
  <2>2. PICK i \in DOMAIN pkg, j \in DOMAIN pkg : Pairs(pkg, known, i, j) /\ f.id = pkg[j].id /\ f.by = pkg[i].id
    BY <2>1, FindingsArePairs
  <2>3. PlaceOf(f.id) = j /\ PlaceOf(f.by) = i
    BY <2>1, <2>2, PlaceIsUnique
  <2>4. QED
    BY <2>1, <2>2, <2>3, PairHides DEF InViewOf
<1>2. QED
  BY <1>1, PackageInit, PackageStep, PTL DEF HygieneSpec

-----------------------------------------------------------------------------
(* The fixes.  While nothing but disabling fixes has changed the package   *)
(* since the run, the rules found by the two scope checks decide nothing:  *)
(* this survives the disabling of one of them, because that changes no     *)
(* decision either.                                                        *)

(* A finding whose rules are still there decides nothing in its view.      *)
DecidesNothing(f) ==
    /\ Live(f.id) /\ Live(f.by)
    /\ \A k \in Packet : InViewOfAll(k) => ~FirstMatch(pkg, k, PlaceOf(f.id))

FoundDecideNothing == ~edited => \A f \in report : DisablesScope(f) => DecidesNothing(f)

LEMMA SamePlaces ==
    ASSUME PackageIInv, PackageIInv', DOMAIN pkg' = DOMAIN pkg, \A i \in DOMAIN pkg : pkg'[i].id = pkg[i].id,
           NEW id, Live(id)
    PROVE  Live(id)' /\ PlaceOf(id)' = PlaceOf(id) /\ PlaceOf(id) \in DOMAIN pkg
<1>0. pkg \in Seq(Rule) /\ UniqueIds(pkg) /\ pkg' \in Seq(Rule) /\ UniqueIds(pkg')
  BY DEF PackageIInv
<1>1. PICK i \in DOMAIN pkg : pkg[i].id = id
  BY DEF Live
<1>2. i \in DOMAIN pkg' /\ pkg'[i].id = id
  BY <1>1
<1>3. PlaceOf(id) = i
  BY <1>0, <1>1, PlaceIsUnique
<1>4. PlaceOf(id)' \in DOMAIN pkg' /\ pkg'[PlaceOf(id)'].id = id
  BY <1>2 DEF PlaceOf
<1>5. PlaceOf(id)' = i
  BY <1>0, <1>2, <1>4 DEF UniqueIds
<1>6. QED
  BY <1>1, <1>2, <1>3, <1>5 DEF Live

LEMMA DisablingKeeps ==
    ASSUME PackageIInv, PackageIInv', FoundDecideNothing, ~edited, NEW f \in report, DisablesScope(f), ApplyRewrite(f)
    PROVE  /\ \A k \in Packet : InViewOfAll(k) => SameDecision(pkg, pkg', k)
           /\ \A k \in Packet : InViewOfAll(k) <=> InViewOfAll(k)'
           /\ DOMAIN pkg' = DOMAIN pkg
           /\ \A i \in DOMAIN pkg : pkg'[i].id = pkg[i].id
<1>0. /\ pkg \in Seq(Rule) /\ today \in 0..MaxDay
      /\ \A i \in DOMAIN pkg : pkg[i] \in Rule
      /\ report' = report
  BY ElementOfSeq, LenProperties DEF PackageIInv, ApplyRewrite
<1> DEFINE j == PlaceOf(f.id)
<1>1. Live(f.id) /\ j \in DOMAIN pkg
  BY Placed DEF ApplyRewrite
<1>2. PICK r \in Rewrites(f, pkg[j]) : pkg' = [pkg EXCEPT ![j] = r]
  BY DEF ApplyRewrite, Change
<1>3. r = Disabled(pkg[j])
  BY <1>2 DEF Rewrites, DisablesScope
<1>a. \A k \in Packet : InViewOfAll(k) => ~FirstMatch(pkg, k, j)
  BY DEF FoundDecideNothing, DecidesNothing
<1> HIDE DEF j
<1>4. /\ r.status = "disable"
      /\ \A x \in {"id", "block", "ident", "intf", "action", "on", "schedule", "negated"} : r[x] = pkg[j][x]
  BY <1>0, <1>1, <1>3, DisabledKeeps
<1>5. /\ DOMAIN pkg' = DOMAIN pkg
      /\ \A i \in DOMAIN pkg : /\ pkg'[i].id = pkg[i].id /\ pkg'[i].intf = pkg[i].intf
                               /\ pkg'[i].schedule = pkg[i].schedule /\ pkg'[i].negated = pkg[i].negated
      /\ \A i \in DOMAIN pkg : i # j => pkg'[i] = pkg[i]
  BY <1>1, <1>2, <1>4
<1>b. \A g \in report : DisablesScope(g) =>
          /\ PlaceOf(g.id)' = PlaceOf(g.id) /\ PlaceOf(g.id) \in DOMAIN pkg
          /\ PlaceOf(g.by)' = PlaceOf(g.by) /\ PlaceOf(g.by) \in DOMAIN pkg
  BY <1>5, SamePlaces DEF FoundDecideNothing, DecidesNothing
<1>6. \A k \in Packet : InViewOfAll(k) <=> InViewOfAll(k)'
  <2>1. \A g \in report, k \in Packet : DisablesScope(g) => (InViewOf(g, k) <=> InViewOf(g, k)')
    BY <1>5, <1>b DEF InViewOf, InView, ActiveAt
  <2>2. QED
    BY <1>0, <2>1 DEF InViewOfAll, DisablesScope
<1>7. ASSUME NEW k \in Packet, InViewOfAll(k), NEW i \in DOMAIN pkg
      PROVE  FirstMatch(pkg, k, i) <=> FirstMatch(pkg', k, i)
  <2>1. ~Matches(pkg'[j], k)
    BY <1>1, <1>2, <1>4 DEF Matches
  <2>2. \A x \in DOMAIN pkg : x # j => (Matches(pkg'[x], k) <=> Matches(pkg[x], k))
    BY <1>5
  <2>3. FirstMatch(pkg, k, i) => FirstMatch(pkg', k, i)
    <3> SUFFICES ASSUME FirstMatch(pkg, k, i) PROVE FirstMatch(pkg', k, i)
      OBVIOUS
    <3>1. i # j
      BY <1>7, <1>a
    <3>2. QED
      BY <1>5, <2>1, <2>2, <3>1 DEF FirstMatch
  <2>4. FirstMatch(pkg', k, i) => FirstMatch(pkg, k, i)
    <3> SUFFICES ASSUME FirstMatch(pkg', k, i) PROVE FirstMatch(pkg, k, i)
      OBVIOUS
    <3>1. i # j /\ Matches(pkg[i], k)
      BY <2>1, <2>2 DEF FirstMatch
    <3>2. ASSUME NEW x \in DOMAIN pkg, x < i, Matches(pkg[x], k)
          PROVE  FALSE
      <4>1. x = j /\ \A y \in DOMAIN pkg : y < i /\ y # j => ~Matches(pkg[y], k)
        BY <1>5, <2>2, <3>2 DEF FirstMatch
      <4>2. x \in Nat /\ i \in Nat /\ \A y \in DOMAIN pkg : y \in Nat
        BY <1>0, LenProperties
      <4>3. FirstMatch(pkg, k, j)
        BY <1>1, <3>2, <4>1, <4>2 DEF FirstMatch
      <4>4. QED
        BY <1>7, <1>a, <4>3
    <3>3. QED
      BY <3>1, <3>2 DEF FirstMatch
  <2>5. QED
    BY <2>3, <2>4
<1>8. \A k \in Packet : InViewOfAll(k) => SameDecision(pkg, pkg', k)
  BY <1>7 DEF SameDecision
<1>9. QED
  BY <1>5, <1>6, <1>8

LEMMA FoundStep ==
    PackageIInv /\ PackageIInv' /\ FoundDecideNothing /\ [HygieneNext]_hygieneVars => FoundDecideNothing'
<1> SUFFICES ASSUME PackageIInv, PackageIInv', FoundDecideNothing, [HygieneNext]_hygieneVars, ~edited',
                    NEW f \in report', DisablesScope(f)
             PROVE  DecidesNothing(f)'
  BY DEF FoundDecideNothing, DisablesScope
<1>0. pkg \in Seq(Rule) /\ UniqueIds(pkg) /\ pkg' \in Seq(Rule) /\ UniqueIds(pkg')
  BY DEF PackageIInv
<1>1. ASSUME NEW g \in report, ApplyRewrite(g)
      PROVE  DecidesNothing(f)'
  <2>1. ~edited /\ DisablesScope(g) /\ report' = report
    BY <1>1 DEF ApplyRewrite
  <2>2. /\ \A k \in Packet : InViewOfAll(k) => SameDecision(pkg, pkg', k)
        /\ \A k \in Packet : InViewOfAll(k) <=> InViewOfAll(k)'
        /\ DOMAIN pkg' = DOMAIN pkg
        /\ \A i \in DOMAIN pkg : pkg'[i].id = pkg[i].id
    BY <1>1, <2>1, DisablingKeeps
  <2>3. DecidesNothing(f)
    BY <2>1 DEF FoundDecideNothing
  <2>4. /\ Live(f.id)' /\ PlaceOf(f.id)' = PlaceOf(f.id) /\ PlaceOf(f.id) \in DOMAIN pkg
        /\ Live(f.by)'
    BY <2>2, <2>3, SamePlaces DEF DecidesNothing
  <2>5. ASSUME NEW k \in Packet, InViewOfAll(k)'
        PROVE  ~FirstMatch(pkg', k, PlaceOf(f.id)')
    BY <2>2, <2>3, <2>4, <2>5 DEF DecidesNothing, SameDecision
  <2>6. QED
    BY <2>4, <2>5 DEF DecidesNothing, FirstMatch
<1>2. ASSUME NEW known \in BOOLEAN, hygiene_run(known)
      PROVE  DecidesNothing(f)'
  <2>1. pkg' = pkg /\ report' = run_checks(pkg, known)
    BY <1>2 DEF hygiene_run
  <2>2. f \in check_shadow(pkg, known) \cup check_redundant_rules(pkg, known)
    BY <1>0, <2>1, RunNarrows
  <2>3. PICK i \in DOMAIN pkg, j \in DOMAIN pkg : Pairs(pkg, known, i, j) /\ f.id = pkg[j].id /\ f.by = pkg[i].id
    BY <1>0, <2>2, FindingsArePairs
  <2>4. \A k \in Packet : InView(pkg[i], pkg[j], k) => ~FirstMatch(pkg, k, j)
    BY <1>0, <2>3, PairHides
  <2>5. Live(f.id) /\ Live(f.by) /\ PlaceOf(f.id) = j /\ PlaceOf(f.by) = i
    BY <1>0, <2>3, PlaceIsUnique DEF Live
  <2>6. Live(f.id)' /\ Live(f.by)' /\ PlaceOf(f.id)' = j /\ PlaceOf(f.by)' = i
    BY <2>1, <2>5 DEF Live, PlaceOf
  <2>7. ASSUME NEW k \in Packet, InViewOfAll(k)'
        PROVE  ~FirstMatch(pkg', k, PlaceOf(f.id)')
    <3>1. InViewOf(f, k)'
      BY <2>7 DEF InViewOfAll, DisablesScope
    <3>2. InView(pkg'[i], pkg'[j], k)
      BY <2>6, <3>1 DEF InViewOf
    <3>3. QED
      BY <2>1, <2>4, <2>6, <3>2
  <2>8. QED
    BY <2>6, <2>7 DEF DecidesNothing, FirstMatch
<1>3. CASE UNCHANGED <<pkg, report, edited>>
  <2>1. DecidesNothing(f)
    BY <1>3 DEF FoundDecideNothing
  <2>2. Live(f.id)' /\ Live(f.by)' /\ PlaceOf(f.id)' = PlaceOf(f.id)
    BY <1>3, <2>1 DEF DecidesNothing, Live, PlaceOf
  <2>3. ASSUME NEW k \in Packet, InViewOfAll(k)'
        PROVE  InViewOfAll(k)
    <3>1. pkg' = pkg /\ report' = report
      BY <1>3
    <3>2. ASSUME NEW g \in report, DisablesScope(g)
          PROVE  InViewOf(g, k)
      <4>1. InViewOf(g, k)'
        BY <2>3, <3>1, <3>2 DEF InViewOfAll, DisablesScope
      <4>2. PlaceOf(g.id)' = PlaceOf(g.id) /\ PlaceOf(g.by)' = PlaceOf(g.by)
        BY <3>1 DEF PlaceOf
      <4>3. QED
        BY <3>1, <4>1, <4>2 DEF InViewOf
    <3>3. QED
      BY <3>2 DEF InViewOfAll
  <2>4. QED
    BY <1>3, <2>1, <2>2, <2>3 DEF DecidesNothing, FirstMatch
<1>4. QED
  BY <1>1, <1>2, <1>3 DEF HygieneNext, AddRule, Toggle, Admin, NextDay, ApplyDelete, ApplyReorder, ApplyNarrow,
                          hygieneVars

(* FixesKeepDecisions: disabling what a run reported as shadowed or        *)
(* redundant, any of it and in any order, decides no packet otherwise that *)
(* is in the view of these findings, whatever the other rules are.         *)
THEOREM DisablingIsSafe == HygieneSpec => FixesKeepDecisions
<1>1. HygieneInit => FoundDecideNothing
  BY DEF HygieneInit, FoundDecideNothing
<1>2. PackageIInv /\ PackageIInv' /\ FoundDecideNothing /\ [HygieneNext]_hygieneVars =>
         \A f \in report : DisablesScope(f) /\ ApplyRewrite(f) /\ ~edited =>
             \A k \in Packet : InViewOfAll(k) => SameDecision(pkg, pkg', k)
  BY DisablingKeeps
<1>3. QED
  BY <1>1, <1>2, PackageInit, PackageStep, FoundStep, PTL DEF HygieneSpec, FixesKeepDecisions

-----------------------------------------------------------------------------
(* The NAT report.  Groups: what _expand_dst finds.                        *)

Below(names, members) == UNION {members[g] : g \in names \cap NatGroup}

(* level of Level, for one depth and as a function up to a depth.          *)
AreLevels(f, names, members, n) ==
    f = [i \in 0..n |-> IF i = 0 THEN names ELSE Below(f[i - 1], members)]

LEMMA LevelsExist ==
    ASSUME NEW names, NEW members, NEW n \in Nat
    PROVE  \E f : AreLevels(f, names, members, n)
<1> DEFINE Is(f, m) == f = [i \in 0..m |-> IF i = 0 THEN names ELSE Below(f[i - 1], members)]
           Bad == {m \in Nat : ~\E f : Is(f, m)}
<1>1. SUFFICES ASSUME Bad # {} PROVE FALSE
  BY <1>1 DEF AreLevels
<1>2. PICK m \in Bad : \A k \in Bad : ~(<<k, m>> \in OpToRel(<, Nat))
  <2>1. Bad \subseteq Nat
    OBVIOUS
  <2> HIDE DEF Bad
  <2>2. QED
    BY <1>1, <2>1, WFMin, NatLessThanWellFounded, Zenon
<1>3. m \in Nat /\ ~\E f : Is(f, m)
  BY <1>2
<1>4. \A k \in Bad : ~(k < m)
  <2>1. Bad \subseteq Nat
    OBVIOUS
  <2> HIDE DEF Bad
  <2>2. QED
    BY <1>2, <1>3, <2>1, Zenon DEF OpToRel
<1>5. CASE m = 0
  <2>1. Is([i \in 0..0 |-> names], 0)
    BY SMT
  <2>2. QED
    BY <1>3, <1>5, <2>1
<1>6. CASE m > 0
  <2>1. m - 1 \in Nat /\ m - 1 \notin Bad
    BY <1>3, <1>4, <1>6
  <2>2. PICK f : Is(f, m - 1)
    BY <2>1
  <2> DEFINE h == [i \in 0..m |-> IF i = 0 THEN names ELSE Below(f[i - 1], members)]
  <2>3. \A i \in 0..m - 1 : h[i] = f[i]
    BY <1>3, <2>2
  <2>4. ASSUME NEW i \in 0..m, i # 0
        PROVE  Below(h[i - 1], members) = Below(f[i - 1], members)
    <3>1. i - 1 \in 0..m - 1
      BY <1>3, <2>4
    <3>2. h[i - 1] = f[i - 1]
      BY <2>3, <3>1
    <3> HIDE DEF h
    <3>3. QED
      BY <3>2
  <2>5. h = [i \in 0..m |-> IF i = 0 THEN names ELSE Below(h[i - 1], members)]
    BY <2>4
  <2>6. QED
    BY <1>3, <2>5
<1>7. QED
  BY <1>3, <1>5, <1>6

LEMMA Levels ==
    ASSUME NEW names, NEW members
    PROVE  /\ Level(names, members)[0] = names
           /\ \A n \in 0..MaxGroupDepth : n # 0 =>
                 Level(names, members)[n] = Below(Level(names, members)[n - 1], members)
<1> DEFINE f == Level(names, members)
<1>1. AreLevels(f, names, members, MaxGroupDepth)
  <2>1. \E g : AreLevels(g, names, members, MaxGroupDepth)
    <3>1. MaxGroupDepth \in Nat
      BY NatAssumption
    <3>2. QED
      BY <3>1, LevelsExist, Zenon
  <2>2. f = CHOOSE g : AreLevels(g, names, members, MaxGroupDepth)
    BY DEF Level, Below, AreLevels
  <2> HIDE DEF f
  <2>3. QED
    BY <2>1, <2>2
<1> HIDE DEF f
<1>2. 0 \in 0..MaxGroupDepth
  BY NatAssumption
<1>3. f[0] = names /\ \A n \in 0..MaxGroupDepth : n # 0 => f[n] = Below(f[n - 1], members)
  BY <1>1, <1>2 DEF AreLevels
<1>4. QED
  BY <1>3 DEF f

(* No virtual IP is deeper in groups than _expand_dst goes: eight levels.  *)
VipName == SharedVip \cup UNION {DeviceVip[d] : d \in NatDevice}

MemberSets == {InitialMembers[g] : g \in NatGroup} \cup UNION {MemberChoice[g] : g \in NatGroup}

Memberships ==
    {m \in [NatGroup -> MemberSets] :
        \A g \in NatGroup : m[g] \in {InitialMembers[g]} \cup MemberChoice[g]}

LeadsWithin(members, g, name, depth) ==
    \E chain \in UNION {[1..n -> NatGroup] : n \in 1..depth} :
      /\ chain[1] = g /\ name \in members[chain[Len(chain)]]
      /\ \A i \in 1..(Len(chain) - 1) : chain[i + 1] \in members[chain[i]]

ShallowGroups ==
    \A members \in Memberships, g \in NatGroup, name \in VipName :
      Leads(members, g, name) => LeadsWithin(members, g, name, MaxGroupDepth)

(* A chain of groups is inside the levels.                                 *)
LEMMA ChainIsInLevels ==
    ASSUME NEW names, NEW members, NEW n \in 1..MaxGroupDepth, NEW chain \in [1..n -> NatGroup],
           chain[1] \in names,
           \A i \in 1..(n - 1) : chain[i + 1] \in members[chain[i]]
    PROVE  \A i \in 1..n : chain[i] \in Level(names, members)[i - 1]
<1> DEFINE f == Level(names, members)
           Bad == {i \in 1..n : chain[i] \notin f[i - 1]}
<1>0. n \in Nat /\ MaxGroupDepth \in Nat /\ n <= MaxGroupDepth
  BY NatAssumption
<1>1. SUFFICES ASSUME Bad # {} PROVE FALSE
  BY <1>1
<1>2. PICK m \in Bad : \A k \in Bad : ~(k < m)
  <2>1. Bad \subseteq Nat
    BY <1>0
  <2> HIDE DEF Bad
  <2>2. PICK m \in Bad : \A k \in Bad : ~(<<k, m>> \in OpToRel(<, Nat))
    BY <1>1, <2>1, WFMin, NatLessThanWellFounded, Zenon
  <2>3. \A k \in Bad : ~(k < m)
    BY <2>1, <2>2, Zenon DEF OpToRel
  <2>4. QED
    BY <2>3
<1>3. m \in 1..n /\ chain[m] \notin f[m - 1]
  BY <1>2
<1>4. CASE m = 1
  <2>1. f[0] = names
    BY Levels
  <2>2. m - 1 = 0
    BY <1>4
  <2> HIDE DEF f
  <2>3. QED
    BY <1>3, <1>4, <2>1, <2>2
<1>5. CASE m # 1
  <2>1. m - 1 \in 1..n /\ m - 1 \in 0..MaxGroupDepth /\ m - 1 # 0 /\ m - 1 \in 1..(n - 1)
    BY <1>0, <1>3, <1>5
  <2>2. chain[m - 1] \in f[m - 1 - 1]
    BY <1>2, <1>3, <2>1
  <2>3. f[m - 1] = Below(f[m - 1 - 1], members)
    BY <2>1, Levels
  <2>4. chain[m - 1 + 1] \in members[chain[m - 1]] /\ chain[m - 1] \in NatGroup
    BY <2>1
  <2>5. m - 1 + 1 = m
    BY <1>0, <1>3
  <2> HIDE DEF f
  <2>6. chain[m] \in Below(f[m - 1 - 1], members)
    BY <2>2, <2>4, <2>5 DEF Below
  <2>7. QED
    BY <1>3, <2>3, <2>6
<1>6. QED
  BY <1>4, <1>5

(* Whatever leads to a virtual IP through few enough groups is expanded.   *)
LEMMA ExpansionFinds ==
    ASSUME NEW names, NEW members, NEW name,
           \E d \in names : d = name \/ (d \in NatGroup /\ LeadsWithin(members, d, name, MaxGroupDepth))
    PROVE  name \in _expand_dst(names, members)
<1>0. MaxGroupDepth \in Nat
  BY NatAssumption
<1>1. CASE name \in names
  <2>1. 0 \in 0..MaxGroupDepth /\ Level(names, members)[0] = names
    BY <1>0, Levels
  <2>2. QED
    BY <1>1, <2>1 DEF _expand_dst
<1>2. CASE \E d \in names : LeadsWithin(members, d, name, MaxGroupDepth)
  <2>1. PICK d \in names : LeadsWithin(members, d, name, MaxGroupDepth)
    BY <1>2
  <2>2. PICK chain \in UNION {[1..n -> NatGroup] : n \in 1..MaxGroupDepth} :
            /\ chain[1] = d /\ name \in members[chain[Len(chain)]]
            /\ \A i \in 1..(Len(chain) - 1) : chain[i + 1] \in members[chain[i]]
    BY <2>1 DEF LeadsWithin
  <2>3. PICK n \in 1..MaxGroupDepth : chain \in [1..n -> NatGroup]
    BY <2>2
  <2>4. n \in Nat /\ n \in 0..MaxGroupDepth /\ n # 0 /\ n \in 1..n
    BY <1>0, <2>3
  <2>5. Len(chain) = n
    BY <2>3, <2>4
  <2>6. \A i \in 1..n : chain[i] \in Level(names, members)[i - 1]
    BY <2>2, <2>3, <2>5, ChainIsInLevels
  <2>7. chain[n] \in Level(names, members)[n - 1] /\ chain[n] \in NatGroup
    BY <2>3, <2>4, <2>6
  <2>8. name \in members[chain[n]]
    BY <2>2, <2>5
  <2>9. name \in Below(Level(names, members)[n - 1], members)
    BY <2>7, <2>8 DEF Below
  <2>10. name \in Level(names, members)[n]
    BY <2>4, <2>9, Levels
  <2>11. QED
    BY <2>4, <2>10 DEF _expand_dst
<1>3. QED
  BY <1>1, <1>2

(* The inductive invariant: while the packages are read, a use that has    *)
(* held since the begin is read already or still ahead of the page.        *)
RunShape ==
    /\ ruleset \in [NatPkg -> Seq(NatRule)]
    /\ grouped \in [NatGroup -> MemberSets]
    /\ collected.phase \in {"idle", "reading", "done"}
    /\ Running => collected \in [phase : {"reading"}, objects : SUBSET AllObjects, todo : SUBSET NatDevice,
                                 state : [NatPkg -> {"reading", "ok", "error"}],
                                 offset : [NatPkg -> Nat], rules : [NatPkg -> SUBSET NatRule]]

GroupsAreChosen == \A g \in NatGroup : grouped[g] \in {InitialMembers[g]} \cup MemberChoice[g]

Ahead(rs, from, r) == \E i \in DOMAIN rs : i > from /\ rs[i] = r

UseIsSeen(u) ==
    \/ u.rule \in collected.rules[u.package]
    \/ /\ collected.state[u.package] = "reading"
       /\ Ahead(ruleset[u.package], collected.offset[u.package], u.rule)

NotMissed ==
    Running => \A u \in steady :
       u.package \notin shifted /\ collected.state[u.package] # "error" => UseIsSeen(u)

NatIInv ==
    /\ RunShape /\ GroupsAreChosen
    /\ steady \subseteq Uses(ruleset, grouped)
    /\ NotMissed
    /\ UsesAreReported

LEMMA UsesAreRules ==
    ASSUME NEW rs, NEW members, NEW u \in Uses(rs, members)
    PROVE  u.package \in NatPkg /\ \E i \in DOMAIN rs[u.package] : rs[u.package][i] = u.rule
<1>1. PICK p \in NatPkg : u \in [object : AllObjects, package : {p}, rule : {rs[p][i] : i \in DOMAIN rs[p]}]
  BY DEF Uses
<1>2. u.package = p /\ u.rule \in {rs[p][i] : i \in DOMAIN rs[p]}
  BY <1>1
<1>3. QED
  BY <1>2

(* An edit leaves the run alone and can only end uses.                     *)
LEMMA EditKeeps ==
    ASSUME NatIInv, NEW rs \in [NatPkg -> Seq(NatRule)], NEW members, Edited(rs, members),
           members \in [NatGroup -> MemberSets],
           \A g \in NatGroup : members[g] \in {InitialMembers[g]} \cup MemberChoice[g],
           shifted \subseteq shifted',
           Running => \A u \in steady :
              /\ u.package \notin shifted' /\ collected.state[u.package] # "error"
              /\ u \in Uses(rs, members) /\ UseIsSeen(u)
              => \/ u.rule \in collected.rules[u.package]
                 \/ /\ collected.state[u.package] = "reading"
                    /\ Ahead(rs[u.package], collected.offset[u.package], u.rule)
    PROVE  NatIInv'
<1>1. /\ ruleset' = rs /\ grouped' = members /\ steady' = steady \cap Uses(rs, members)
      /\ collected' = collected /\ rows' = rows /\ unused' = unused
  BY DEF Edited
<1>2. RunShape' /\ GroupsAreChosen'
  BY <1>1 DEF NatIInv, RunShape, GroupsAreChosen, Running
<1>3. steady' \subseteq Uses(rs, members) /\ steady' \subseteq steady
  BY <1>1
<1>4. (steady \subseteq Uses(ruleset, grouped))'
  BY <1>1, <1>3
<1>5. NotMissed'
  <2>1. SUFFICES ASSUME Running, NEW u \in steady', u.package \notin shifted', collected.state[u.package] # "error"
                 PROVE  UseIsSeen(u)'
    BY <1>1 DEF NotMissed, Running
  <2>2. u \in steady /\ u \in Uses(rs, members) /\ u.package \notin shifted
    BY <1>3, <2>1
  <2>3. UseIsSeen(u)
    BY <2>1, <2>2 DEF NatIInv, NotMissed
  <2>4. QED
    BY <1>1, <2>1, <2>2, <2>3 DEF UseIsSeen
<1>6. UsesAreReported'
  BY <1>1, <1>3 DEF NatIInv, UsesAreReported
<1>7. QED
  BY <1>2, <1>4, <1>5, <1>6 DEF NatIInv

(* A rule that is written moves the others further from the first.         *)
LEMMA WriteKeeps ==
    ASSUME NatIInv, NEW p \in NatPkg, NEW r \in NatRule, NEW i \in 1..(Len(ruleset[p]) + 1), WriteRule(p, i, r)
    PROVE  NatIInv'
<1> DEFINE s  == ruleset[p]
           t  == Sequence!InsertAt(s, i, r)
           rs == [ruleset EXCEPT ![p] = t]
<1>1. ruleset \in [NatPkg -> Seq(NatRule)] /\ s \in Seq(NatRule)
  BY DEF NatIInv, RunShape
<1>2. t = Inserted(s, i, r)
  BY DEF Inserted, Sequence!InsertAt
<1>3. Edited(rs, grouped) /\ shifted' = shifted
  BY DEF WriteRule
<1>4. i \in 1..Len(s) + 1 /\ Len(s) \in Nat
  BY <1>1
<1> HIDE DEF s, t
<1>5. /\ t \in Seq(NatRule) /\ Len(t) = Len(s) + 1
      /\ \A j \in 1..Len(s) + 1 : t[j] = InsertedAt(s, i, r, j)
  <2>1. /\ Inserted(s, i, r) \in Seq(NatRule) /\ Len(Inserted(s, i, r)) = Len(s) + 1
        /\ \A j \in 1..Len(s) + 1 : Inserted(s, i, r)[j] = InsertedAt(s, i, r, j)
    BY <1>1, <1>4, InsertedOne, Zenon
  <2>2. QED
    BY <1>2, <2>1, Zenon
<1>6. rs \in [NatPkg -> Seq(NatRule)] /\ rs[p] = t /\ \A q \in NatPkg : q # p => rs[q] = ruleset[q]
  BY <1>1, <1>5
<1> HIDE DEF rs
<1>7. ASSUME NEW n \in Nat, NEW x, Ahead(s, n, x)
      PROVE  Ahead(t, n, x)
  <2>1. PICK j \in 1..Len(s) : j > n /\ s[j] = x
    BY <1>1, <1>7 DEF Ahead
  <2>2. j \in 1..Len(s) + 1 /\ j + 1 \in 1..Len(s) + 1 /\ DOMAIN t = 1..Len(s) + 1
    BY <1>4, <1>5, <2>1
  <2>3. CASE j < i
    BY <1>5, <2>1, <2>2, <2>3 DEF Ahead, InsertedAt
  <2>4. CASE j >= i
    <3>1. ~(j + 1 < i) /\ j + 1 # i /\ j + 1 - 1 = j /\ j + 1 > n
      BY <1>4, <2>1, <2>4
    <3>2. t[j + 1] = s[j]
      BY <1>5, <2>2, <3>1 DEF InsertedAt
    <3>3. QED
      BY <2>1, <2>2, <3>1, <3>2 DEF Ahead
  <2>5. QED
    BY <1>4, <2>1, <2>3, <2>4
<1>8. ASSUME Running, NEW u \in steady, UseIsSeen(u)
      PROVE  \/ u.rule \in collected.rules[u.package]
             \/ /\ collected.state[u.package] = "reading"
                /\ Ahead(rs[u.package], collected.offset[u.package], u.rule)
  <2>1. u.package \in NatPkg
    BY UsesAreRules DEF NatIInv
  <2>2. collected.offset[u.package] \in Nat
    BY <1>8, <2>1 DEF NatIInv, RunShape
  <2>3. CASE u.package = p
    BY <1>6, <1>7, <1>8, <2>2, <2>3 DEF UseIsSeen, s
  <2>4. CASE u.package # p
    BY <1>6, <1>8, <2>1, <2>4 DEF UseIsSeen
  <2>5. QED
    BY <2>3, <2>4
<1>9. grouped \in [NatGroup -> MemberSets] /\ \A g \in NatGroup : grouped[g] \in {InitialMembers[g]} \cup MemberChoice[g]
  BY DEF NatIInv, RunShape, GroupsAreChosen
<1>10. QED
  BY <1>3, <1>6, <1>8, <1>9, EditKeeps

(* Rules that are deleted or moved: a package that is being read counts as *)
(* shifted, any other has been read or is read from its first rule on.     *)
LEMMA ShiftKeeps ==
    ASSUME NatIInv, NEW p \in NatPkg, NEW t \in Seq(NatRule), Shift(p, t)
    PROVE  NatIInv'
<1> DEFINE rs == [ruleset EXCEPT ![p] = t]
<1>1. ruleset \in [NatPkg -> Seq(NatRule)]
  BY DEF NatIInv, RunShape
<1>2. rs \in [NatPkg -> Seq(NatRule)] /\ rs[p] = t /\ \A q \in NatPkg : q # p => rs[q] = ruleset[q]
  BY <1>1
<1>3. Edited(rs, grouped) /\ shifted \subseteq shifted' /\ (Reading(p) => p \in shifted')
  BY DEF Shift
<1> HIDE DEF rs
<1>4. ASSUME Running, NEW u \in steady, UseIsSeen(u), u \in Uses(rs, grouped), u.package \notin shifted'
      PROVE  \/ u.rule \in collected.rules[u.package]
             \/ /\ collected.state[u.package] = "reading"
                /\ Ahead(rs[u.package], collected.offset[u.package], u.rule)
  <2>1. u.package \in NatPkg /\ \E i \in DOMAIN rs[u.package] : rs[u.package][i] = u.rule
    BY <1>4, UsesAreRules
  <2>2. CASE u.package # p
    BY <1>2, <1>4, <2>1, <2>2 DEF UseIsSeen
  <2>3. CASE u.package = p /\ collected.state[p] = "reading"
    <3>1. collected.offset[p] \in Nat /\ ~(collected.offset[p] > 0)
      BY <1>3, <1>4, <2>3 DEF NatIInv, RunShape, Reading
    <3>2. DOMAIN t = 1..Len(t)
      OBVIOUS
    <3>3. \A i \in DOMAIN t : i > collected.offset[p]
      BY <3>1, <3>2
    <3>4. QED
      BY <1>2, <2>1, <2>3, <3>3 DEF Ahead
  <2>4. CASE u.package = p /\ collected.state[p] # "reading"
    BY <1>4, <2>4 DEF UseIsSeen
  <2>5. QED
    BY <2>2, <2>3, <2>4
<1>5. grouped \in [NatGroup -> MemberSets] /\ \A g \in NatGroup : grouped[g] \in {InitialMembers[g]} \cup MemberChoice[g]
  BY DEF NatIInv, RunShape, GroupsAreChosen
<1>6. QED
  BY <1>2, <1>3, <1>4, <1>5, EditKeeps

LEMMA PageIsFull ==
    ASSUME NEW n \in Nat, NEW k \in Nat \ {0}
    PROVE  Cardinality((n + 1)..(n + k)) = k
<1> DEFINE a == n + 1
           b == n + k
<1>1. a \in Int /\ b \in Int /\ ~(a > b) /\ b - a + 1 = k
  OBVIOUS
<1> HIDE DEF a, b
<1>2. Cardinality(a..b) = IF a > b THEN 0 ELSE b - a + 1
  BY <1>1, FS_Interval
<1>3. Cardinality(a..b) = k
  BY <1>1, <1>2
<1>4. QED
  BY <1>3 DEF a, b

(* A full page is followed by the next one; the rules behind it are still  *)
(* ahead of that.                                                          *)
LEMMA PageKeeps ==
    ASSUME NatIInv, NEW p \in NatPkg, GetPage(p)
    PROVE  NatIInv'
<1> DEFINE s    == ruleset[p]
           n    == collected.offset[p]
           page == DOMAIN s \cap ((n + 1)..(n + PageSize))
           left == IF Cardinality(page) < PageSize THEN "ok" ELSE "reading"
<1>1. /\ Running /\ collected.state[p] = "reading"
      /\ collected' = [collected EXCEPT !.rules[p] = @ \cup {s[i] : i \in page},
                                        !.offset[p] = @ + PageSize, !.state[p] = left]
      /\ UNCHANGED <<ruleset, grouped, edits, rows, unused, steady, shifted>>
  BY DEF GetPage
<1>2. /\ collected \in [phase : {"reading"}, objects : SUBSET AllObjects, todo : SUBSET NatDevice,
                        state : [NatPkg -> {"reading", "ok", "error"}],
                        offset : [NatPkg -> Nat], rules : [NatPkg -> SUBSET NatRule]]
      /\ s \in Seq(NatRule) /\ n \in Nat /\ PageSize \in Nat \ {0}
  BY <1>1, NatAssumption DEF NatIInv, RunShape
<1>3. DOMAIN s = 1..Len(s) /\ Len(s) \in Nat /\ \A i \in DOMAIN s : s[i] \in NatRule
  BY <1>2, ElementOfSeq
<1>4. left = "ok" => Len(s) < n + PageSize
  <2>1. ASSUME n + PageSize <= Len(s)
        PROVE  left = "reading"
    <3>1. page = (n + 1)..(n + PageSize)
      BY <1>2, <1>3, <2>1
    <3>2. Cardinality(page) = PageSize
      BY <1>2, <3>1, PageIsFull
    <3> HIDE DEF page
    <3>3. QED
      BY <1>2, <3>2
  <2>2. QED
    BY <1>2, <1>3, <2>1
<1>5. left \in {"ok", "reading"} /\ {s[i] : i \in page} \subseteq NatRule
  BY <1>3
<1>6. \A i \in DOMAIN s : i > n => i \in page \/ i > n + PageSize
  BY <1>2, <1>3
<1> DEFINE had == {s[i] : i \in page}
<1>7. \A i \in page : s[i] \in had
  OBVIOUS
<1> HIDE DEF left, page, had
<1>a. collected' = [collected EXCEPT !.rules[p] = @ \cup had, !.offset[p] = @ + PageSize, !.state[p] = left]
  BY <1>1 DEF had
<1>b. had \subseteq NatRule
  BY <1>5 DEF had
<1>8. /\ collected'.phase = "reading" /\ collected'.objects = collected.objects /\ collected'.todo = collected.todo
      /\ collected'.state = [collected.state EXCEPT ![p] = left]
      /\ collected'.offset = [collected.offset EXCEPT ![p] = n + PageSize]
      /\ collected'.rules = [collected.rules EXCEPT ![p] = collected.rules[p] \cup had]
      /\ collected' \in [phase : {"reading"}, objects : SUBSET AllObjects, todo : SUBSET NatDevice,
                        state : [NatPkg -> {"reading", "ok", "error"}],
                        offset : [NatPkg -> Nat], rules : [NatPkg -> SUBSET NatRule]]
  <2>1. collected' = [collected EXCEPT !.rules = [collected.rules EXCEPT ![p] = collected.rules[p] \cup had],
                                       !.offset = [collected.offset EXCEPT ![p] = n + PageSize],
                                       !.state = [collected.state EXCEPT ![p] = left]]
    BY <1>2, <1>a
  <2>2. /\ [collected.rules EXCEPT ![p] = collected.rules[p] \cup had] \in [NatPkg -> SUBSET NatRule]
        /\ [collected.offset EXCEPT ![p] = n + PageSize] \in [NatPkg -> Nat]
        /\ [collected.state EXCEPT ![p] = left] \in [NatPkg -> {"reading", "ok", "error"}]
    BY <1>2, <1>5, <1>b
  <2>3. QED
    BY <1>2, <2>1, <2>2
<1>9. RunShape' /\ GroupsAreChosen'
  BY <1>1, <1>8 DEF NatIInv, RunShape, GroupsAreChosen, Running
<1>9a. (steady \subseteq Uses(ruleset, grouped))'
  BY <1>1, <1>8 DEF NatIInv
<1>10. ASSUME NEW u \in steady, u.package \notin shifted, collected.state'[u.package] # "error"
       PROVE  UseIsSeen(u)'
  <2>1. u.package \in NatPkg
    BY UsesAreRules DEF NatIInv
  <2>2. CASE u.package # p
    <3>1. collected.state[u.package] # "error"
      BY <1>2, <1>8, <1>10, <2>1, <2>2
    <3>2. UseIsSeen(u)
      BY <1>1, <1>10, <3>1 DEF NatIInv, NotMissed
    <3>3. QED
      BY <1>1, <1>2, <1>8, <2>1, <2>2, <3>2 DEF UseIsSeen
  <2>3. CASE u.package = p
    <3>1. UseIsSeen(u)
      BY <1>1, <1>10, <2>3 DEF NatIInv, NotMissed
    <3>2. CASE u.rule \in collected.rules[p]
      BY <1>2, <1>8, <2>3, <3>2 DEF UseIsSeen
    <3>3. CASE Ahead(s, n, u.rule)
      <4>1. PICK i \in DOMAIN s : i > n /\ s[i] = u.rule
        BY <3>3 DEF Ahead
      <4>2. CASE i \in page
        BY <1>2, <1>7, <1>8, <2>3, <4>1, <4>2 DEF UseIsSeen
      <4>3. CASE i > n + PageSize
        <5>1. left = "reading"
          <6>1. i <= Len(s) /\ i \in Nat
            BY <1>3
          <6>2. ~(Len(s) < n + PageSize)
            BY <1>2, <1>3, <4>3, <6>1
          <6>3. QED
            BY <1>4, <1>5, <6>2
        <5>2. Ahead(s, n + PageSize, u.rule)
          BY <4>1, <4>3 DEF Ahead
        <5>3. QED
          BY <1>1, <1>2, <1>8, <2>3, <5>1, <5>2 DEF UseIsSeen
      <4>4. QED
        BY <1>6, <4>1, <4>2, <4>3
    <3>4. QED
      BY <2>3, <3>1, <3>2, <3>3 DEF UseIsSeen
  <2>4. QED
    BY <2>2, <2>3
<1>11. NotMissed'
  BY <1>1, <1>8, <1>10 DEF NotMissed, Running
<1>12. UsesAreReported'
  BY <1>8 DEF UsesAreReported
<1>13. QED
  BY <1>9, <1>9a, <1>11, <1>12 DEF NatIInv

LEMMA RunStepKeeps ==
    ASSUME NatIInv,
           \/ \E vips, pools \in BOOLEAN : collect_nat_data(vips, pools)
           \/ \E d \in NatDevice, ok \in BOOLEAN : _fetch_device_vips(d, ok)
           \/ \E p \in NatPkg : FailPackage(p)
    PROVE  NatIInv'
<1> DEFINE Runs == [phase : {"reading"}, objects : SUBSET AllObjects, todo : SUBSET NatDevice,
                    state : [NatPkg -> {"reading", "ok", "error"}],
                    offset : [NatPkg -> Nat], rules : [NatPkg -> SUBSET NatRule]]
<1>1. ASSUME NEW vips \in BOOLEAN, NEW pools \in BOOLEAN, collect_nat_data(vips, pools)
      PROVE  NatIInv'
  <2>1. /\ collected' = [phase   |-> "reading",
                         objects |-> get_vip_objects(vips) \cup get_ippool_objects(pools),
                         todo    |-> NatDevice,
                         state   |-> [p \in NatPkg |-> "reading"],
                         offset  |-> [p \in NatPkg |-> 0],
                         rules   |-> [p \in NatPkg |-> {}]]
        /\ steady' = Uses(ruleset, grouped) /\ UNCHANGED <<ruleset, grouped>>
    BY <1>1 DEF collect_nat_data
  <2>2. get_vip_objects(vips) \cup get_ippool_objects(pools) \subseteq AllObjects
    BY DEF get_vip_objects, get_ippool_objects, AllObjects
  <2>3. collected' \in Runs
    BY <2>1, <2>2
  <2>4. RunShape' /\ GroupsAreChosen'
    BY <2>1, <2>3 DEF NatIInv, RunShape, GroupsAreChosen, Running
  <2>4a. (steady \subseteq Uses(ruleset, grouped))'
    BY <2>1, <2>3 DEF NatIInv
  <2>5. ASSUME NEW u \in Uses(ruleset, grouped)
        PROVE  UseIsSeen(u)'
    <3>1. u.package \in NatPkg /\ \E i \in DOMAIN ruleset[u.package] : ruleset[u.package][i] = u.rule
      BY UsesAreRules
    <3>2. PICK i \in DOMAIN ruleset[u.package] : ruleset[u.package][i] = u.rule
      BY <3>1
    <3>3. i > 0
      BY <3>1, <3>2 DEF NatIInv, RunShape
    <3>4. Ahead(ruleset[u.package], 0, u.rule)
      BY <3>2, <3>3 DEF Ahead
    <3>5. QED
      BY <2>1, <3>1, <3>4 DEF UseIsSeen
  <2>6. NotMissed'
    BY <2>1, <2>5 DEF NotMissed
  <2>7. UsesAreReported'
    BY <2>1 DEF UsesAreReported
  <2>8. QED
    BY <2>4, <2>4a, <2>6, <2>7 DEF NatIInv
<1>2. ASSUME NEW d \in NatDevice, NEW ok \in BOOLEAN, _fetch_device_vips(d, ok)
      PROVE  NatIInv'
  <2>1. /\ Running
        /\ collected' = [collected EXCEPT !.todo = @ \ {d}, !.objects = @ \cup get_device_vip_objects(d, ok)]
        /\ UNCHANGED <<ruleset, grouped, steady, shifted>>
    BY <1>2 DEF _fetch_device_vips
  <2>2. collected \in Runs
    BY <2>1 DEF NatIInv, RunShape
  <2>3. get_device_vip_objects(d, ok) \subseteq AllObjects
    BY DEF get_device_vip_objects, AllObjects
  <2>4. /\ collected' \in Runs /\ collected'.phase = "reading" /\ collected'.state = collected.state
        /\ collected'.offset = collected.offset /\ collected'.rules = collected.rules
    BY <2>1, <2>2, <2>3
  <2>5. RunShape' /\ GroupsAreChosen'
    BY <2>1, <2>4 DEF NatIInv, RunShape, GroupsAreChosen, Running
  <2>5a. (steady \subseteq Uses(ruleset, grouped))'
    BY <2>1, <2>4 DEF NatIInv
  <2>6. NotMissed'
    BY <2>1, <2>4 DEF NatIInv, NotMissed, UseIsSeen, Running
  <2>7. UsesAreReported'
    BY <2>4 DEF UsesAreReported
  <2>8. QED
    BY <2>5, <2>5a, <2>6, <2>7 DEF NatIInv
<1>3. ASSUME NEW p \in NatPkg, FailPackage(p)
      PROVE  NatIInv'
  <2>1. /\ Running
        /\ collected' = [collected EXCEPT !.state[p] = "error"]
        /\ UNCHANGED <<ruleset, grouped, steady, shifted>>
    BY <1>3 DEF FailPackage
  <2>2. collected \in Runs
    BY <2>1 DEF NatIInv, RunShape
  <2>3. /\ collected' \in Runs /\ collected'.phase = "reading"
        /\ collected'.state = [collected.state EXCEPT ![p] = "error"]
        /\ collected'.offset = collected.offset /\ collected'.rules = collected.rules
    BY <2>1, <2>2
  <2>4. RunShape' /\ GroupsAreChosen'
    BY <2>1, <2>3 DEF NatIInv, RunShape, GroupsAreChosen, Running
  <2>4a. (steady \subseteq Uses(ruleset, grouped))'
    BY <2>1, <2>3 DEF NatIInv
  <2>5. ASSUME NEW u \in steady, u.package \notin shifted, collected.state'[u.package] # "error"
        PROVE  UseIsSeen(u)'
    <3>1. u.package \in NatPkg
      BY UsesAreRules DEF NatIInv
    <3>2. u.package # p /\ collected.state'[u.package] = collected.state[u.package]
      BY <2>2, <2>3, <2>5, <3>1
    <3>3. UseIsSeen(u)
      BY <2>1, <2>5, <3>2 DEF NatIInv, NotMissed
    <3>4. QED
      BY <2>1, <2>3, <3>2, <3>3 DEF UseIsSeen
  <2>6. NotMissed'
    BY <2>1, <2>5 DEF NotMissed
  <2>7. UsesAreReported'
    BY <2>3 DEF UsesAreReported
  <2>8. QED
    BY <2>4, <2>4a, <2>6, <2>7 DEF NatIInv
<1>4. QED
  BY <1>1, <1>2, <1>3

(* The rows: every use of a package that was read has one.                 *)
LEMMA BuildReports ==
    ASSUME ShallowGroups, NatIInv, NEW groupsRead \in BOOLEAN, Build(groupsRead)
    PROVE  NatIInv'
<1> DEFINE had == [p \in {q \in NatPkg : collected.state[q] = "ok"} |-> collected.rules[p]]
           objs == collected.objects
<1>1. /\ Running
      /\ rows' = build_nat_rows(objs, had, get_address_groups(groupsRead))
      /\ unused' = _summary(objs, rows')
      /\ collected' = [phase |-> "done", objects |-> objs, ok |-> DOMAIN had, groups |-> groupsRead]
      /\ UNCHANGED <<ruleset, grouped, steady, shifted>>
      /\ \A p \in NatPkg : collected.state[p] # "reading"
  BY DEF Build
<1>2. RunShape' /\ GroupsAreChosen' /\ NotMissed'
  BY <1>1 DEF NatIInv, RunShape, GroupsAreChosen, NotMissed, Running
<1>3. (steady \subseteq Uses(ruleset, grouped))'
  BY <1>1 DEF NatIInv
<1>4. ASSUME groupsRead, NEW u \in steady, u.object \in objs, u.package \in DOMAIN had, u.package \notin shifted
      PROVE  u \in rows' /\ u.object \notin unused'
  <2> DEFINE p == u.package
             members == get_address_groups(groupsRead)
  <2>1. members = grouped
    BY <1>4 DEF get_address_groups
  <2>2. PICK q \in NatPkg :
           u \in [object : AllObjects, package : {q}, rule : {ruleset[q][i] : i \in DOMAIN ruleset[q]}]
    BY DEF NatIInv, Uses
  <2>3. \/ /\ u.object.type = "VIP" /\ u.object.device \in {Everywhere} \cup PkgScope[p]
           /\ \E n \in u.rule.dst : n = u.object.name \/ (n \in NatGroup /\ Leads(grouped, n, u.object.name))
        \/ u.object.type = "IP_Pool" /\ u.object.name \in u.rule.pool
    BY DEF NatIInv, Uses
  <2>4. u.object \in AllObjects /\ p \in NatPkg /\ collected.state[p] = "ok" /\ had[p] = collected.rules[p]
    BY <1>4, <2>2
  <2>5. u.rule \in had[p]
    BY <1>1, <1>4, <2>4 DEF NatIInv, NotMissed, UseIsSeen
  <2>6. Hit(u.object, u.rule, members)
    <3>1. CASE u.object.type = "IP_Pool"
      BY <2>3, <3>1 DEF Hit
    <3>2. CASE /\ u.object.type = "VIP"
               /\ \E n \in u.rule.dst : n = u.object.name \/ (n \in NatGroup /\ Leads(grouped, n, u.object.name))
      <4>1. u.object.name \in VipName
        <5>1. CASE \E v \in SharedVip : u.object = Vip(v, Everywhere)
          BY <5>1 DEF VipName, Vip
        <5>2. CASE \E d \in NatDevice : \E v \in DeviceVip[d] : u.object = Vip(v, d)
          BY <5>2 DEF VipName, Vip
        <5>3. CASE \E n \in Pool : u.object = IpPool(n)
          BY <3>2, <5>3 DEF IpPool
        <5>4. QED
          BY <2>4, <5>1, <5>2, <5>3 DEF AllObjects
      <4>2. grouped \in Memberships
        BY DEF NatIInv, RunShape, GroupsAreChosen, Memberships
      <4>3. \A n \in NatGroup : Leads(grouped, n, u.object.name)
                                   => LeadsWithin(grouped, n, u.object.name, MaxGroupDepth)
        BY <4>1, <4>2 DEF ShallowGroups
      <4>4. u.object.name \in _expand_dst(u.rule.dst, grouped)
        BY <3>2, <4>3, ExpansionFinds
      <4>5. QED
        BY <2>1, <3>2, <4>4 DEF Hit
    <3>3. QED
      BY <2>3, <3>1, <3>2
  <2>7. u.object.type = "VIP" => _vip_applies(u.object, p)
    BY <2>3 DEF _vip_applies
  <2> HIDE DEF members
  <2>8. u \in [object : objs, package : {p}, rule : had[p]]
    <3>1. u = [object |-> u.object, package |-> p, rule |-> u.rule]
      BY <2>2
    <3>2. QED
      BY <1>4, <2>5, <3>1
  <2> HIDE DEF had, objs
  <2>9. u \in build_nat_rows(objs, had, members)
    BY <1>4, <2>6, <2>7, <2>8 DEF build_nat_rows
  <2>10. u \in rows'
    BY <1>1, <2>9 DEF members
  <2>11. QED
    BY <1>1, <2>10 DEF _summary
<1>5. UsesAreReported'
  BY <1>1, <1>4 DEF UsesAreReported
<1>6. QED
  BY <1>2, <1>3, <1>5 DEF NatIInv

LEMMA NatInitial == NatInit => NatIInv
<1> SUFFICES ASSUME NatInit PROVE NatIInv
  OBVIOUS
<1>1. collected = [phase |-> "idle"] /\ steady = {} /\ grouped = InitialMembers /\ ruleset = [p \in NatPkg |-> <<>>]
  BY DEF NatInit
<1>2. RunShape /\ GroupsAreChosen
  <2>1. InitialMembers \in [NatGroup -> MemberSets]
    BY NatAssumption DEF MemberSets
  <2>2. QED
    BY <1>1, <2>1 DEF RunShape, GroupsAreChosen, Running
<1>3. QED
  BY <1>1, <1>2 DEF NatIInv, NotMissed, UsesAreReported, Running

LEMMA NatInductive == ShallowGroups /\ NatIInv /\ [NatNext]_natVars => NatIInv'
<1> SUFFICES ASSUME ShallowGroups, NatIInv, [NatNext]_natVars PROVE NatIInv'
  OBVIOUS
<1>0. ruleset \in [NatPkg -> Seq(NatRule)]
  BY DEF NatIInv, RunShape
<1>1. ASSUME NEW p \in NatPkg, NEW i \in DOMAIN ruleset[p], RemoveRule(p, i)
      PROVE  NatIInv'
  <2>1. Sequence!RemoveAt(ruleset[p], i) \in Seq(NatRule)
    <3>1. Sequence!RemoveAt(ruleset[p], i) = Without(ruleset[p], i)
      BY DEF Sequence!RemoveAt, Without
    <3>2. ruleset[p] \in Seq(NatRule)
      BY <1>0
    <3>3. QED
      BY <3>1, <3>2, WithoutOne
  <2>2. QED
    BY <1>1, <2>1, ShiftKeeps DEF RemoveRule
<1>2. ASSUME NEW p \in NatPkg, NEW i \in DOMAIN ruleset[p], NEW j \in DOMAIN ruleset[p], MoveRule(p, i, j)
      PROVE  NatIInv'
  <2> DEFINE s == ruleset[p]
             q == Without(s, i)
             t == Sequence!InsertAt(Sequence!RemoveAt(s, i), j, s[i])
  <2>1. t = Inserted(q, j, s[i])
    BY DEF Sequence!RemoveAt, Sequence!InsertAt, Without, Inserted
  <2>2. s \in Seq(NatRule)
    BY <1>0
  <2>3. s[i] \in NatRule /\ i \in DOMAIN s /\ j \in DOMAIN s
    BY <2>2, ElementOfSeq
  <2>4. Shift(p, t)
    BY <1>2 DEF MoveRule
  <2> HIDE DEF s, t
  <2>5. q \in Seq(NatRule) /\ Len(q) = Len(s) - 1
    BY <2>2, <2>3, WithoutOne
  <2> HIDE DEF q
  <2>6. j \in 1..Len(q) + 1
    BY <2>2, <2>3, <2>5
  <2>7. Inserted(q, j, s[i]) \in Seq(NatRule)
    BY <2>3, <2>5, <2>6, InsertedOne, Zenon
  <2>8. QED
    BY <2>1, <2>4, <2>7, ShiftKeeps
<1>3. ASSUME NEW g \in NatGroup, NEW names \in MemberChoice[g], ChangeGroup(g, names)
      PROVE  NatIInv'
  <2> DEFINE members == [grouped EXCEPT ![g] = names]
  <2>1. Edited(ruleset, members) /\ shifted' = shifted
    BY <1>3 DEF ChangeGroup
  <2>2. /\ members \in [NatGroup -> MemberSets]
        /\ \A h \in NatGroup : members[h] \in {InitialMembers[h]} \cup MemberChoice[h]
    BY DEF NatIInv, RunShape, GroupsAreChosen, MemberSets
  <2> HIDE DEF members
  <2>3. QED
    BY <1>0, <2>1, <2>2, EditKeeps DEF UseIsSeen
<1>4. CASE UNCHANGED natVars
  <2>1. UNCHANGED <<ruleset, grouped, collected, rows, unused, steady, shifted>>
    BY <1>4 DEF natVars
  <2>2. RunShape' /\ GroupsAreChosen' /\ NotMissed' /\ UsesAreReported'
    BY <2>1 DEF NatIInv, RunShape, GroupsAreChosen, NotMissed, UseIsSeen, UsesAreReported, Running
  <2>3. (steady \subseteq Uses(ruleset, grouped))'
    BY <2>1 DEF NatIInv
  <2>4. QED
    BY <2>2, <2>3 DEF NatIInv
<1>5. QED
  BY <1>1, <1>2, <1>3, <1>4, WriteKeeps, PageKeeps, RunStepKeeps, BuildReports DEF NatNext

(* UsesAreReported: a use that holds while the report is made is in it, at *)
(* whatever page the edits fall, for any packages, devices and groups in   *)
(* which no virtual IP is deeper than the eight levels of _expand_dst.     *)
THEOREM UsesAreFound == ShallowGroups => (NatSpec => []UsesAreReported)
<1> SUFFICES ASSUME ShallowGroups PROVE NatSpec => []UsesAreReported
  OBVIOUS
<1>1. NatIInv => UsesAreReported
  BY DEF NatIInv
<1>2. NatIInv /\ [NatNext]_natVars => NatIInv'
  BY NatInductive
<1>3. QED
  BY <1>1, <1>2, NatInitial, PTL DEF NatSpec

-----------------------------------------------------------------------------
(* Device reviews.  A PASS means compliant, and a finding means not.       *)

(* The inductive invariant: what the cache of resolutions and the DNS say  *)
(* of a host has been answered at some time.                               *)
DeviceIInv ==
    /\ check \in CheckKey /\ settings \in SettingsOf[check] /\ expected \in ExpectedOf[check]
    /\ dns \in [Host -> Answers]
    /\ resolved = [h \in Host |-> resolved[h]] /\ answered = [h \in Host |-> answered[h]]
    /\ \A h \in Host : /\ dns[h] \subseteq answered[h]
                       /\ resolved[h] # Unresolved => resolved[h] \subseteq answered[h]
    /\ VerdictsAreRight

(* What VerdictsAreRight says of a verdict the check could give now.       *)
PassIsMeant(v) ==
    v = "PASS" => \/ ~Empty /\ Compliant(SameOnce)
                  \/ Empty /\ check \in TakesUnreadForNone

UpToDate == \A h \in Compared : resolved[h] \in {Unresolved, dns[h]}

FindingIsMeant(v) ==
    v \in {"FAIL", "WARN", "INSECURE"} /\ ~Empty /\ UpToDate => ~Compliant(SameNow)

Meant(v) == PassIsMeant(v) /\ FindingIsMeant(v)

(* Hosts that match have had an address in common, and have one now if     *)
(* what is cached of them is up to date.                                   *)
LEMMA MatchedOnce ==
    ASSUME DeviceIInv, NEW e \in Host, NEW c \in Host, _match_host(e, c)
    PROVE  SameOnce(e, c)
<1>1. _resolve_host(e) \subseteq answered[e] /\ _resolve_host(c) \subseteq answered[c]
  BY DEF DeviceIInv, _resolve_host
<1>2. QED
  BY <1>1 DEF _match_host, SameOnce

LEMMA MatchedNow ==
    ASSUME NEW e, NEW c, resolved[e] \in {Unresolved, dns[e]}, resolved[c] \in {Unresolved, dns[c]}
    PROVE  _match_host(e, c) <=> SameNow(e, c)
BY DEF _match_host, SameNow, _resolve_host

(* Comparing hosts: nothing expected is no verdict on the device.          *)
LEMMA HostsCompared ==
    ASSUME NEW configured
    PROVE  /\ CompareHosts(configured) = "PASS" =>
                expected # {} /\ \A e \in expected : Found(e, configured)
           /\ CompareHosts(configured) \in {"FAIL", "WARN"} => \E e \in expected : ~Found(e, configured)
           /\ CompareHosts(configured) # "INSECURE"
BY DEF CompareHosts

LEMMA NtpIsRight ==
    ASSUME DeviceIInv, check = "ntp_config"
    PROVE  Meant(_run_ntp_config)
<1>1. /\ expected \subseteq Host /\ settings.ntpserver \subseteq Host
  BY DeviceAssumption DEF DeviceIInv
<1>2. PassIsMeant(_run_ntp_config)
  <2> SUFFICES ASSUME _run_ntp_config = "PASS" PROVE ~Empty /\ Compliant(SameOnce)
    BY DEF PassIsMeant
  <2>1. ~Empty /\ settings.ntpsync /\ CompareHosts(settings.ntpserver) = "PASS"
    BY DEF _run_ntp_config
  <2>2. \A e \in expected : \E c \in settings.ntpserver : SameOnce(e, c)
    BY <1>1, <2>1, HostsCompared, MatchedOnce DEF Found
  <2>3. QED
    BY <2>1, <2>2 DEF Compliant
<1>3. FindingIsMeant(_run_ntp_config)
  <2> SUFFICES ASSUME _run_ntp_config \in {"FAIL", "WARN", "INSECURE"}, ~Empty, UpToDate, Compliant(SameNow)
               PROVE  FALSE
    BY DEF FindingIsMeant
  <2>1. settings.ntpsync /\ \A e \in expected : \E c \in settings.ntpserver : SameNow(e, c)
    BY DEF Compliant
  <2>2. CompareHosts(settings.ntpserver) \in {"FAIL", "WARN", "INSECURE"}
    BY <2>1 DEF _run_ntp_config
  <2>3. PICK e \in expected : ~Found(e, settings.ntpserver)
    BY <2>2, HostsCompared
  <2>4. PICK c \in settings.ntpserver : SameNow(e, c)
    BY <2>1
  <2>5. e \in Compared /\ c \in Compared
    BY DEF Compared
  <2>6. _match_host(e, c)
    BY <2>4, <2>5, MatchedNow DEF UpToDate
  <2>7. QED
    BY <2>3, <2>6 DEF Found
<1>4. QED
  BY <1>2, <1>3 DEF Meant

LEMMA SyslogIsRight ==
    ASSUME DeviceIInv, check = "syslog_config"
    PROVE  Meant(_run_syslog_config)
<1> DEFINE servers == IF Empty THEN {} ELSE settings
<1>1. /\ expected \subseteq Host /\ settings \subseteq Host
  BY DeviceAssumption DEF DeviceIInv
<1>2. _run_syslog_config = CompareHosts(servers)
  BY DEF _run_syslog_config
<1>3. PassIsMeant(_run_syslog_config)
  <2> SUFFICES ASSUME _run_syslog_config = "PASS" PROVE ~Empty /\ Compliant(SameOnce)
    BY DEF PassIsMeant
  <2>1. expected # {} /\ \A e \in expected : Found(e, servers)
    BY <1>2, HostsCompared
  <2>2. ~Empty
    BY <2>1 DEF Found
  <2>3. \A e \in expected : \E c \in settings : SameOnce(e, c)
    BY <1>1, <2>1, <2>2, MatchedOnce DEF Found
  <2>4. QED
    BY <2>2, <2>3 DEF Compliant
<1>4. FindingIsMeant(_run_syslog_config)
  <2> SUFFICES ASSUME _run_syslog_config \in {"FAIL", "WARN", "INSECURE"}, ~Empty, UpToDate, Compliant(SameNow)
               PROVE  FALSE
    BY DEF FindingIsMeant
  <2>1. \A e \in expected : \E c \in settings : SameNow(e, c)
    BY DEF Compliant
  <2>2. PICK e \in expected : ~Found(e, servers)
    BY <1>2, HostsCompared
  <2>3. PICK c \in settings : SameNow(e, c)
    BY <2>1
  <2>4. c \in settings \ {Absent}
    BY <1>1, DeviceAssumption
  <2>5. e \in Compared /\ c \in Compared
    BY <2>4 DEF Compared
  <2>6. _match_host(e, c)
    BY <2>3, <2>5, MatchedNow DEF UpToDate
  <2>7. QED
    BY <2>2, <2>6 DEF Found
<1>5. QED
  BY <1>3, <1>4 DEF Meant

LEMMA DnsIsRight ==
    ASSUME DeviceIInv, check = "dns_servers"
    PROVE  Meant(_run_dns)
<1> DEFINE servers == settings \ {Absent}
<1>1. /\ expected \subseteq Host /\ servers \subseteq Host
  BY DeviceAssumption DEF DeviceIInv
<1>2. ~Empty => _run_dns = CompareHosts(servers)
  BY DEF _run_dns
<1>3. PassIsMeant(_run_dns)
  <2> SUFFICES ASSUME _run_dns = "PASS" PROVE ~Empty /\ Compliant(SameOnce)
    BY DEF PassIsMeant
  <2>1. ~Empty
    BY DEF _run_dns
  <2>2. \A e \in expected : Found(e, servers)
    BY <1>2, <2>1, HostsCompared
  <2>3. \A e \in expected : \E c \in servers : SameOnce(e, c)
    BY <1>1, <2>2, MatchedOnce DEF Found
  <2>4. QED
    BY <2>1, <2>3 DEF Compliant
<1>4. FindingIsMeant(_run_dns)
  <2> SUFFICES ASSUME _run_dns \in {"FAIL", "WARN", "INSECURE"}, ~Empty, UpToDate, Compliant(SameNow)
               PROVE  FALSE
    BY DEF FindingIsMeant
  <2>1. \A e \in expected : \E c \in servers : SameNow(e, c)
    BY DEF Compliant
  <2>2. PICK e \in expected : ~Found(e, servers)
    BY <1>2, HostsCompared
  <2>3. PICK c \in servers : SameNow(e, c)
    BY <2>1
  <2>4. e \in Compared /\ c \in Compared
    BY DEF Compared
  <2>5. _match_host(e, c)
    BY <2>3, <2>4, MatchedNow DEF UpToDate
  <2>6. QED
    BY <2>2, <2>5 DEF Found
<1>5. QED
  BY <1>3, <1>4 DEF Meant

LEMMA FazIsRight ==
    ASSUME DeviceIInv, check = "log_faz"
    PROVE  Meant(_run_log_faz)
<1> DEFINE enabled == {slot.server : slot \in {s \in settings : s.status}} \ {Absent}
<1>1. /\ expected \subseteq Host /\ enabled \subseteq Host
  BY DeviceAssumption DEF DeviceIInv
<1>2. PassIsMeant(_run_log_faz)
  <2> SUFFICES ASSUME _run_log_faz = "PASS" PROVE ~Empty /\ Compliant(SameOnce)
    BY DEF PassIsMeant
  <2>1. ~Empty /\ \E e \in expected : Found(e, enabled)
    BY Zenon DEF _run_log_faz
  <2>2. PICK e \in expected, c \in enabled : _match_host(e, c)
    BY <2>1 DEF Found
  <2>3. PICK s \in settings : s.status /\ s.server = c /\ s.server # Absent
    BY <2>2
  <2>4. SameOnce(e, s.server)
    BY <1>1, <2>2, <2>3, MatchedOnce
  <2>5. QED
    BY <2>1, <2>3, <2>4 DEF Compliant
<1>3. FindingIsMeant(_run_log_faz)
  <2> SUFFICES ASSUME _run_log_faz \in {"FAIL", "WARN", "INSECURE"}, ~Empty, UpToDate, Compliant(SameNow)
               PROVE  FALSE
    BY DEF FindingIsMeant
  <2>1. PICK s \in settings : s.status /\ s.server # Absent /\ \E e \in expected : SameNow(e, s.server)
    BY DEF Compliant
  <2>2. PICK e \in expected : SameNow(e, s.server)
    BY <2>1
  <2>3. e \in Compared /\ s.server \in Compared
    BY <2>1 DEF Compared
  <2>4. _match_host(e, s.server)
    BY <2>2, <2>3, MatchedNow DEF UpToDate
  <2>5. s.server \in enabled
    BY <2>1
  <2>6. \E x \in expected : Found(x, enabled)
    BY <2>4, <2>5 DEF Found
  <2>7. _run_log_faz \in {"PASS", "CONFIG_MISSING"}
    BY <2>1, <2>6, Zenon DEF _run_log_faz
  <2>8. QED
    BY <2>7
<1>4. QED
  BY <1>2, <1>3 DEF Meant

LEMMA InterfacesAreRight ==
    ASSUME DeviceIInv, check = "interface_protocols"
    PROVE  Meant(_run_interface_protocols)
<1>1. PassIsMeant(_run_interface_protocols)
  BY DEF PassIsMeant, _run_interface_protocols, Failing, Compliant
<1>2. FindingIsMeant(_run_interface_protocols)
  BY DEF FindingIsMeant, _run_interface_protocols, Failing, Compliant
<1>3. QED
  BY <1>1, <1>2 DEF Meant

LEMMA TrustedHostsAreRight ==
    ASSUME DeviceIInv, check = "trusted_hosts"
    PROVE  Meant(_run_trusted_hosts)
<1>1. \A a \in settings : a.trusthost \subseteq {"restricted", "unrestricted"}
  BY DeviceAssumption DEF DeviceIInv
<1>2. PassIsMeant(_run_trusted_hosts)
  BY <1>1 DEF PassIsMeant, _run_trusted_hosts, Failing, AdminAccounts, TakesUnreadForNone, Compliant
<1>3. FindingIsMeant(_run_trusted_hosts)
  BY <1>1 DEF FindingIsMeant, _run_trusted_hosts, Failing, AdminAccounts, TakesUnreadForNone, Compliant
<1>4. QED
  BY <1>2, <1>3 DEF Meant

LEMMA DefaultAdminIsRight ==
    ASSUME DeviceIInv, check = "default_admin"
    PROVE  Meant(_run_default_admin)
<1>1. PassIsMeant(_run_default_admin)
  BY DEF PassIsMeant, _run_default_admin, Failing, AdminAccounts, TakesUnreadForNone, Compliant
<1>2. FindingIsMeant(_run_default_admin)
  BY DEF FindingIsMeant, _run_default_admin, Failing, AdminAccounts, TakesUnreadForNone, Compliant
<1>3. QED
  BY <1>1, <1>2 DEF Meant

LEMMA MfaIsRight ==
    ASSUME DeviceIInv, check = "admin_mfa"
    PROVE  Meant(_run_admin_mfa)
<1>1. PassIsMeant(_run_admin_mfa)
  BY DEF PassIsMeant, _run_admin_mfa, Failing, AdminAccounts, TakesUnreadForNone, Compliant
<1>2. FindingIsMeant(_run_admin_mfa)
  BY DEF FindingIsMeant, _run_admin_mfa, Failing, AdminAccounts, TakesUnreadForNone, Compliant
<1>3. QED
  BY <1>1, <1>2 DEF Meant

LEMMA TimeoutIsRight ==
    ASSUME DeviceIInv, check = "idle_timeout"
    PROVE  Meant(_run_idle_timeout)
<1>1. {settings, expected} \subseteq Nat \cup {Absent} /\ Absent \notin Nat
  BY DeviceAssumption DEF DeviceIInv
<1>2. PassIsMeant(_run_idle_timeout)
  BY <1>1 DEF PassIsMeant, _run_idle_timeout, OfField, Failing, Compliant
<1>3. FindingIsMeant(_run_idle_timeout)
  BY <1>1 DEF FindingIsMeant, _run_idle_timeout, OfField, Failing, Compliant
<1>4. QED
  BY <1>2, <1>3 DEF Meant

LEMMA LockoutIsRight ==
    ASSUME DeviceIInv, check = "lockout_threshold"
    PROVE  Meant(_run_lockout_threshold)
<1>1. {settings, expected} \subseteq Nat \cup {Absent} /\ Absent \notin Nat
  BY DeviceAssumption DEF DeviceIInv
<1>2. PassIsMeant(_run_lockout_threshold)
  BY <1>1 DEF PassIsMeant, _run_lockout_threshold, OfField, Failing, Compliant
<1>3. FindingIsMeant(_run_lockout_threshold)
  BY <1>1 DEF FindingIsMeant, _run_lockout_threshold, OfField, Failing, Compliant
<1>4. QED
  BY <1>2, <1>3 DEF Meant

LEMMA PasswordIsRight ==
    ASSUME DeviceIInv, check = "password_length"
    PROVE  Meant(_run_password_length)
<1>1. {settings, expected} \subseteq Nat \cup {Absent} /\ Absent \notin Nat
  BY DeviceAssumption DEF DeviceIInv
<1>2. PassIsMeant(_run_password_length)
  BY <1>1 DEF PassIsMeant, _run_password_length, OfField, Failing, Compliant
<1>3. FindingIsMeant(_run_password_length)
  BY <1>1 DEF FindingIsMeant, _run_password_length, OfField, Failing, Compliant
<1>4. QED
  BY <1>2, <1>3 DEF Meant

LEMMA LogDiskIsRight ==
    ASSUME DeviceIInv, check = "log_disk"
    PROVE  Meant(_run_log_disk)
<1>1. settings \in BOOLEAN
  BY DeviceAssumption DEF DeviceIInv
<1>2. PassIsMeant(_run_log_disk)
  BY <1>1 DEF PassIsMeant, _run_log_disk, OfField, Failing, Compliant
<1>3. FindingIsMeant(_run_log_disk)
  BY <1>1 DEF FindingIsMeant, _run_log_disk, OfField, Failing, Compliant
<1>4. QED
  BY <1>2, <1>3 DEF Meant

LEMMA SnmpVersionIsRight ==
    ASSUME DeviceIInv, check = "snmp_version"
    PROVE  Meant(_run_snmp_version)
<1>1. settings.communities \subseteq BOOLEAN
  BY DeviceAssumption DEF DeviceIInv
<1>2. PassIsMeant(_run_snmp_version)
  BY <1>1 DEF PassIsMeant, _run_snmp_version, Failing, Empty, data_keys, TakesUnreadForNone, Compliant
<1>3. FindingIsMeant(_run_snmp_version)
  BY <1>1 DEF FindingIsMeant, _run_snmp_version, Failing, Empty, data_keys, TakesUnreadForNone, Compliant
<1>4. QED
  BY <1>2, <1>3 DEF Meant

LEMMA SnmpReadonlyIsRight ==
    ASSUME DeviceIInv, check = "snmp_readonly"
    PROVE  Meant(_run_snmp_readonly)
<1>1. settings \subseteq BOOLEAN
  BY DeviceAssumption DEF DeviceIInv
<1>2. PassIsMeant(_run_snmp_readonly)
  BY <1>1 DEF PassIsMeant, _run_snmp_readonly, Failing, TakesUnreadForNone, Compliant
<1>3. FindingIsMeant(_run_snmp_readonly)
  BY <1>1 DEF FindingIsMeant, _run_snmp_readonly, Failing, TakesUnreadForNone, Compliant
<1>4. QED
  BY <1>2, <1>3 DEF Meant

LEMMA TlsIsRight ==
    ASSUME DeviceIInv, check = "tls_version"
    PROVE  Meant(_run_tls_version)
<1>1. PassIsMeant(_run_tls_version)
  BY DEF PassIsMeant, _run_tls_version, OfField, Failing, Compliant
<1>2. FindingIsMeant(_run_tls_version)
  BY DEF FindingIsMeant, _run_tls_version, OfField, Failing, Compliant
<1>3. QED
  BY <1>1, <1>2 DEF Meant

LEMMA CiphersAreRight ==
    ASSUME DeviceIInv, check = "ssh_ciphers"
    PROVE  Meant(_run_ssh_ciphers)
<1>1. PassIsMeant(_run_ssh_ciphers)
  BY DEF PassIsMeant, _run_ssh_ciphers, OfField, Failing, Compliant
<1>2. FindingIsMeant(_run_ssh_ciphers)
  BY DEF FindingIsMeant, _run_ssh_ciphers, OfField, Failing, Compliant
<1>3. QED
  BY <1>1, <1>2 DEF Meant

LEMMA HaIsRight ==
    ASSUME DeviceIInv, check = "ha_sync"
    PROVE  Meant(_run_ha_sync)
<1>1. settings.members \subseteq BOOLEAN
  BY DeviceAssumption DEF DeviceIInv
<1>2. PassIsMeant(_run_ha_sync)
  BY <1>1 DEF PassIsMeant, _run_ha_sync, Failing, Compliant
<1>3. FindingIsMeant(_run_ha_sync)
  BY <1>1 DEF FindingIsMeant, _run_ha_sync, Failing, Compliant
<1>4. QED
  BY <1>2, <1>3 DEF Meant

LEMMA HostnameIsRight ==
    ASSUME DeviceIInv, check = "hostname_changed"
    PROVE  Meant(_run_hostname_changed)
<1>1. PassIsMeant(_run_hostname_changed)
  BY DEF PassIsMeant, _run_hostname_changed, OfField, Failing, Compliant
<1>2. FindingIsMeant(_run_hostname_changed)
  BY DEF FindingIsMeant, _run_hostname_changed, OfField, Failing, Compliant
<1>3. QED
  BY <1>1, <1>2 DEF Meant

LEMMA PortsAreRight ==
    ASSUME DeviceIInv, check = "admin_port_nondefault"
    PROVE  Meant(_run_admin_port_nondefault)
<1>1. PassIsMeant(_run_admin_port_nondefault)
  BY DEF PassIsMeant, _run_admin_port_nondefault, Failing, Compliant
<1>2. FindingIsMeant(_run_admin_port_nondefault)
  BY DEF FindingIsMeant, _run_admin_port_nondefault, Failing, Compliant
<1>3. QED
  BY <1>1, <1>2 DEF Meant

LEMMA BannerIsRight ==
    ASSUME DeviceIInv, check = "prelogin_banner"
    PROVE  Meant(_run_prelogin_banner)
<1>1. settings \in BOOLEAN
  BY DeviceAssumption DEF DeviceIInv
<1>2. PassIsMeant(_run_prelogin_banner)
  BY <1>1 DEF PassIsMeant, _run_prelogin_banner, OfField, Failing, Compliant
<1>3. FindingIsMeant(_run_prelogin_banner)
  BY <1>1 DEF FindingIsMeant, _run_prelogin_banner, OfField, Failing, Compliant
<1>4. QED
  BY <1>2, <1>3 DEF Meant

LEMMA TimezoneIsRight ==
    ASSUME DeviceIInv, check = "timezone_set"
    PROVE  Meant(_run_timezone_set)
<1>1. PassIsMeant(_run_timezone_set)
  BY DEF PassIsMeant, _run_timezone_set, Failing, Compliant
<1>2. FindingIsMeant(_run_timezone_set)
  BY DEF FindingIsMeant, _run_timezone_set, Failing, Compliant
<1>3. QED
  BY <1>1, <1>2 DEF Meant

LEMMA CryptoIsRight ==
    ASSUME DeviceIInv, check = "vpn_weak_crypto"
    PROVE  Meant(_run_vpn_weak_crypto)
<1>1. PassIsMeant(_run_vpn_weak_crypto)
  BY DEF PassIsMeant, _run_vpn_weak_crypto, Failing, Phase1, Phase2, Empty, data_keys, TakesUnreadForNone, Compliant
<1>2. FindingIsMeant(_run_vpn_weak_crypto)
  BY DEF FindingIsMeant, _run_vpn_weak_crypto, Failing, Phase1, Phase2, Empty, data_keys, TakesUnreadForNone, Compliant
<1>3. QED
  BY <1>1, <1>2 DEF Meant

LEMMA PfsIsRight ==
    ASSUME DeviceIInv, check = "vpn_pfs"
    PROVE  Meant(_run_vpn_pfs)
<1>1. PassIsMeant(_run_vpn_pfs)
  BY DEF PassIsMeant, _run_vpn_pfs, Failing, Phase2, Empty, data_keys, Compliant
<1>2. FindingIsMeant(_run_vpn_pfs)
  BY DEF FindingIsMeant, _run_vpn_pfs, Failing, Phase2, Empty, data_keys, Compliant
<1>3. QED
  BY <1>1, <1>2 DEF Meant

LEMMA IkeIsRight ==
    ASSUME DeviceIInv, check = "vpn_ike_version"
    PROVE  Meant(_run_vpn_ike_version)
<1>1. \A t \in settings.phase1 : t.ike \in {1, 2}
  BY DeviceAssumption DEF DeviceIInv
<1>2. PassIsMeant(_run_vpn_ike_version)
  BY <1>1 DEF PassIsMeant, _run_vpn_ike_version, Failing, Phase1, Empty, data_keys, Compliant
<1>3. FindingIsMeant(_run_vpn_ike_version)
  BY <1>1 DEF FindingIsMeant, _run_vpn_ike_version, Failing, Phase1, Empty, data_keys, Compliant
<1>4. QED
  BY <1>2, <1>3 DEF Meant

(* Versions compare as tuples: one is not below another exactly if it is   *)
(* at least as high in the first component in which they differ.           *)
Component(v, i) == IF i \in DOMAIN v THEN v[i] + 1 ELSE 0

LEMMA VersionsCompare ==
    ASSUME NEW v \in Seq(Nat), NEW w \in Seq(Nat)
    PROVE  ~_parse_version_less(v, w) <=>
             \A i \in 1..(Len(v) + Len(w)) :
               (\A j \in 1..(i - 1) : Component(v, j) = Component(w, j)) => Component(v, i) >= Component(w, i)
<1>1. /\ Len(v) \in Nat /\ Len(w) \in Nat /\ DOMAIN v = 1..Len(v) /\ DOMAIN w = 1..Len(w)
      /\ \A i \in DOMAIN v : v[i] \in Nat
      /\ \A i \in DOMAIN w : w[i] \in Nat
  OBVIOUS
<1>2. ASSUME NEW i \in 1..Len(w), i <= Len(v) + 1, \A j \in 1..(i - 1) : v[j] = w[j],
             i <= Len(v) => v[i] < w[i]
      PROVE  /\ i \in 1..(Len(v) + Len(w))
             /\ \A j \in 1..(i - 1) : Component(v, j) = Component(w, j)
             /\ ~(Component(v, i) >= Component(w, i))
  BY <1>1, <1>2 DEF Component
<1>3. ASSUME NEW i \in 1..(Len(v) + Len(w)), \A j \in 1..(i - 1) : Component(v, j) = Component(w, j),
             ~(Component(v, i) >= Component(w, i))
      PROVE  _parse_version_less(v, w)
  <2>1. i \in DOMAIN w /\ (i \in DOMAIN v => v[i] < w[i])
    BY <1>1, <1>3 DEF Component
  <2>2. ASSUME NEW j \in 1..(i - 1)
        PROVE  j \in DOMAIN v /\ v[j] = w[j]
    <3>1. j \in DOMAIN w /\ Component(v, j) = Component(w, j)
      BY <1>1, <1>3, <2>1
    <3>2. QED
      BY <1>1, <3>1 DEF Component
  <2>3. i <= Len(v) + 1
    <3>1. CASE i = 1
      BY <1>1, <3>1
    <3>2. CASE i # 1
      <4>1. i - 1 \in DOMAIN v
        BY <2>2, <3>2, <1>1
      <4>2. QED
        BY <1>1, <4>1
    <3>3. QED
      BY <3>1, <3>2
  <2>4. QED
    BY <1>1, <2>1, <2>2, <2>3 DEF _parse_version_less
<1>4. QED
  BY <1>2, <1>3 DEF _parse_version_less

LEMMA FirmwareIsRight ==
    ASSUME DeviceIInv, check = "firmware_version"
    PROVE  Meant(_run_firmware_version)
<1>1. {settings, expected} \subseteq Seq(Nat) \cup {Absent}
  BY DeviceAssumption DEF DeviceIInv
<1>2. ASSUME settings \in Seq(Nat), expected \in Seq(Nat)
      PROVE  /\ ~_parse_version_less(settings, expected) <=> Compliant(SameOnce)
             /\ ~_parse_version_less(settings, expected) <=> Compliant(SameNow)
  <2> DEFINE AtLeast == \A i \in 1..(Len(settings) + Len(expected)) :
               (\A j \in 1..(i - 1) : Component(settings, j) = Component(expected, j))
                  => Component(settings, i) >= Component(expected, i)
  <2>1. Compliant(SameOnce) <=> AtLeast
    BY DEF Compliant, Component
  <2>2. Compliant(SameNow) <=> AtLeast
    BY DEF Compliant, Component
  <2>3. QED
    BY <1>2, <2>1, <2>2, VersionsCompare
<1>3. PassIsMeant(_run_firmware_version)
  <2> SUFFICES ASSUME _run_firmware_version = "PASS" PROVE ~Empty /\ Compliant(SameOnce)
    BY DEF PassIsMeant
  <2>1. /\ ~Empty /\ Absent \notin {settings, expected}
        /\ ~_parse_version_less(settings, expected)
    BY DEF _run_firmware_version, Failing
  <2>2. QED
    BY <1>1, <1>2, <2>1
<1>4. FindingIsMeant(_run_firmware_version)
  <2> SUFFICES ASSUME _run_firmware_version \in {"FAIL", "WARN", "INSECURE"}
               PROVE  ~Compliant(SameNow)
    BY DEF FindingIsMeant
  <2>1. Absent \notin {settings, expected} /\ _parse_version_less(settings, expected)
    BY DEF _run_firmware_version, Failing
  <2>2. QED
    BY <1>1, <1>2, <2>1
<1>5. QED
  BY <1>3, <1>4 DEF Meant

LEMMA VerdictOfCheck ==
    ASSUME DeviceIInv, check # "log_severity"
    PROVE  Meant(CHECKS)
<1>1. check \in DOMAIN data_keys
  BY DEF DeviceIInv, CheckKey
<1>2. QED
  <2>1. CASE check = "ntp_config"
    <3>1. CHECKS = _run_ntp_config
      BY <2>1 DEF CHECKS
    <3>2. QED
      BY <2>1, <3>1, NtpIsRight
  <2>2. CASE check = "syslog_config"
    <3>1. CHECKS = _run_syslog_config
      BY <2>2 DEF CHECKS
    <3>2. QED
      BY <2>2, <3>1, SyslogIsRight
  <2>3. CASE check = "dns_servers"
    <3>1. CHECKS = _run_dns
      BY <2>3 DEF CHECKS
    <3>2. QED
      BY <2>3, <3>1, DnsIsRight
  <2>4. CASE check = "log_faz"
    <3>1. CHECKS = _run_log_faz
      BY <2>4 DEF CHECKS
    <3>2. QED
      BY <2>4, <3>1, FazIsRight
  <2>5. CASE check = "firmware_version"
    <3>1. CHECKS = _run_firmware_version
      BY <2>5 DEF CHECKS
    <3>2. QED
      BY <2>5, <3>1, FirmwareIsRight
  <2>6. CASE check = "interface_protocols"
    <3>1. CHECKS = _run_interface_protocols
      BY <2>6 DEF CHECKS
    <3>2. QED
      BY <2>6, <3>1, InterfacesAreRight
  <2>7. CASE check = "trusted_hosts"
    <3>1. CHECKS = _run_trusted_hosts
      BY <2>7 DEF CHECKS
    <3>2. QED
      BY <2>7, <3>1, TrustedHostsAreRight
  <2>8. CASE check = "default_admin"
    <3>1. CHECKS = _run_default_admin
      BY <2>8 DEF CHECKS
    <3>2. QED
      BY <2>8, <3>1, DefaultAdminIsRight
  <2>9. CASE check = "admin_mfa"
    <3>1. CHECKS = _run_admin_mfa
      BY <2>9 DEF CHECKS
    <3>2. QED
      BY <2>9, <3>1, MfaIsRight
  <2>10. CASE check = "idle_timeout"
    <3>1. CHECKS = _run_idle_timeout
      BY <2>10 DEF CHECKS
    <3>2. QED
      BY <2>10, <3>1, TimeoutIsRight
  <2>11. CASE check = "lockout_threshold"
    <3>1. CHECKS = _run_lockout_threshold
      BY <2>11 DEF CHECKS
    <3>2. QED
      BY <2>11, <3>1, LockoutIsRight
  <2>12. CASE check = "password_length"
    <3>1. CHECKS = _run_password_length
      BY <2>12 DEF CHECKS
    <3>2. QED
      BY <2>12, <3>1, PasswordIsRight
  <2>13. CASE check = "log_disk"
    <3>1. CHECKS = _run_log_disk
      BY <2>13 DEF CHECKS
    <3>2. QED
      BY <2>13, <3>1, LogDiskIsRight
  <2>14. CASE check = "snmp_version"
    <3>1. CHECKS = _run_snmp_version
      BY <2>14 DEF CHECKS
    <3>2. QED
      BY <2>14, <3>1, SnmpVersionIsRight
  <2>15. CASE check = "snmp_readonly"
    <3>1. CHECKS = _run_snmp_readonly
      BY <2>15 DEF CHECKS
    <3>2. QED
      BY <2>15, <3>1, SnmpReadonlyIsRight
  <2>16. CASE check = "tls_version"
    <3>1. CHECKS = _run_tls_version
      BY <2>16 DEF CHECKS
    <3>2. QED
      BY <2>16, <3>1, TlsIsRight
  <2>17. CASE check = "ssh_ciphers"
    <3>1. CHECKS = _run_ssh_ciphers
      BY <2>17 DEF CHECKS
    <3>2. QED
      BY <2>17, <3>1, CiphersAreRight
  <2>18. CASE check = "ha_sync"
    <3>1. CHECKS = _run_ha_sync
      BY <2>18 DEF CHECKS
    <3>2. QED
      BY <2>18, <3>1, HaIsRight
  <2>19. CASE check = "hostname_changed"
    <3>1. CHECKS = _run_hostname_changed
      BY <2>19 DEF CHECKS
    <3>2. QED
      BY <2>19, <3>1, HostnameIsRight
  <2>20. CASE check = "admin_port_nondefault"
    <3>1. CHECKS = _run_admin_port_nondefault
      BY <2>20 DEF CHECKS
    <3>2. QED
      BY <2>20, <3>1, PortsAreRight
  <2>21. CASE check = "prelogin_banner"
    <3>1. CHECKS = _run_prelogin_banner
      BY <2>21 DEF CHECKS
    <3>2. QED
      BY <2>21, <3>1, BannerIsRight
  <2>22. CASE check = "timezone_set"
    <3>1. CHECKS = _run_timezone_set
      BY <2>22 DEF CHECKS
    <3>2. QED
      BY <2>22, <3>1, TimezoneIsRight
  <2>23. CASE check = "vpn_weak_crypto"
    <3>1. CHECKS = _run_vpn_weak_crypto
      BY <2>23 DEF CHECKS
    <3>2. QED
      BY <2>23, <3>1, CryptoIsRight
  <2>24. CASE check = "vpn_pfs"
    <3>1. CHECKS = _run_vpn_pfs
      BY <2>24 DEF CHECKS
    <3>2. QED
      BY <2>24, <3>1, PfsIsRight
  <2>25. CASE check = "vpn_ike_version"
    <3>1. CHECKS = _run_vpn_ike_version
      BY <2>25 DEF CHECKS
    <3>2. QED
      BY <2>25, <3>1, IkeIsRight
  <2>26. QED
    BY <1>1, <2>1, <2>2, <2>3, <2>4, <2>5, <2>6, <2>7, <2>8, <2>9, <2>10, <2>11, <2>12, <2>13, <2>14, <2>15, <2>16, <2>17, <2>18, <2>19, <2>20, <2>21, <2>22, <2>23, <2>24, <2>25 DEF data_keys

LEMMA DeviceInit == ReviewInit => DeviceIInv
<1> SUFFICES ASSUME ReviewInit PROVE DeviceIInv
  OBVIOUS
<1>1. VerdictsAreRight
  BY DEF ReviewInit, VerdictsAreRight, PassMeansCompliant, FindingsAreReal
<1>2. QED
  BY <1>1 DEF ReviewInit, DeviceIInv

(* A review: what is cached now was so before, or was not cached.          *)
LEMMA ReviewStep ==
    ASSUME DeviceIInv, review_checks
    PROVE  DeviceIInv'
<1>1. PICK asked \in SUBSET Compared :
         resolved' = [h \in Host |-> IF h \in asked THEN _resolve_host(h) ELSE resolved[h]]
  BY DEF review_checks
<1>2. /\ verdict' = CHECKS
      /\ UNCHANGED <<check, settings, expected, unread, connected, dns, answered>>
  BY DEF review_checks
<1>3. /\ resolved' = [h \in Host |-> resolved'[h]]
      /\ \A h \in Host : /\ resolved'[h] \in {resolved[h], dns[h]}
                         /\ resolved[h] # Unresolved => resolved'[h] = resolved[h]
                         /\ resolved'[h] # Unresolved => resolved'[h] \subseteq answered[h]
  BY <1>1 DEF _resolve_host, DeviceIInv
<1>4. Compared' = Compared /\ Empty' = Empty
  BY <1>2 DEF Compared, Empty, NotRead
<1>5. Compliant(SameOnce)' <=> Compliant(SameOnce)
  BY <1>2 DEF Compliant, SameOnce
<1>6. Compliant(SameNow)' <=> Compliant(SameNow)
  BY <1>2 DEF Compliant, SameNow
<1>7. PassMeansCompliant'
  BY <1>2, <1>4, <1>5, VerdictOfCheck DEF PassMeansCompliant, Meant, PassIsMeant
<1>8. FindingsAreReal'
  <2> SUFFICES ASSUME verdict' \in {"FAIL", "WARN", "INSECURE"}, check # "log_severity", ~Empty,
                      \A h \in Compared : resolved'[h] \in {Unresolved, dns[h]}
               PROVE  ~Compliant(SameNow)
    BY <1>2, <1>4, <1>6 DEF FindingsAreReal
  <2>1. Compared \subseteq Host
    BY DeviceAssumption DEF Compared, DeviceIInv
  <2>2. UpToDate
    BY <2>1, <1>3 DEF UpToDate
  <2>3. QED
    BY <1>2, <2>2, VerdictOfCheck DEF Meant, FindingIsMeant
<1>9. QED
  BY <1>2, <1>3, <1>7, <1>8 DEF DeviceIInv, VerdictsAreRight

LEMMA DeviceStep ==
    ASSUME DeviceIInv, [ReviewNext]_reviewVars
    PROVE  DeviceIInv'
<1>1. CASE UNCHANGED reviewVars
  <2>0. UNCHANGED <<check, settings, expected, unread, connected, dns, resolved, answered, verdict>>
    BY <1>1 DEF reviewVars
  <2>1. /\ Compliant(SameOnce)' <=> Compliant(SameOnce)
        /\ Compliant(SameNow)' <=> Compliant(SameNow)
    BY <2>0 DEF Compliant, SameOnce, SameNow
  <2>2. Compared' = Compared /\ Empty' = Empty
    BY <2>0 DEF Compared, Empty, NotRead
  <2>3. VerdictsAreRight'
    BY <2>0, <2>1, <2>2 DEF DeviceIInv, VerdictsAreRight, PassMeansCompliant, FindingsAreReal
  <2>4. QED
    BY <2>0, <2>3 DEF DeviceIInv
<1>2. CASE _fetch_device_data
  <2>1. VerdictsAreRight'
    BY <1>2 DEF _fetch_device_data, VerdictsAreRight, PassMeansCompliant, FindingsAreReal
  <2>2. QED
    BY <1>2, <2>1 DEF DeviceIInv, _fetch_device_data
<1>3. CASE review_checks
  BY <1>3, ReviewStep
<1>4. ASSUME NEW h \in Name, DnsChange(h) PROVE DeviceIInv'
  <2>1. VerdictsAreRight'
    BY <1>4 DEF DnsChange, VerdictsAreRight, PassMeansCompliant, FindingsAreReal
  <2>2. \A g \in Host : dns'[g] \subseteq answered'[g] /\ answered[g] \subseteq answered'[g]
    BY <1>4 DEF DnsChange, DeviceIInv
  <2>3. QED
    BY <1>4, <2>1, <2>2 DEF DeviceIInv, DnsChange
<1>5. QED
  BY <1>1, <1>2, <1>3, <1>4 DEF ReviewNext

(* VerdictsAreRight: a device that passes a check complies, one with a     *)
(* finding does not, for every setting, unread blob and change of the DNS. *)
THEOREM VerdictsAreTrue == ReviewSpec => []VerdictsAreRight
<1>1. DeviceIInv => VerdictsAreRight
  BY DEF DeviceIInv
<1>2. QED
  BY <1>1, DeviceInit, DeviceStep, PTL DEF ReviewSpec

-----------------------------------------------------------------------------
(* A set of natural numbers that is not empty has a least element.         *)
LEMMA Minimum ==
    ASSUME NEW S \in SUBSET Nat, S # {}
    PROVE  \E m \in S : \A k \in S : m <= k
<1>1. PICK m \in S : \A k \in S : ~(<<k, m>> \in OpToRel(<, Nat))
  BY WFMin, NatLessThanWellFounded, Zenon
<1>2. \A k \in S : ~(k < m)
  BY <1>1, Zenon DEF OpToRel
<1>3. QED
  BY <1>2

(* A step function can be repeated.                                       *)
LEMMA Iterates ==
    ASSUME NEW D, NEW base \in D, NEW n \in Nat, NEW step \in [1..n -> [D -> D]]
    PROVE  \E f \in [0..n -> D] : f[0] = base /\ \A i \in 1..n : f[i] = step[i][f[i - 1]]
<1> DEFINE Is(f, m) == f \in [0..m -> D] /\ f[0] = base /\ \A i \in 1..m : f[i] = step[i][f[i - 1]]
           Bad == {m \in 0..n : ~\E f : Is(f, m)}
<1>1. Bad = {}
  <2> SUFFICES ASSUME Bad # {} PROVE FALSE
    OBVIOUS
  <2>1. PICK m \in Bad : \A k \in Bad : m <= k
    <3>1. Bad \in SUBSET Nat
      OBVIOUS
    <3> HIDE DEF Bad
    <3>2. QED
      BY <3>1, Minimum
  <2>2. m \in 0..n /\ ~\E f : Is(f, m)
    OBVIOUS
  <2>3. CASE m = 0
    <3>1. Is([i \in 0..0 |-> base], 0)
      OBVIOUS
    <3>2. QED
      BY <3>1, <2>2, <2>3
  <2>4. CASE m # 0
    <3>0. m - 1 \in 0..n /\ ~(m <= m - 1)
      BY <2>2, <2>4
    <3>1. m - 1 \in 0..n /\ m - 1 \notin Bad
      <4> HIDE DEF Bad
      <4>1. QED
        BY <2>1, <3>0
    <3>2. PICK f : Is(f, m - 1)
      BY <3>1
    <3> DEFINE g == [i \in 0..m |-> IF i = m THEN step[m][f[m - 1]] ELSE f[i]]
    <3>3. f[m - 1] \in D /\ step[m] \in [D -> D]
      BY <2>2, <2>4, <3>2
    <3>4. g \in [0..m -> D] /\ g[0] = base
      BY <2>2, <2>4, <3>2, <3>3
    <3>5. ASSUME NEW i \in 1..m PROVE g[i] = step[i][g[i - 1]]
      <4>1. i - 1 \in 0..(m - 1) /\ i - 1 # m
        BY <2>2, <2>4
      <4>2. g[i - 1] = f[i - 1]
        BY <4>1, <2>2
      <4>3. CASE i = m
        BY <4>2, <4>3
      <4>4. CASE i # m
        <5>1. i \in 1..(m - 1)
          BY <4>4, <2>2
        <5>2. f[i] = step[i][f[i - 1]]
          BY <5>1, <3>2
        <5>3. g[i] = f[i]
          BY <4>4
        <5> HIDE DEF g
        <5>4. QED
          BY <5>2, <5>3, <4>2
      <4>5. QED
        BY <4>3, <4>4
    <3> HIDE DEF g
    <3>6. QED
      BY <2>2, <3>4, <3>5
  <2>5. QED
    BY <2>3, <2>4
<1>2. PICK f : Is(f, n)
  BY <1>1
<1>3. QED
  BY <1>2
-----------------------------------------------------------------------------
(* The rule policy export.  Groups: the definition of Expansions is an     *)
(* equation with a solution, as every call is in one more group.           *)
ExpandOnce(f, catalog, call) ==
    IF Cardinality(call.seen) >= MaxLevels THEN {<<call.name, "max_depth">>}
    ELSE IF call.name \in call.seen THEN {<<call.name, "circular">>}
    ELSE IF call.name \notin DOMAIN catalog \/ catalog[call.name] = Leaf THEN {<<call.name, "leaf">>}
    ELSE UNION {f[[name |-> m, seen |-> call.seen \cup {call.name}]] : m \in catalog[call.name]}

IsCatalog(catalog) ==
    \A n \in DOMAIN catalog : catalog[n] # Leaf => n \in NestGroup /\ catalog[n] \subseteq NestName

ExpandsInto(f, catalog) == f = [call \in NestCall |-> ExpandOnce(f, catalog, call)]

(* The calls that a call makes.                                            *)
Enters(catalog, call) ==
    /\ ~(Cardinality(call.seen) >= MaxLevels) /\ call.name \notin call.seen
    /\ call.name \in DOMAIN catalog /\ catalog[call.name] # Leaf

CallOf(call, m) == [name |-> m, seen |-> call.seen \cup {call.name}]

LEMMA CallsAreDeeper ==
    ASSUME NEW catalog, IsCatalog(catalog), NEW call \in NestCall, Enters(catalog, call), NEW m \in catalog[call.name]
    PROVE  /\ CallOf(call, m) \in NestCall
           /\ Cardinality(CallOf(call, m).seen) = Cardinality(call.seen) + 1
<1>1. call.name \in NestGroup /\ m \in NestName /\ call.seen \subseteq NestGroup
  BY DEF IsCatalog, Enters, NestCall
<1>2. CallOf(call, m) \in NestCall
  BY <1>1 DEF CallOf, NestCall
<1>3. IsFiniteSet(call.seen)
  BY <1>1, FS_Subset, PolicyReportsAssumption
<1>4. Cardinality(call.seen \cup {call.name}) = Cardinality(call.seen) + 1
  BY <1>3, FS_AddElement DEF Enters
<1>5. QED
  BY <1>2, <1>4 DEF CallOf

LEMMA OnceIs ==
    ASSUME NEW f, NEW catalog, NEW call
    PROVE  /\ Enters(catalog, call) =>
                ExpandOnce(f, catalog, call) = UNION {f[CallOf(call, m)] : m \in catalog[call.name]}
           /\ ~Enters(catalog, call) => \A g : ExpandOnce(f, catalog, call) = ExpandOnce(g, catalog, call)
BY DEF Enters, ExpandOnce, CallOf

LEMMA OnceSame ==
    ASSUME NEW f, NEW g, NEW catalog, NEW call,
           Enters(catalog, call) => \A m \in catalog[call.name] : f[CallOf(call, m)] = g[CallOf(call, m)]
    PROVE  ExpandOnce(f, catalog, call) = ExpandOnce(g, catalog, call)
<1>1. CASE Enters(catalog, call)
  <2>1. \A h : ExpandOnce(h, catalog, call) = UNION {h[CallOf(call, m)] : m \in catalog[call.name]}
    BY <1>1, OnceIs
  <2>2. \A m \in catalog[call.name] : f[CallOf(call, m)] = g[CallOf(call, m)]
    BY <1>1
  <2>3. {f[CallOf(call, m)] : m \in catalog[call.name]} = {g[CallOf(call, m)] : m \in catalog[call.name]}
    BY <2>2
  <2>4. QED
    BY <2>1, <2>3
<1>2. CASE ~Enters(catalog, call)
  BY <1>2, OnceIs
<1>3. QED
  BY <1>1, <1>2

LEMMA ExpansionsExist ==
    ASSUME NEW catalog, IsCatalog(catalog)
    PROVE  \E f : ExpandsInto(f, catalog)
<1> DEFINE n == MaxLevels + 1
           Item == NestName \X {"max_depth", "circular", "leaf"}
           D == [NestCall -> SUBSET Item]
           base == [call \in NestCall |-> {}]
           apply == [f \in D |-> [call \in NestCall |-> ExpandOnce(f, catalog, call)]]
           step == [i \in 1..n |-> apply]
<1>1. n \in Nat /\ MaxLevels \in Nat
  BY PolicyReportsAssumption
<1>2. ASSUME NEW f \in D, NEW call \in NestCall PROVE ExpandOnce(f, catalog, call) \in SUBSET Item
  <2>1. CASE Enters(catalog, call)
    <3>1. \A m \in catalog[call.name] : f[CallOf(call, m)] \in SUBSET Item
      BY <2>1, CallsAreDeeper
    <3> HIDE DEF Item
    <3>2. QED
      BY <2>1, <3>1, OnceIs
  <2>2. CASE ~Enters(catalog, call)
    <3>1. call.name \in NestName
      BY DEF NestCall
    <3>2. ExpandOnce(f, catalog, call) \in {{<<call.name, "max_depth">>}, {<<call.name, "circular">>}, {<<call.name, "leaf">>}}
      BY <2>2 DEF Enters, ExpandOnce
    <3>3. QED
      BY <3>1, <3>2
  <2>3. QED
    BY <2>1, <2>2
<1>3. apply \in [D -> D]
  <2> HIDE DEF Item
  <2>1. QED
    BY <1>2
<1>4. base \in D
  OBVIOUS
<1> HIDE DEF D
<1>5. step \in [1..n -> [D -> D]]
  <2> HIDE DEF apply
  <2>1. QED
    BY <1>3
<1>6. PICK h \in [0..n -> D] : h[0] = base /\ \A i \in 1..n : h[i] = step[i][h[i - 1]]
  <2> HIDE DEF step, base, n
  <2>1. n \in Nat
    BY <1>1
  <2>2. QED
    BY <2>1, <1>4, <1>5, Iterates
<1>7. \A i \in 1..n : h[i] = apply[h[i - 1]]
  <2> HIDE DEF apply
  <2>1. QED
    BY <1>6
<1>8. \A i \in 1..n : h[i - 1] \in D
  BY <1>1
<1>9. \A i \in 1..n, call \in NestCall : h[i][call] = ExpandOnce(h[i - 1], catalog, call)
  <2>1. \A f \in D, call \in NestCall : apply[f][call] = ExpandOnce(f, catalog, call)
    OBVIOUS
  <2> HIDE DEF apply
  <2>2. QED
    BY <1>7, <1>8, <2>1
<1> DEFINE Solved(i) == \A call \in NestCall : Cardinality(call.seen) >= MaxLevels - i + 1 =>
                          h[i][call] = ExpandOnce(h[i], catalog, call)
           Bad == {i \in 1..n : ~Solved(i)}
<1>10. Bad = {}
  <2> SUFFICES ASSUME Bad # {} PROVE FALSE
    OBVIOUS
  <2>1. PICK k \in Bad : \A j \in Bad : k <= j
    <3>1. Bad \in SUBSET Nat
      BY <1>1
    <3> HIDE DEF Bad
    <3>2. QED
      BY <3>1, Minimum
  <2>2. k \in 1..n /\ ~Solved(k)
    BY <2>1
  <2>3. PICK call \in NestCall : /\ Cardinality(call.seen) >= MaxLevels - k + 1
                                 /\ h[k][call] # ExpandOnce(h[k], catalog, call)
    BY <2>2
  <2>4. h[k][call] = ExpandOnce(h[k - 1], catalog, call)
    BY <1>9, <2>2
  <2>5. Enters(catalog, call) /\ \E m \in catalog[call.name] : h[k - 1][CallOf(call, m)] # h[k][CallOf(call, m)]
    BY <2>3, <2>4, OnceSame
  <2>6. PICK m \in catalog[call.name] : h[k - 1][CallOf(call, m)] # h[k][CallOf(call, m)]
    BY <2>5
  <2>7. CallOf(call, m) \in NestCall /\ Cardinality(CallOf(call, m).seen) = Cardinality(call.seen) + 1
    BY <2>5, CallsAreDeeper
  <2>8. Cardinality(call.seen) \in Nat
    <3>1. IsFiniteSet(call.seen)
      BY FS_Subset, PolicyReportsAssumption DEF NestCall
    <3>2. QED
      BY <3>1, FS_CardinalityType
  <2>9. k # 1
    BY <1>1, <2>3, <2>5, <2>8 DEF Enters
  <2>10. k - 1 \in 1..n /\ ~(k <= k - 1)
    BY <1>1, <2>2, <2>9
  <2>11. Solved(k - 1)
    <3>1. k - 1 \notin Bad
      <4> HIDE DEF Bad
      <4>1. QED
        BY <2>1, <2>10
    <3>2. QED
      BY <2>10, <3>1
  <2>12. Cardinality(CallOf(call, m).seen) >= MaxLevels - (k - 1) + 1
    BY <1>1, <2>2, <2>3, <2>7, <2>8
  <2>13. h[k - 1][CallOf(call, m)] = ExpandOnce(h[k - 1], catalog, CallOf(call, m))
    <3> HIDE DEF Bad
    <3>1. QED
      BY <2>7, <2>11, <2>12
  <2>14. h[k][CallOf(call, m)] = ExpandOnce(h[k - 1], catalog, CallOf(call, m))
    BY <1>9, <2>2, <2>7
  <2>15. QED
    BY <2>6, <2>13, <2>14
<1>11. n \in 1..n /\ n \notin Bad
  BY <1>1, <1>10
<1>12. \A call \in NestCall : Cardinality(call.seen) \in Nat
  <2> SUFFICES ASSUME NEW call \in NestCall PROVE Cardinality(call.seen) \in Nat
    OBVIOUS
  <2>1. IsFiniteSet(call.seen)
    BY FS_Subset, PolicyReportsAssumption DEF NestCall
  <2>2. QED
    BY <2>1, FS_CardinalityType
<1>13. \A call \in NestCall : h[n][call] = ExpandOnce(h[n], catalog, call)
  BY <1>1, <1>11, <1>12
<1>14. h[n] \in [NestCall -> SUBSET Item]
  BY <1>6, <1>11 DEF D
<1>15. h[n] = [call \in NestCall |-> h[n][call]]
  BY <1>14
<1>16. ExpandsInto(h[n], catalog)
  <2> DEFINE f == h[n]
  <2>1. f = [call \in NestCall |-> f[call]] /\ \A call \in NestCall : f[call] = ExpandOnce(f, catalog, call)
    BY <1>13, <1>15
  <2> HIDE DEF f
  <2>2. f = [call \in NestCall |-> ExpandOnce(f, catalog, call)]
    BY <2>1
  <2>3. QED
    BY <2>2 DEF ExpandsInto, f
<1>17. QED
  BY <1>16

LEMMA ExpansionIs ==
    ASSUME NEW catalog, IsCatalog(catalog), NEW call \in NestCall
    PROVE  Expansions(catalog)[call] = ExpandOnce(Expansions(catalog), catalog, call)
<1> DEFINE f == CHOOSE g : ExpandsInto(g, catalog)
<1>1. ExpandsInto(f, catalog)
  BY ExpansionsExist
<1>2. Expansions(catalog) = f
  BY DEF Expansions, ExpandsInto, ExpandOnce
<1> HIDE DEF f
<1>3. QED
  BY <1>1, <1>2 DEF ExpandsInto

(* Members that groups can have, and what the catalogs of one kind of      *)
(* groups know: what was there, but for the groups that changed.           *)
NestSets == {FirstNest[g] : g \in NestGroup} \cup UNION {NestChoice[g] : g \in NestGroup}

Nestings ==
    {members \in [NestGroup -> NestSets] : \A g \in NestGroup : members[g] \in NestChoice[g] \cup {FirstNest[g]}}

(* No chain of groups is longer than an expansion follows it.              *)
ShallowNest ==
    \A members \in Nestings, g \in NestGroup : \A c \in Chains(members, g) : Len(c) < MaxLevels

IsKind(G, L) == (G = AddrGroup /\ L = AddrLeaf) \/ (G = SvcGroup /\ L = SvcLeaf)

Agrees(catalog, members, G, L, changed) ==
    \A n \in G \ changed : /\ n \in DOMAIN catalog <=> members[n] # NoGroup
                           /\ n \in DOMAIN catalog => catalog[n] = members[n]

Catalogs(catalog, G, L) ==
    /\ L \subseteq DOMAIN catalog /\ DOMAIN catalog \subseteq L \cup G
    /\ \A n \in L : catalog[n] = Leaf
    /\ \A n \in G \cap DOMAIN catalog : catalog[n] # Leaf /\ catalog[n] \subseteq L \cup G

LEMMA KindIs ==
    ASSUME NEW G, NEW L, IsKind(G, L)
    PROVE  /\ G \subseteq NestGroup /\ G \cup L \subseteq NestName /\ L \cap NestGroup = {}
           /\ \A members \in Nestings, g \in G :
                members[g] # Leaf /\ (members[g] # NoGroup => members[g] \subseteq L \cup G)
           /\ \A catalog : Catalogs(catalog, G, L) => IsCatalog(catalog)
<1>1. G \subseteq NestGroup /\ G \cup L \subseteq NestName /\ L \cap NestGroup = {}
  BY PolicyReportsAssumption DEF IsKind, NestGroup, NestName
<1>2. ASSUME NEW members \in Nestings, NEW g \in G
      PROVE  members[g] # Leaf /\ (members[g] # NoGroup => members[g] \subseteq L \cup G)
  <2>1. g \in NestGroup /\ members[g] \in NestChoice[g] \cup {FirstNest[g]}
    BY <1>1 DEF Nestings
  <2>2. /\ members[g] # Leaf
        /\ members[g] # NoGroup =>
             members[g] \subseteq IF g \in AddrGroup THEN AddrLeaf \cup AddrGroup ELSE SvcLeaf \cup SvcGroup
    BY <2>1, PolicyReportsAssumption
  <2>3. AddrGroup \cap SvcGroup = {}
    BY PolicyReportsAssumption
  <2>4. CASE G = AddrGroup /\ L = AddrLeaf
    BY <2>2, <2>4
  <2>5. CASE G = SvcGroup /\ L = SvcLeaf
    BY <2>2, <2>3, <2>5
  <2>6. QED
    BY <2>4, <2>5 DEF IsKind
<1>3. ASSUME NEW catalog, Catalogs(catalog, G, L) PROVE IsCatalog(catalog)
  <2> SUFFICES ASSUME NEW n \in DOMAIN catalog, catalog[n] # Leaf
               PROVE  n \in NestGroup /\ catalog[n] \subseteq NestName
    BY DEF IsCatalog
  <2>1. n \in G
    BY <1>3 DEF Catalogs
  <2>2. QED
    BY <1>1, <1>3, <2>1 DEF Catalogs
<1>4. QED
  BY <1>1, <1>2, <1>3

(* Chains.                                                                 *)
LEMMA ChainIs ==
    ASSUME NEW members, NEW g, NEW n \in Nat, n # 0, NEW c \in [1..n -> NestGroup], c[1] = g,
           \A i, j \in 1..n : c[i] = c[j] => i = j,
           \A i \in 1..n : members[c[i]] # NoGroup /\ (i > 1 => c[i] \in members[c[i - 1]])
    PROVE  c \in Chains(members, g)
<1>1. IsFiniteSet(NestGroup)
  BY PolicyReportsAssumption
<1>2. c \in Injection(1..n, NestGroup)
  BY DEF Injection, IsInjective
<1>3. Cardinality(1..n) <= Cardinality(NestGroup) /\ Cardinality(NestGroup) \in Nat
  BY <1>1, <1>2, FS_Injection, FS_CardinalityType
<1>4. Cardinality(1..n) = n
  <2>1. 1 \in Int /\ n \in Int
    OBVIOUS
  <2>2. Cardinality(1..n) = IF 1 > n THEN 0 ELSE n - 1 + 1
    BY <2>1, FS_Interval, Zenon
  <2>3. QED
    BY <2>2
<1>5. n \in 1..Cardinality(NestGroup)
  BY <1>3, <1>4
<1>6. c \in UNION {[1..k -> NestGroup] : k \in 1..Cardinality(NestGroup)}
  BY <1>5
<1>7. QED
  BY <1>6 DEF Chains

LEMMA ChainHas ==
    ASSUME NEW members, NEW g, NEW c \in Chains(members, g)
    PROVE  /\ Len(c) \in Nat /\ Len(c) # 0 /\ Len(c) <= Cardinality(NestGroup)
           /\ c \in [1..Len(c) -> NestGroup] /\ c[1] = g
           /\ \A i, j \in 1..Len(c) : c[i] = c[j] => i = j
           /\ \A i \in 1..Len(c) : members[c[i]] # NoGroup /\ (i > 1 => c[i] \in members[c[i - 1]])
           /\ Range(c) = {c[i] : i \in 1..Len(c)}
<1>1. PICK n \in 1..Cardinality(NestGroup) : c \in [1..n -> NestGroup]
  BY DEF Chains
<1>2. Cardinality(NestGroup) \in Nat
  BY FS_CardinalityType, PolicyReportsAssumption
<1>3. n \in Nat /\ n # 0 /\ n <= Cardinality(NestGroup)
  BY <1>1, <1>2
<1>4. Len(c) = n
  BY <1>1, <1>3
<1>5. QED
  BY <1>1, <1>3, <1>4 DEF Chains, Range

LEMMA PrefixIsChain ==
    ASSUME NEW members, NEW g, NEW c \in Chains(members, g), NEW k \in 1..Len(c)
    PROVE  [i \in 1..k |-> c[i]] \in Chains(members, g) /\ Len([i \in 1..k |-> c[i]]) = k
<1> DEFINE d == [i \in 1..k |-> c[i]]
<1>1. Len(c) \in Nat /\ k \in Nat /\ k # 0 /\ 1..k \subseteq 1..Len(c)
  BY ChainHas
<1>2. d \in [1..k -> NestGroup] /\ d[1] = g
  BY <1>1, ChainHas
<1>3. \A i, j \in 1..k : d[i] = d[j] => i = j
  BY <1>1, ChainHas
<1>4. \A i \in 1..k : members[d[i]] # NoGroup /\ (i > 1 => d[i] \in members[d[i - 1]])
  <2> SUFFICES ASSUME NEW i \in 1..k
               PROVE  members[d[i]] # NoGroup /\ (i > 1 => d[i] \in members[d[i - 1]])
    OBVIOUS
  <2>1. i \in 1..Len(c) /\ (i > 1 => i - 1 \in 1..k)
    BY <1>1
  <2>2. members[c[i]] # NoGroup /\ (i > 1 => c[i] \in members[c[i - 1]])
    BY <2>1, ChainHas
  <2>3. d[i] = c[i] /\ (i > 1 => d[i - 1] = c[i - 1])
    BY <2>1
  <2>4. QED
    BY <2>2, <2>3
<1>5. d \in Chains(members, g)
  <2> HIDE DEF d
  <2>1. QED
    BY <1>1, <1>2, <1>3, <1>4, ChainIs
<1>6. QED
  BY <1>1, <1>5

LEMMA LongerChain ==
    ASSUME NEW members, NEW g, NEW c \in Chains(members, g), NEW m \in NestGroup,
           m \in members[c[Len(c)]], members[m] # NoGroup, m \notin Range(c)
    PROVE  \E d \in Chains(members, g) : /\ Len(d) = Len(c) + 1 /\ d[Len(d)] = m
                                         /\ \A i \in 1..Len(c) : d[i] = c[i]
<1> DEFINE k == Len(c)
           d == [i \in 1..(k + 1) |-> IF i = k + 1 THEN m ELSE c[i]]
<1>1. /\ k \in Nat /\ k # 0 /\ c \in [1..k -> NestGroup] /\ c[1] = g
      /\ \A i, j \in 1..k : c[i] = c[j] => i = j
      /\ \A i \in 1..k : members[c[i]] # NoGroup /\ (i > 1 => c[i] \in members[c[i - 1]])
      /\ \A i \in 1..k : c[i] # m
  BY ChainHas
<1> HIDE DEF k
<1>2. d \in [1..(k + 1) -> NestGroup] /\ d[1] = g /\ d[k + 1] = m /\ \A i \in 1..k : d[i] = c[i]
  BY <1>1
<1>3. \A i, j \in 1..(k + 1) : d[i] = d[j] => i = j
  BY <1>1
<1>4. ASSUME NEW i \in 1..(k + 1) PROVE members[d[i]] # NoGroup /\ (i > 1 => d[i] \in members[d[i - 1]])
  <2>1. CASE i = k + 1
    <3>1. i - 1 = k /\ k \in 1..k
      BY <1>1, <2>1
    <3>2. d[i] = m /\ d[i - 1] = c[k]
      BY <1>2, <2>1, <3>1
    <3>3. QED
      BY <3>2 DEF k
  <2>2. CASE i # k + 1
    <3>1. i \in 1..k /\ (i > 1 => i - 1 \in 1..k)
      BY <1>1, <2>2
    <3>2. d[i] = c[i] /\ (i > 1 => d[i - 1] = c[i - 1])
      BY <1>2, <3>1
    <3>3. QED
      BY <1>1, <3>1, <3>2
  <2>3. QED
    BY <2>1, <2>2
<1>5. k + 1 \in Nat /\ k + 1 # 0 /\ Len(d) = k + 1
  BY <1>1
<1>6. d \in Chains(members, g)
  <2> HIDE DEF d
  <2>1. QED
    BY <1>2, <1>3, <1>4, <1>5, ChainIs
<1>7. QED
  BY <1>2, <1>5, <1>6 DEF k

(* What an expansion finds in a catalog that is right about all that is    *)
(* below a group.                                                          *)
IsRightBelow(members, catalog, G, L, changed, g) ==
    /\ members \in Nestings /\ IsKind(G, L)
    /\ Catalogs(catalog, G, L) /\ Agrees(catalog, members, G, L, changed)
    /\ g \in G \ changed /\ members[g] # NoGroup
    /\ \A c \in Chains(members, g) : Len(c) < MaxLevels /\ members[c[Len(c)]] \cap changed = {}

EndsAt(members, c) == {x \in members[c[Len(c)]] : x \notin NestGroup \/ members[x] = NoGroup \/ x \in Range(c)}

EndOf(c, m) == <<m, IF m \in Range(c) THEN "circular" ELSE "leaf">>

SeenBefore(c, i) == {c[j] : j \in 1..(i - 1)}

ChainCall(c, i) == [name |-> c[i], seen |-> SeenBefore(c, i)]

LEMMA OnChain ==
    ASSUME NEW members, NEW catalog, NEW G, NEW L, NEW changed, NEW g,
           IsRightBelow(members, catalog, G, L, changed, g),
           NEW c \in Chains(members, g), NEW i \in 1..Len(c)
    PROVE  c[i] \in G \ changed /\ c[i] \in DOMAIN catalog /\ catalog[c[i]] = members[c[i]] /\ catalog[c[i]] # Leaf
<1> DEFINE Bad == {k \in 1..Len(c) : c[k] \notin G \ changed}
<1>1. Len(c) \in Nat /\ c \in [1..Len(c) -> NestGroup] /\ c[1] = g
  BY ChainHas
<1>2. Bad = {}
  <2> SUFFICES ASSUME Bad # {} PROVE FALSE
    OBVIOUS
  <2>1. PICK k \in Bad : \A j \in Bad : k <= j
    <3>1. Bad \in SUBSET Nat
      BY <1>1
    <3> HIDE DEF Bad
    <3>2. QED
      BY <3>1, Minimum
  <2>2. k \in 1..Len(c) /\ c[k] \notin G \ changed /\ k # 1
    BY <1>1, <2>1 DEF IsRightBelow
  <2>3. k - 1 \in 1..Len(c) /\ ~(k <= k - 1) /\ k > 1
    BY <1>1, <2>2
  <2>4. c[k - 1] \in G \ changed
    BY <2>1, <2>3
  <2>5. c[k] \in members[c[k - 1]] /\ members[c[k - 1]] # NoGroup /\ c[k] \in NestGroup
    BY <1>1, <2>2, <2>3, ChainHas
  <2>6. members[c[k - 1]] \subseteq L \cup G /\ L \cap NestGroup = {}
    BY <2>4, <2>5, KindIs DEF IsRightBelow
  <2> DEFINE d == [j \in 1..(k - 1) |-> c[j]]
  <2>7. d \in Chains(members, g) /\ Len(d) = k - 1
    BY <2>3, PrefixIsChain
  <2>8. d[k - 1] = c[k - 1]
    BY <1>1, <2>2, <2>3
  <2> HIDE DEF d
  <2>9. members[c[k - 1]] \cap changed = {}
    BY <2>7, <2>8 DEF IsRightBelow
  <2>10. QED
    BY <2>2, <2>5, <2>6, <2>9
<1>3. c[i] \in G \ changed
  BY <1>2
<1>4. members[c[i]] # NoGroup
  BY ChainHas
<1>5. QED
  BY <1>3, <1>4, KindIs DEF IsRightBelow, Agrees

LEMMA SeenIsSmall ==
    ASSUME NEW members, NEW g, NEW c \in Chains(members, g), NEW k \in 0..Len(c)
    PROVE  Cardinality({c[j] : j \in 1..k}) <= k /\ Cardinality({c[j] : j \in 1..k}) \in Nat
<1> DEFINE S == {c[j] : j \in 1..k}
           f == [j \in 1..k |-> c[j]]
<1>1. Len(c) \in Nat /\ k \in Nat
  BY ChainHas
<1>2. f \in Surjection(1..k, S)
  BY DEF Surjection
<1>3. IsFiniteSet(1..k) /\ Cardinality(1..k) = k
  <2>1. 1 \in Int /\ k \in Int
    BY <1>1
  <2>2. IsFiniteSet(1..k) /\ Cardinality(1..k) = IF 1 > k THEN 0 ELSE k - 1 + 1
    BY <2>1, FS_Interval, Zenon
  <2>3. QED
    BY <1>1, <2>2
<1> HIDE DEF S, f
<1>4. IsFiniteSet(S) /\ Cardinality(S) <= k
  BY <1>2, <1>3, FS_Surjection
<1>5. Cardinality(S) \in Nat
  BY <1>4, FS_CardinalityType
<1>6. QED
  BY <1>4, <1>5 DEF S

LEMMA ChainCalls ==
    ASSUME NEW members, NEW catalog, NEW G, NEW L, NEW changed, NEW g,
           IsRightBelow(members, catalog, G, L, changed, g),
           NEW c \in Chains(members, g), NEW i \in 1..Len(c)
    PROVE  /\ ChainCall(c, i) \in NestCall /\ Enters(catalog, ChainCall(c, i))
           /\ catalog[ChainCall(c, i).name] = members[c[i]]
           /\ \A m : CallOf(ChainCall(c, i), m) = [name |-> m, seen |-> {c[j] : j \in 1..i}]
<1>1. /\ Len(c) \in Nat /\ c \in [1..Len(c) -> NestGroup] /\ i \in Nat /\ i - 1 \in 0..Len(c)
      /\ \A j, k \in 1..Len(c) : c[j] = c[k] => j = k
  BY ChainHas
<1>2. \A j \in 1..(i - 1) : j \in 1..Len(c) /\ j # i
  BY <1>1
<1>3. SeenBefore(c, i) \subseteq NestGroup /\ c[i] \notin SeenBefore(c, i)
  BY <1>1, <1>2 DEF SeenBefore
<1>4. c[i] \in NestName
  BY <1>1 DEF NestName
<1>5. Cardinality(SeenBefore(c, i)) <= i - 1 /\ Cardinality(SeenBefore(c, i)) \in Nat
  <2>1. \A k \in 0..Len(c) : Cardinality({c[j] : j \in 1..k}) <= k /\ Cardinality({c[j] : j \in 1..k}) \in Nat
    BY SeenIsSmall
  <2>2. PICK k \in 0..Len(c) : k = i - 1
    BY <1>1
  <2>3. SeenBefore(c, i) = {c[j] : j \in 1..k}
    BY <2>2 DEF SeenBefore
  <2>4. QED
    BY <2>1, <2>2, <2>3
<1>6. MaxLevels \in Nat /\ Len(c) < MaxLevels
  BY PolicyReportsAssumption DEF IsRightBelow
<1>7. ~(Cardinality(SeenBefore(c, i)) >= MaxLevels)
  BY <1>1, <1>5, <1>6
<1>8. c[i] \in DOMAIN catalog /\ catalog[c[i]] = members[c[i]] /\ catalog[c[i]] # Leaf
  BY OnChain
<1>9. SeenBefore(c, i) \cup {c[i]} = {c[j] : j \in 1..i}
  <2>1. \A x : x \in 1..i <=> x \in 1..(i - 1) \/ x = i
    BY <1>1
  <2>2. QED
    BY <2>1 DEF SeenBefore
<1>10. QED
  BY <1>3, <1>4, <1>7, <1>8, <1>9 DEF ChainCall, NestCall, Enters, CallOf

(* A member is where the expansion ends, or the next group of a chain.     *)
LEMMA MemberExpands ==
    ASSUME NEW members, NEW catalog, NEW G, NEW L, NEW changed, NEW g,
           IsRightBelow(members, catalog, G, L, changed, g),
           NEW c \in Chains(members, g), NEW m \in members[c[Len(c)]]
    PROVE  IF m \in EndsAt(members, c)
           THEN Expansions(catalog)[[name |-> m, seen |-> Range(c)]] = {EndOf(c, m)}
           ELSE m \in NestGroup /\ members[m] # NoGroup /\ m \notin Range(c)
<1> DEFINE call == [name |-> m, seen |-> Range(c)]
<1>1. /\ Len(c) \in Nat /\ Len(c) # 0 /\ c \in [1..Len(c) -> NestGroup] /\ Range(c) = {c[j] : j \in 1..Len(c)}
      /\ members[c[Len(c)]] # NoGroup
  BY ChainHas
<1>2. Len(c) \in 1..Len(c)
  BY <1>1
<1>3. c[Len(c)] \in G
  BY <1>2, OnChain
<1>4. m \in L \cup G /\ L \cap NestGroup = {} /\ G \subseteq NestGroup /\ G \cup L \subseteq NestName /\ IsCatalog(catalog)
  BY <1>1, <1>3, KindIs DEF IsRightBelow
<1>5. m \notin changed
  BY DEF IsRightBelow
<1>6. CASE m \in EndsAt(members, c)
  <2>1. call \in NestCall
    BY <1>1, <1>4 DEF NestCall
  <2>2. Cardinality(Range(c)) <= Len(c) /\ Cardinality(Range(c)) \in Nat
    <3>1. \A k \in 0..Len(c) : Cardinality({c[j] : j \in 1..k}) <= k /\ Cardinality({c[j] : j \in 1..k}) \in Nat
      BY SeenIsSmall
    <3>2. Len(c) \in Nat
      BY <1>1
    <3>3. PICK k \in Nat : k = Len(c)
      BY <3>2
    <3>4. k \in 0..Len(c)
      BY <3>3
    <3>5. Range(c) = {c[j] : j \in 1..k}
      BY <1>1, <3>3
    <3>6. QED
      BY <3>1, <3>3, <3>4, <3>5
  <2>3. MaxLevels \in Nat /\ Len(c) < MaxLevels
    BY PolicyReportsAssumption DEF IsRightBelow
  <2>4. ~(Cardinality(call.seen) >= MaxLevels)
    BY <1>1, <2>2, <2>3
  <2>5. m \in Range(c) \/ m \notin DOMAIN catalog \/ catalog[m] = Leaf
    <3>1. CASE m \in L
      BY <3>1 DEF IsRightBelow, Catalogs
    <3>2. CASE m \in G
      <4>1. m \in NestGroup
        BY <1>4, <3>2
      <4>2. m \in Range(c) \/ members[m] = NoGroup
        BY <1>6, <4>1 DEF EndsAt
      <4>3. QED
        BY <1>5, <3>2, <4>2 DEF IsRightBelow, Agrees
    <3>3. QED
      BY <1>4, <3>1, <3>2
  <2>6. Expansions(catalog)[call] = ExpandOnce(Expansions(catalog), catalog, call)
    <3> HIDE DEF call
    <3>1. QED
      BY <1>4, <2>1, ExpansionIs
  <2>7. call.name = m /\ call.seen = Range(c)
    OBVIOUS
  <2> HIDE DEF call
  <2>8. ExpandOnce(Expansions(catalog), catalog, call) = {EndOf(c, m)}
    <3>1. CASE m \in Range(c)
      BY <3>1, <2>4, <2>7 DEF ExpandOnce, EndOf
    <3>2. CASE m \notin Range(c)
      BY <3>2, <2>4, <2>5, <2>7 DEF ExpandOnce, EndOf
    <3>3. QED
      BY <3>1, <3>2
  <2>9. QED
    BY <1>6, <2>6, <2>8 DEF call
<1>7. CASE m \notin EndsAt(members, c)
  BY <1>7 DEF EndsAt
<1>8. QED
  BY <1>6, <1>7

(* Everything at the end of a chain is found ...                           *)
LEMMA ChainIsFollowed ==
    ASSUME NEW members, NEW catalog, NEW G, NEW L, NEW changed, NEW g,
           IsRightBelow(members, catalog, G, L, changed, g),
           NEW c \in Chains(members, g), NEW m \in EndsAt(members, c)
    PROVE  EndOf(c, m) \in _expand_group(g, catalog)
<1> DEFINE f == Expansions(catalog)
           n == Len(c)
           Reached(i) == EndOf(c, m) \in f[ChainCall(c, i)]
           Bad == {k \in 0..(n - 1) : ~Reached(n - k)}
<1>1. /\ n \in Nat /\ n # 0 /\ c \in [1..n -> NestGroup] /\ c[1] = g /\ Range(c) = {c[j] : j \in 1..n}
      /\ IsCatalog(catalog)
  BY ChainHas, KindIs DEF IsRightBelow
<1>2. ASSUME NEW i \in 1..n
      PROVE  f[ChainCall(c, i)] = UNION {f[[name |-> x, seen |-> {c[j] : j \in 1..i}]] : x \in members[c[i]]}
  <2>1. /\ ChainCall(c, i) \in NestCall /\ Enters(catalog, ChainCall(c, i))
        /\ catalog[ChainCall(c, i).name] = members[c[i]]
        /\ \A x : CallOf(ChainCall(c, i), x) = [name |-> x, seen |-> {c[j] : j \in 1..i}]
    BY ChainCalls
  <2>2. f[ChainCall(c, i)] = ExpandOnce(f, catalog, ChainCall(c, i))
    BY <1>1, <2>1, ExpansionIs
  <2> HIDE DEF f
  <2>3. ExpandOnce(f, catalog, ChainCall(c, i)) = UNION {f[CallOf(ChainCall(c, i), x)] : x \in catalog[ChainCall(c, i).name]}
    BY <2>1, OnceIs
  <2>4. QED
    BY <2>1, <2>2, <2>3
<1>3. Reached(n)
  <2>1. n \in 1..n /\ m \in members[c[n]]
    BY <1>1 DEF EndsAt
  <2>2. f[[name |-> m, seen |-> Range(c)]] = {EndOf(c, m)}
    BY <2>1, MemberExpands
  <2>3. f[ChainCall(c, n)] = UNION {f[[name |-> x, seen |-> Range(c)]] : x \in members[c[n]]}
    <3>1. f[ChainCall(c, n)] = UNION {f[[name |-> x, seen |-> {c[j] : j \in 1..n}]] : x \in members[c[n]]}
      BY <1>2, <2>1
    <3>2. QED
      BY <1>1, <3>1
  <2> HIDE DEF f, n
  <2>4. QED
    BY <2>1, <2>2, <2>3
<1>4. ASSUME NEW i \in 1..n, i # n, Reached(i + 1) PROVE Reached(i)
  <2>1. i + 1 \in 1..n /\ i + 1 > 1 /\ i + 1 - 1 = i
    <3>1. n \in Nat /\ i \in 1..n /\ i # n
      BY <1>1, <1>4
    <3> HIDE DEF n
    <3>2. QED
      BY <3>1
  <2>2. c[i + 1] \in members[c[i]]
    BY <2>1, ChainHas
  <2>3. ChainCall(c, i + 1) = [name |-> c[i + 1], seen |-> {c[j] : j \in 1..i}]
    <3>1. SeenBefore(c, i + 1) = {c[j] : j \in 1..(i + 1 - 1)}
      BY DEF SeenBefore
    <3>2. SeenBefore(c, i + 1) = {c[j] : j \in 1..i}
      BY <2>1, <3>1
    <3>3. QED
      BY <3>2 DEF ChainCall
  <2>4. f[ChainCall(c, i)] = UNION {f[[name |-> x, seen |-> {c[j] : j \in 1..i}]] : x \in members[c[i]]}
    BY <1>2
  <2> HIDE DEF f
  <2>5. QED
    BY <1>4, <2>2, <2>3, <2>4
<1>5. Bad = {}
  <2> SUFFICES ASSUME Bad # {} PROVE FALSE
    OBVIOUS
  <2>1. PICK k \in Bad : \A j \in Bad : k <= j
    <3>1. Bad \in SUBSET Nat
      BY <1>1
    <3> HIDE DEF Bad
    <3>2. QED
      BY <3>1, Minimum
  <2>2. k \in 0..(n - 1) /\ ~Reached(n - k)
    BY <2>1
  <2>3. k # 0
    <3>1. k = 0 => n - k = n
      BY <1>1
    <3> HIDE DEF Reached, n
    <3>2. QED
      BY <1>3, <2>2, <3>1
  <2>4. k - 1 \in 0..(n - 1) /\ ~(k <= k - 1) /\ n - (k - 1) = n - k + 1 /\ n - k \in 1..n /\ n - k # n
    <3>1. n \in Nat /\ n # 0 /\ k \in 0..(n - 1) /\ k # 0
      BY <1>1, <2>2, <2>3
    <3> HIDE DEF n
    <3>2. QED
      BY <3>1
  <2>5. Reached(n - k + 1)
    <3>1. k - 1 \notin Bad
      <4> HIDE DEF Bad
      <4>1. QED
        BY <2>1, <2>4
    <3> HIDE DEF Reached, n
    <3>2. Reached(n - (k - 1))
      BY <3>1, <2>4
    <3>3. QED
      BY <3>2, <2>4
  <2>6. \A i \in 1..n : i # n /\ Reached(i + 1) => Reached(i)
    BY <1>4
  <2> HIDE DEF Reached, n, Bad
  <2>7. QED
    BY <2>2, <2>4, <2>5, <2>6
<1>6. Reached(1)
  <2>1. n - 1 \in 0..(n - 1) /\ n - (n - 1) = 1
    BY <1>1
  <2>2. Reached(n - (n - 1))
    <3> HIDE DEF Reached, n
    <3>1. QED
      BY <1>5, <2>1
  <2> HIDE DEF Reached, n
  <2>3. QED
    BY <2>1, <2>2
<1>7. ChainCall(c, 1) = [name |-> g, seen |-> {}]
  <2>1. 1..(1 - 1) = {}
    OBVIOUS
  <2>2. SeenBefore(c, 1) = {}
    BY <2>1 DEF SeenBefore
  <2>3. QED
    BY <1>1, <2>2 DEF ChainCall
<1> HIDE DEF f
<1>8. QED
  BY <1>6, <1>7 DEF _expand_group, f

(* ... and everything that is found is at the end of one.                  *)
LEMMA FoundIsBelow ==
    ASSUME NEW members, NEW catalog, NEW G, NEW L, NEW changed, NEW g,
           IsRightBelow(members, catalog, G, L, changed, g)
    PROVE  _expand_group(g, catalog) \subseteq UNION {{EndOf(c, m) : m \in EndsAt(members, c)} : c \in Chains(members, g)}
<1> DEFINE f == Expansions(catalog)
           all == UNION {{EndOf(c, m) : m \in EndsAt(members, c)} : c \in Chains(members, g)}
           At(c) == f[ChainCall(c, Len(c))]
           most == Cardinality(NestGroup)
           Left(c) == most - Len(c)
           Wrong == {c \in Chains(members, g) : ~(At(c) \subseteq all)}
           Lefts == {Left(c) : c \in Wrong}
<1>1. most \in Nat
  BY FS_CardinalityType, PolicyReportsAssumption
<1>2. \A c \in Chains(members, g) : Len(c) \in Nat /\ Len(c) # 0 /\ Len(c) <= most /\ Len(c) \in 1..Len(c)
  BY ChainHas
<1>3. ASSUME NEW c \in Chains(members, g)
      PROVE  At(c) = UNION {f[[name |-> x, seen |-> Range(c)]] : x \in members[c[Len(c)]]}
  <2> DEFINE call == ChainCall(c, Len(c))
  <2>1. /\ call \in NestCall /\ Enters(catalog, call) /\ catalog[call.name] = members[c[Len(c)]]
        /\ \A x : CallOf(call, x) = [name |-> x, seen |-> {c[j] : j \in 1..Len(c)}]
    BY <1>2, ChainCalls
  <2>2. IsCatalog(catalog) /\ Range(c) = {c[j] : j \in 1..Len(c)}
    BY ChainHas, KindIs DEF IsRightBelow
  <2> HIDE DEF call
  <2>3. f[call] = ExpandOnce(f, catalog, call)
    BY <2>1, <2>2, ExpansionIs
  <2> HIDE DEF f
  <2>4. ExpandOnce(f, catalog, call) = UNION {f[CallOf(call, x)] : x \in catalog[call.name]}
    BY <2>1, OnceIs
  <2>5. f[call] = UNION {f[[name |-> x, seen |-> Range(c)]] : x \in members[c[Len(c)]]}
    BY <2>1, <2>2, <2>3, <2>4
  <2>6. QED
    BY <2>5 DEF call
<1>4. Wrong = {}
  <2> SUFFICES ASSUME Wrong # {} PROVE FALSE
    OBVIOUS
  <2>1. Lefts \in SUBSET Nat /\ Lefts # {}
    <3>1. \A c \in Wrong : Left(c) \in Nat
      BY <1>1, <1>2
    <3> HIDE DEF Wrong, Left
    <3>2. QED
      BY <3>1
  <2>2. PICK k \in Lefts : \A j \in Lefts : k <= j
    <3> HIDE DEF Lefts
    <3>1. QED
      BY <2>1, Minimum
  <2>3. PICK c \in Wrong : k = Left(c)
    BY <2>2
  <2>4. c \in Chains(members, g) /\ ~(At(c) \subseteq all)
    BY <2>3
  <2>5. PICK x \in members[c[Len(c)]] : ~(f[[name |-> x, seen |-> Range(c)]] \subseteq all)
    <3>1. At(c) = UNION {f[[name |-> x, seen |-> Range(c)]] : x \in members[c[Len(c)]]}
      BY <1>3, <2>4
    <3> HIDE DEF At, all, f
    <3>2. QED
      BY <2>4, <3>1
  <2>6. x \notin EndsAt(members, c)
    <3> SUFFICES ASSUME x \in EndsAt(members, c) PROVE FALSE
      OBVIOUS
    <3>1. f[[name |-> x, seen |-> Range(c)]] = {EndOf(c, x)}
      BY <2>4, MemberExpands
    <3>2. EndOf(c, x) \in all
      BY <2>4
    <3> HIDE DEF f, all
    <3>3. QED
      BY <2>5, <3>1, <3>2
  <2>7. x \in NestGroup /\ members[x] # NoGroup /\ x \notin Range(c)
    BY <2>4, <2>6, MemberExpands
  <2>8. PICK d \in Chains(members, g) : /\ Len(d) = Len(c) + 1 /\ d[Len(d)] = x
                                        /\ \A i \in 1..Len(c) : d[i] = c[i]
    BY <2>4, <2>7, LongerChain
  <2>9. ChainCall(d, Len(d)) = [name |-> x, seen |-> Range(c)]
    <3>1. Len(d) - 1 = Len(c) /\ Range(c) = {c[i] : i \in 1..Len(c)}
      BY <1>2, <2>4, <2>8, ChainHas
    <3>2. SeenBefore(d, Len(d)) = {d[i] : i \in 1..Len(c)}
      BY <3>1 DEF SeenBefore
    <3>3. {d[i] : i \in 1..Len(c)} = {c[i] : i \in 1..Len(c)}
      BY <2>8
    <3>4. QED
      BY <2>8, <3>1, <3>2, <3>3 DEF ChainCall
  <2>10. d \in Wrong
    <3>1. At(d) = f[[name |-> x, seen |-> Range(c)]]
      BY <2>9
    <3> HIDE DEF At, all, f
    <3>2. QED
      BY <2>5, <2>8, <3>1
  <2>11. Left(d) \in Lefts /\ ~(Left(c) <= Left(d))
    <3>1. Left(d) \in Lefts
      <4> HIDE DEF Left, Wrong
      <4>1. QED
        BY <2>10
    <3>2. QED
      BY <1>1, <1>2, <2>4, <2>8, <3>1
  <2> HIDE DEF Lefts, Left, Wrong
  <2>12. QED
    BY <2>2, <2>3, <2>11
<1>5. PICK n \in Nat : n = 1
  OBVIOUS
<1> DEFINE one == [i \in 1..n |-> g]
<1>6. one \in Chains(members, g) /\ ChainCall(one, Len(one)) = [name |-> g, seen |-> {}]
  <2>1. g \in NestGroup /\ members[g] # NoGroup
    BY KindIs DEF IsRightBelow
  <2>2. n # 0 /\ one \in [1..n -> NestGroup] /\ one[1] = g /\ Len(one) = n
    BY <1>5, <2>1
  <2>3. /\ \A i, j \in 1..n : one[i] = one[j] => i = j
        /\ \A i \in 1..n : members[one[i]] # NoGroup /\ (i > 1 => one[i] \in members[one[i - 1]])
    BY <1>5, <2>1
  <2>4. SeenBefore(one, n) = {}
    <3>1. 1..(n - 1) = {}
      BY <1>5
    <3>2. QED
      BY <3>1 DEF SeenBefore
  <2> HIDE DEF one
  <2>5. one \in Chains(members, g)
    BY <2>2, <2>3, ChainIs
  <2>6. QED
    BY <1>5, <2>2, <2>4, <2>5 DEF ChainCall
<1>7. At(one) \subseteq all
  <2>1. one \in Chains(members, g)
    BY <1>6
  <2> HIDE DEF one, At, all
  <2>2. QED
    BY <1>4, <2>1
<1>8. At(one) = _expand_group(g, catalog)
  BY <1>6 DEF _expand_group
<1> HIDE DEF At, all
<1>9. QED
  BY <1>7, <1>8 DEF all

LEMMA ExpansionIsBelow ==
    ASSUME NEW members, NEW catalog, NEW G, NEW L, NEW changed, NEW g,
           IsRightBelow(members, catalog, G, L, changed, g)
    PROVE  _expand_group(g, catalog) = UNION {{EndOf(c, m) : m \in EndsAt(members, c)} : c \in Chains(members, g)}
<1>1. \A c \in Chains(members, g) : \A m \in EndsAt(members, c) : EndOf(c, m) \in _expand_group(g, catalog)
  BY ChainIsFollowed
<1>2. QED
  BY <1>1, FoundIsBelow

(* The inductive invariant: the catalogs are right about the groups that   *)
(* were not edited since, the counts of the devices lie between what they  *)
(* were at the begin and now, and a sheet is made from such data.          *)
IsPull(p) ==
    p = [kind |-> p.kind, live |-> p.live, todo |-> p.todo, state |-> p.state, addr |-> p.addr, svc |-> p.svc,
         whole |-> p.whole, rules |-> p.rules, cached |-> p.cached, map |-> p.map, answered |-> p.answered]

ReportShape ==
    /\ nest \in Nestings /\ table \subseteq RowChoice
    /\ hits \in [ScopeDevice -> [RowId -> Nat]] /\ counted \in [ScopeDevice -> [RowId -> Nat]]
    /\ \A d \in ScopeDevice, id \in RowId : counted[d][id] <= hits[d][id]
    /\ IsPull(pull) /\ pull.rules \subseteq RowChoice /\ pull.todo \in Seq(ScopeDevice)
    /\ DOMAIN pull.map \subseteq RowId /\ \A id \in RowId : id \in DOMAIN pull.map => pull.map[id] \in Nat

CatalogsAgree(addr, svc, whole) ==
    /\ Catalogs(addr, AddrGroup, AddrLeaf) /\ Catalogs(svc, SvcGroup, SvcLeaf)
    /\ "addr" \in whole => Agrees(addr, nest, AddrGroup, AddrLeaf, regrouped)
    /\ "svc" \in whole => Agrees(svc, nest, SvcGroup, SvcLeaf, regrouped)

WasCounted(id, n) == \E d \in ScopeDevice : counted[d][id] <= n /\ n <= hits[d][id]

PullIsRight ==
    /\ pull.kind = "export" => /\ CatalogsAgree(pull.addr, pull.svc, pull.whole)
                               /\ pull.whole \subseteq {"addr", "svc"}
                               /\ \A id \in DOMAIN pull.map : WasCounted(id, pull.map[id])
    /\ pull.kind = "unhit" => \A d \in pull.answered \cap ScopeDevice, id \in RowId :
                                id \in DOMAIN pull.map /\ counted[d][id] <= pull.map[id]

SheetIsMade ==
    sheet.kind = "export" =>
      /\ sheet.whole \subseteq {"addr", "svc"}
      /\ \A row \in sheet.rows : row.rule \in RowChoice
      /\ \E rs, addr, svc : /\ \A row \in sheet.rows : row.rule \in rs
                            /\ CatalogsAgree(addr, svc, sheet.whole)
                            /\ sheet.groups = _collect_groups_from_rules(rs, addr, svc)
      /\ \A row \in sheet.rows :
           sheet.live /\ row.hits # NoCount => row.hits \in Nat /\ WasCounted(row.rule.id, row.hits)

ReportsIInv == ReportShape /\ PullIsRight /\ SheetIsMade /\ UnhitIsUnhit

LEMMA ReportsInitial == PolicyReportsInit => ReportsIInv
<1> SUFFICES ASSUME PolicyReportsInit PROVE ReportsIInv
  OBVIOUS
<1>1. nest \in Nestings
  BY PolicyReportsAssumption DEF PolicyReportsInit, Nestings, NestSets
<1>2. IsPull(pull) /\ pull.rules = {} /\ pull.todo = <<>> /\ pull.kind = "none" /\ DOMAIN pull.map = {}
  BY DEF PolicyReportsInit, IsPull, NoPull
<1>3. hits \in [ScopeDevice -> [RowId -> Nat]] /\ counted = hits
  BY DEF PolicyReportsInit
<1>4. table = {} /\ sheet.kind = "none"
  BY DEF PolicyReportsInit
<1>5. QED
  BY <1>1, <1>2, <1>3, <1>4 DEF ReportsIInv, ReportShape, PullIsRight, SheetIsMade, UnhitIsUnhit

LEMMA CatalogIsBuilt ==
    ASSUME nest \in Nestings, NEW had \in BOOLEAN
    PROVE  /\ Catalogs(_build_addr_catalog(had), AddrGroup, AddrLeaf)
           /\ Catalogs(_build_svc_catalog(had), SvcGroup, SvcLeaf)
           /\ had => /\ Agrees(_build_addr_catalog(had), nest, AddrGroup, AddrLeaf, {})
                      /\ Agrees(_build_svc_catalog(had), nest, SvcGroup, SvcLeaf, {})
<1>1. IsKind(AddrGroup, AddrLeaf) /\ IsKind(SvcGroup, SvcLeaf)
  BY DEF IsKind
<1>2. AddrLeaf \cap AddrGroup = {} /\ SvcLeaf \cap SvcGroup = {}
  BY <1>1, KindIs
<1>3. /\ \A g \in AddrGroup : nest[g] # Leaf /\ (nest[g] # NoGroup => nest[g] \subseteq AddrLeaf \cup AddrGroup)
      /\ \A g \in SvcGroup : nest[g] # Leaf /\ (nest[g] # NoGroup => nest[g] \subseteq SvcLeaf \cup SvcGroup)
  BY <1>1, KindIs
<1>4. /\ Catalogs(_build_addr_catalog(had), AddrGroup, AddrLeaf)
      /\ had => Agrees(_build_addr_catalog(had), nest, AddrGroup, AddrLeaf, {})
  BY <1>2, <1>3 DEF _build_addr_catalog, Catalogs, Agrees
<1>5. /\ Catalogs(_build_svc_catalog(had), SvcGroup, SvcLeaf)
      /\ had => Agrees(_build_svc_catalog(had), nest, SvcGroup, SvcLeaf, {})
  BY <1>2, <1>3 DEF _build_svc_catalog, Catalogs, Agrees
<1>6. QED
  BY <1>4, <1>5

(* Edits and traffic.                                                      *)
LEMMA EditedGroupKeeps ==
    ASSUME ReportsIInv, NEW g \in NestGroup, NEW members \in NestChoice[g], EditGroup(g, members)
    PROVE  ReportsIInv'
<1>1. /\ nest' = [nest EXCEPT ![g] = members] /\ regrouped' = regrouped \cup {g}
      /\ table' = table /\ hits' = hits /\ pull' = pull /\ sheet' = sheet /\ counted' = counted
  BY DEF EditGroup, Outside
<1>2. nest \in Nestings
  BY DEF ReportsIInv, ReportShape
<1>3. nest' \in Nestings
  <2>1. members \in NestSets
    BY DEF NestSets
  <2>2. nest' \in [NestGroup -> NestSets]
    BY <1>1, <1>2, <2>1 DEF Nestings
  <2>3. \A h \in NestGroup : nest'[h] \in NestChoice[h] \cup {FirstNest[h]}
    BY <1>1, <1>2 DEF Nestings
  <2>4. QED
    BY <2>2, <2>3 DEF Nestings
<1>4. \A catalog, G, L : Agrees(catalog, nest, G, L, regrouped) => Agrees(catalog, nest, G, L, regrouped)'
  <2>1. \A h : h # g => nest'[h] = nest[h]
    BY <1>1, <1>2 DEF Nestings
  <2>2. QED
    BY <1>1, <2>1 DEF Agrees
<1>5. \A addr, svc, whole : CatalogsAgree(addr, svc, whole) => CatalogsAgree(addr, svc, whole)'
  BY <1>4 DEF CatalogsAgree
<1>6. QED
  BY <1>1, <1>3, <1>5 DEF ReportsIInv, ReportShape, PullIsRight, SheetIsMade, UnhitIsUnhit, WasCounted

LEMMA EditedRuleKeeps ==
    ASSUME ReportsIInv, NEW r \in RowChoice, EditRule(r)
    PROVE  ReportsIInv'
<1>1. /\ table' \subseteq RowChoice
      /\ nest' = nest /\ regrouped' = regrouped /\ hits' = hits
      /\ pull' = pull /\ sheet' = sheet /\ counted' = counted
  BY DEF EditRule, Outside, ReportsIInv, ReportShape
<1>2. \A addr, svc, whole : CatalogsAgree(addr, svc, whole) => CatalogsAgree(addr, svc, whole)'
  BY <1>1 DEF CatalogsAgree, Agrees
<1>3. QED
  BY <1>1, <1>2 DEF ReportsIInv, ReportShape, PullIsRight, SheetIsMade, UnhitIsUnhit, WasCounted

LEMMA TrafficKeeps ==
    ASSUME ReportsIInv, NEW d \in ScopeDevice, NEW id \in RowId, Traffic(d, id)
    PROVE  ReportsIInv'
<1>1. /\ hits' = [hits EXCEPT ![d][id] = @ + 1]
      /\ nest' = nest /\ regrouped' = regrouped /\ table' = table
      /\ pull' = pull /\ sheet' = sheet /\ counted' = counted
  BY DEF Traffic, Outside
<1>2. hits \in [ScopeDevice -> [RowId -> Nat]] /\ counted \in [ScopeDevice -> [RowId -> Nat]]
  BY DEF ReportsIInv, ReportShape
<1>3. hits' \in [ScopeDevice -> [RowId -> Nat]]
  BY <1>1, <1>2
<1>4. \A e \in ScopeDevice, i \in RowId : hits[e][i] <= hits'[e][i] /\ hits[e][i] \in Nat /\ hits'[e][i] \in Nat
  BY <1>1, <1>2
<1>5. \A e \in ScopeDevice, i \in RowId : counted[e][i] <= hits'[e][i]
  BY <1>2, <1>4 DEF ReportsIInv, ReportShape
<1>6. \A i \in RowId, n \in Nat : WasCounted(i, n) => WasCounted(i, n)'
  BY <1>1, <1>4 DEF WasCounted
<1>7. \A addr, svc, whole : CatalogsAgree(addr, svc, whole) => CatalogsAgree(addr, svc, whole)'
  BY <1>1 DEF CatalogsAgree, Agrees
<1>8. ReportShape'
  BY <1>1, <1>3, <1>5 DEF ReportsIInv, ReportShape
<1>9. PullIsRight'
  <2>1. PullIsRight /\ DOMAIN pull.map \subseteq RowId /\ \A i \in RowId : i \in DOMAIN pull.map => pull.map[i] \in Nat
    BY DEF ReportsIInv, ReportShape
  <2>2. pull.kind = "export" => \A i \in RowId, n \in Nat : i \in DOMAIN pull.map /\ n = pull.map[i] => WasCounted(i, n)'
    BY <1>6, <2>1 DEF PullIsRight
  <2>3. QED
    BY <1>1, <1>7, <2>1, <2>2 DEF PullIsRight
<1>10. SheetIsMade'
  <2>1. SheetIsMade
    BY DEF ReportsIInv
  <2>2. ASSUME sheet.kind = "export", NEW row \in sheet.rows, sheet.live, row.hits # NoCount
        PROVE  row.hits \in Nat /\ WasCounted(row.rule.id, row.hits)'
    <3>1. row.rule.id \in RowId /\ row.hits \in Nat /\ WasCounted(row.rule.id, row.hits)
      BY <2>1, <2>2 DEF SheetIsMade, RowId
    <3>2. QED
      BY <1>6, <3>1
  <2>3. QED
    BY <1>1, <1>7, <2>1, <2>2 DEF SheetIsMade
<1>11. UnhitIsUnhit'
  BY <1>1 DEF ReportsIInv, UnhitIsUnhit
<1>12. QED
  BY <1>8, <1>9, <1>10, <1>11 DEF ReportsIInv

LEMMA OthersKeep ==
    ASSUME ReportsIInv, SyncCounts \/ UNCHANGED policyReportVars
    PROVE  ReportsIInv'
<1>1. /\ hits' = hits /\ nest' = nest /\ regrouped' = regrouped /\ table' = table
      /\ pull' = pull /\ sheet' = sheet /\ counted' = counted
  BY DEF SyncCounts, policyReportVars
<1>2. \A addr, svc, whole : CatalogsAgree(addr, svc, whole) => CatalogsAgree(addr, svc, whole)'
  BY <1>1 DEF CatalogsAgree, Agrees
<1>3. QED
  BY <1>1, <1>2 DEF ReportsIInv, ReportShape, PullIsRight, SheetIsMade, UnhitIsUnhit, WasCounted

(* A report begins.                                                        *)
LEMMA ReportBegins ==
    ASSUME ReportsIInv, NEW run, Pull(run), IsPull(run), run.rules = {}, run.todo \in Seq(ScopeDevice),
           run.map = [id \in {} |-> 0], run.answered = {},
           run.kind = "export" =>
             /\ run.whole \subseteq {"addr", "svc"}
             /\ Catalogs(run.addr, AddrGroup, AddrLeaf) /\ Catalogs(run.svc, SvcGroup, SvcLeaf)
             /\ "addr" \in run.whole => Agrees(run.addr, nest, AddrGroup, AddrLeaf, {})
             /\ "svc" \in run.whole => Agrees(run.svc, nest, SvcGroup, SvcLeaf, {})
    PROVE  ReportsIInv'
<1>1. /\ pull' = run /\ sheet' = [kind |-> "none"] /\ counted' = hits /\ regrouped' = {}
      /\ nest' = nest /\ table' = table /\ hits' = hits
  BY DEF Pull
<1>2. ReportShape'
  <2>1. \A d \in ScopeDevice, id \in RowId : hits[d][id] <= hits[d][id]
    BY DEF ReportsIInv, ReportShape
  <2>2. DOMAIN run.map = {}
    OBVIOUS
  <2>3. QED
    BY <1>1, <2>1, <2>2 DEF ReportsIInv, ReportShape
<1>3. run.kind = "export" => CatalogsAgree(run.addr, run.svc, run.whole)'
  BY <1>1 DEF CatalogsAgree
<1>4. PullIsRight'
  BY <1>1, <1>3 DEF PullIsRight
<1>5. sheet'.kind = "none"
  BY <1>1
<1>6. QED
  BY <1>2, <1>4, <1>5 DEF ReportsIInv, SheetIsMade, UnhitIsUnhit

LEMMA ScopesAreDevices == Scope \in Seq(ScopeDevice) /\ HygieneScope \in Seq(ScopeDevice)
<1>1. Scope \in Seq(ScopeDevice)
  BY PolicyReportsAssumption
<1>2. CASE ScopeLimit < Len(Scope)
  <2>1. HygieneScope = SubSeq(Scope, 1, ScopeLimit)
    BY <1>2 DEF HygieneScope
  <2>2. ScopeLimit \in Nat /\ Len(Scope) \in Nat /\ \A i \in 1..Len(Scope) : Scope[i] \in ScopeDevice
    BY <1>1, PolicyReportsAssumption
  <2>3. SubSeq(Scope, 1, ScopeLimit) = [i \in 1..ScopeLimit |-> Scope[i]]
    BY <1>1, <1>2, <2>2
  <2>4. \A i \in 1..ScopeLimit : Scope[i] \in ScopeDevice
    BY <1>2, <2>2
  <2>5. [i \in 1..ScopeLimit |-> Scope[i]] \in Seq(ScopeDevice)
    BY <2>2, <2>4
  <2>6. QED
    BY <1>1, <2>1, <2>3, <2>5
<1>3. CASE ~(ScopeLimit < Len(Scope))
  <2>1. HygieneScope = SubSeq(Scope, 1, Len(Scope))
    BY <1>3 DEF HygieneScope
  <2>2. HygieneScope \in Seq(ScopeDevice)
    BY <1>1, <2>1
  <2>3. QED
    BY <1>1, <2>2
<1>4. QED
  BY <1>2, <1>3

LEMMA ExportBegins ==
    ASSUME ReportsIInv, NEW live \in BOOLEAN, NEW addrRead \in BOOLEAN, NEW svcRead \in BOOLEAN,
           bulk_policy_adom(live, addrRead, svcRead)
    PROVE  ReportsIInv'
<1> DEFINE addr == _build_addr_catalog(addrRead)
           svc == _build_svc_catalog(svcRead)
           whole == {f \in {"addr", "svc"} : IF f = "addr" THEN addrRead ELSE svcRead}
           todo == IF live THEN Scope ELSE <<>>
           run == [NoPull EXCEPT !.kind = "export", !.live = live, !.todo = todo,
                                 !.addr = addr, !.svc = svc, !.whole = whole]
<1>1. nest \in Nestings
  BY DEF ReportsIInv, ReportShape
<1>2. /\ Catalogs(addr, AddrGroup, AddrLeaf) /\ Catalogs(svc, SvcGroup, SvcLeaf)
      /\ addrRead => Agrees(addr, nest, AddrGroup, AddrLeaf, {})
      /\ svcRead => Agrees(svc, nest, SvcGroup, SvcLeaf, {})
  <2>1. /\ Catalogs(addr, AddrGroup, AddrLeaf)
        /\ addrRead => Agrees(addr, nest, AddrGroup, AddrLeaf, {})
    BY <1>1, CatalogIsBuilt
  <2>2. /\ Catalogs(svc, SvcGroup, SvcLeaf)
        /\ svcRead => Agrees(svc, nest, SvcGroup, SvcLeaf, {})
    BY <1>1, CatalogIsBuilt
  <2>3. QED
    BY <2>1, <2>2
<1>3. todo \in Seq(ScopeDevice)
  BY ScopesAreDevices
<1>4. whole \subseteq {"addr", "svc"} /\ ("addr" \in whole => addrRead) /\ ("svc" \in whole => svcRead)
  OBVIOUS
<1>5. Pull(run)
  BY DEF bulk_policy_adom
<1> HIDE DEF addr, svc, whole, todo
<1>6. /\ run.kind = "export" /\ run.rules = {} /\ run.todo = todo /\ run.map = [id \in {} |-> 0] /\ run.answered = {}
      /\ run.addr = addr /\ run.svc = svc /\ run.whole = whole
  BY DEF NoPull
<1>7. IsPull(NoPull)
  BY DEF NoPull, IsPull
<1>8. IsPull(run)
  <2>1. PICK p : p = NoPull
    OBVIOUS
  <2>2. PICK q : q = [p EXCEPT !.kind = "export", !.live = live, !.todo = todo, !.addr = addr, !.svc = svc, !.whole = whole]
    OBVIOUS
  <2>3. IsPull(p)
    BY <1>7, <2>1
  <2>4. IsPull(q)
    BY <2>2, <2>3 DEF IsPull
  <2>5. q = run
    BY <2>1, <2>2, Zenon
  <2> HIDE DEF run
  <2>6. QED
    BY <2>4, <2>5
<1> HIDE DEF run
<1>9. QED
  BY <1>2, <1>3, <1>4, <1>5, <1>6, <1>8, ReportBegins

LEMMA HygieneBegins ==
    ASSUME ReportsIInv, NEW ok \in BOOLEAN, hygiene_run_hits(ok)
    PROVE  ReportsIInv'
<1> DEFINE todo == IF ok THEN HygieneScope ELSE <<>>
           run == [NoPull EXCEPT !.kind = "unhit", !.todo = todo]
<1>1. todo \in Seq(ScopeDevice)
  BY ScopesAreDevices
<1>2. Pull(run)
  BY DEF hygiene_run_hits
<1> HIDE DEF todo
<1>3. run.kind = "unhit" /\ run.rules = {} /\ run.todo = todo /\ run.map = [id \in {} |-> 0] /\ run.answered = {}
  BY DEF NoPull
<1>4. IsPull(NoPull)
  BY DEF NoPull, IsPull
<1>5. IsPull(run)
  <2>1. PICK p : p = NoPull
    OBVIOUS
  <2>2. PICK q : q = [p EXCEPT !.kind = "unhit", !.todo = todo]
    OBVIOUS
  <2>3. IsPull(p)
    BY <1>4, <2>1
  <2>4. IsPull(q)
    BY <2>2, <2>3 DEF IsPull
  <2>5. q = run
    BY <2>1, <2>2, Zenon
  <2> HIDE DEF run
  <2>6. QED
    BY <2>4, <2>5
<1> HIDE DEF run
<1>6. QED
  BY <1>1, <1>2, <1>3, <1>5, ReportBegins

LEMMA RulesRead ==
    ASSUME ReportsIInv, get_policies
    PROVE  ReportsIInv'
<1>1. /\ pull' = [pull EXCEPT !.state = "hits", !.rules = table, !.cached = synced]
      /\ sheet' = sheet /\ counted' = counted /\ regrouped' = regrouped
      /\ nest' = nest /\ table' = table /\ hits' = hits
  BY DEF get_policies
<1>2. IsPull(pull) /\ table \subseteq RowChoice
  BY DEF ReportsIInv, ReportShape
<1>3. /\ IsPull(pull') /\ pull'.rules = table /\ pull'.kind = pull.kind /\ pull'.addr = pull.addr
      /\ pull'.svc = pull.svc /\ pull'.whole = pull.whole /\ pull'.map = pull.map
      /\ pull'.answered = pull.answered /\ pull'.todo = pull.todo
  BY <1>1, <1>2 DEF IsPull
<1>4. \A addr, svc, whole : CatalogsAgree(addr, svc, whole) => CatalogsAgree(addr, svc, whole)'
  BY <1>1 DEF CatalogsAgree, Agrees
<1>5. ReportShape' /\ UnhitIsUnhit'
  BY <1>1, <1>2, <1>3 DEF ReportsIInv, ReportShape, UnhitIsUnhit
<1>6. PullIsRight' /\ SheetIsMade'
  BY <1>1, <1>3, <1>4 DEF ReportsIInv, PullIsRight, SheetIsMade, WasCounted
<1>7. QED
  BY <1>5, <1>6 DEF ReportsIInv

LEMMA DeviceAsked ==
    ASSUME ReportsIInv, NEW ok \in BOOLEAN, get_live_policy_hits(ok)
    PROVE  ReportsIInv'
<1>1. PICK d : d = Head(pull.todo)
  OBVIOUS
<1>2. PICK new : new = IF ok THEN hits[d] ELSE [id \in {} |-> 0]
  OBVIOUS
<1>3. PICK map : map = Merge(pull.map, new)
  OBVIOUS
<1>4. PICK asked : asked = IF ok THEN pull.answered \cup {d} ELSE pull.answered
  OBVIOUS
<1>5. pull' = [pull EXCEPT !.todo = Tail(pull.todo), !.map = map, !.answered = asked]
  BY <1>1, <1>2, <1>3, <1>4 DEF get_live_policy_hits
<1>6. /\ sheet' = sheet /\ counted' = counted /\ regrouped' = regrouped
      /\ nest' = nest /\ table' = table /\ hits' = hits /\ pull.todo # <<>>
  BY DEF get_live_policy_hits
<1>7. /\ IsPull(pull) /\ pull.todo \in Seq(ScopeDevice) /\ hits \in [ScopeDevice -> [RowId -> Nat]]
      /\ counted \in [ScopeDevice -> [RowId -> Nat]]
      /\ \A e \in ScopeDevice, id \in RowId : counted[e][id] <= hits[e][id]
      /\ DOMAIN pull.map \subseteq RowId /\ \A id \in RowId : id \in DOMAIN pull.map => pull.map[id] \in Nat
  BY DEF ReportsIInv, ReportShape
<1>8. d \in ScopeDevice /\ Tail(pull.todo) \in Seq(ScopeDevice)
  BY <1>1, <1>6, <1>7
<1>9. /\ DOMAIN new \subseteq RowId /\ \A id \in RowId : id \in DOMAIN new => new[id] = hits[d][id] /\ new[id] \in Nat
      /\ ok => DOMAIN new = RowId
  BY <1>2, <1>7, <1>8
<1>10. /\ IsPull(pull') /\ pull'.rules = pull.rules /\ pull'.kind = pull.kind /\ pull'.addr = pull.addr
       /\ pull'.svc = pull.svc /\ pull'.whole = pull.whole /\ pull'.map = map
       /\ pull'.answered = asked /\ pull'.todo = Tail(pull.todo)
  BY <1>5, <1>7 DEF IsPull
<1>11. \A addr, svc, whole : CatalogsAgree(addr, svc, whole) => CatalogsAgree(addr, svc, whole)'
  BY <1>6 DEF CatalogsAgree, Agrees
<1>12. /\ DOMAIN map = DOMAIN pull.map \cup DOMAIN new
       /\ \A id \in DOMAIN map : map[id] =
            IF pull.kind = "export" THEN IF id \in DOMAIN new THEN new[id] ELSE pull.map[id]
            ELSE (IF id \in DOMAIN pull.map THEN pull.map[id] ELSE 0) + (IF id \in DOMAIN new THEN new[id] ELSE 0)
  <2>1. CASE pull.kind = "export"
    BY <1>3, <2>1 DEF Merge, Updated
  <2>2. CASE pull.kind # "export"
    BY <1>3, <2>2 DEF Merge
  <2>3. QED
    BY <2>1, <2>2
<1>13. DOMAIN map \subseteq RowId /\ \A id \in RowId : id \in DOMAIN map => map[id] \in Nat
  <2>1. DOMAIN map \subseteq RowId
    BY <1>7, <1>9, <1>12
  <2>2. ASSUME NEW id \in RowId, id \in DOMAIN map PROVE map[id] \in Nat
    <3>1. /\ id \in DOMAIN pull.map => pull.map[id] \in Nat
          /\ id \in DOMAIN new => new[id] \in Nat
          /\ id \in DOMAIN pull.map \/ id \in DOMAIN new
      BY <1>7, <1>9, <1>12, <2>2
    <3>2. CASE pull.kind = "export"
      BY <1>12, <2>2, <3>1, <3>2
    <3>3. CASE pull.kind # "export"
      BY <1>12, <2>2, <3>1, <3>3
    <3>4. QED
      BY <3>2, <3>3
  <2>3. QED
    BY <2>1, <2>2
<1>14. ReportShape'
  BY <1>6, <1>8, <1>10, <1>13 DEF ReportsIInv, ReportShape
<1>15. PullIsRight'
  <2>1. CASE pull.kind = "export"
    <3>1. ASSUME NEW id \in DOMAIN map PROVE \E e \in ScopeDevice : counted[e][id] <= map[id] /\ map[id] <= hits[e][id]
      <4>1. CASE id \in DOMAIN new
        <5>1. id \in RowId /\ map[id] = hits[d][id] /\ map[id] \in Nat
          BY <1>9, <1>12, <2>1, <4>1
        <5>2. counted[d][id] <= map[id] /\ map[id] <= hits[d][id]
          BY <1>7, <1>8, <5>1
        <5>3. QED
          BY <1>8, <5>2
      <4>2. CASE id \notin DOMAIN new
        <5>1. id \in DOMAIN pull.map /\ map[id] = pull.map[id]
          BY <1>12, <2>1, <3>1, <4>2
        <5>2. WasCounted(id, pull.map[id])
          BY <2>1, <5>1 DEF ReportsIInv, PullIsRight
        <5>3. QED
          BY <5>1, <5>2 DEF WasCounted
      <4>3. QED
        BY <4>1, <4>2
    <3>2. CatalogsAgree(pull.addr, pull.svc, pull.whole) /\ pull.whole \subseteq {"addr", "svc"}
      BY <2>1 DEF ReportsIInv, PullIsRight
    <3>3. \A id, n : (\E e \in ScopeDevice : counted[e][id] <= n /\ n <= hits[e][id]) => WasCounted(id, n)'
      BY <1>6 DEF WasCounted
    <3>4. QED
      BY <1>10, <1>11, <2>1, <3>1, <3>2, <3>3 DEF PullIsRight
  <2>2. CASE pull.kind = "unhit"
    <3>1. ASSUME NEW e \in asked \cap ScopeDevice, NEW id \in RowId
          PROVE  id \in DOMAIN map /\ counted[e][id] <= map[id]
      <4>1. counted[e][id] \in Nat /\ counted[e][id] <= hits[e][id]
        BY <1>7
      <4>2. CASE e \in pull.answered
        <5>1. id \in DOMAIN pull.map /\ counted[e][id] <= pull.map[id] /\ pull.map[id] \in Nat
          BY <1>7, <2>2, <4>2 DEF ReportsIInv, PullIsRight
        <5>2. id \in DOMAIN map /\ map[id] = pull.map[id] + (IF id \in DOMAIN new THEN new[id] ELSE 0)
          BY <1>12, <2>2, <5>1
        <5>3. QED
          BY <1>9, <4>1, <5>1, <5>2
      <4>3. CASE e \notin pull.answered
        <5>1. ok /\ e = d
          BY <1>4, <3>1, <4>3
        <5>2. id \in DOMAIN new /\ new[id] = hits[d][id] /\ new[id] \in Nat
          BY <1>9, <5>1
        <5>3. id \in DOMAIN map /\ map[id] = (IF id \in DOMAIN pull.map THEN pull.map[id] ELSE 0) + new[id]
          BY <1>12, <2>2, <5>2
        <5>4. QED
          BY <1>7, <4>1, <5>1, <5>2, <5>3
      <4>4. QED
        BY <4>2, <4>3
    <3>2. QED
      BY <1>6, <1>10, <2>2, <3>1 DEF PullIsRight
  <2>3. CASE pull.kind # "export" /\ pull.kind # "unhit"
    BY <1>10, <2>3 DEF PullIsRight
  <2>4. QED
    BY <2>1, <2>2, <2>3
<1>16. SheetIsMade' /\ UnhitIsUnhit'
  BY <1>6, <1>11 DEF ReportsIInv, SheetIsMade, UnhitIsUnhit, WasCounted
<1>17. QED
  BY <1>14, <1>15, <1>16 DEF ReportsIInv

(* A report ends.                                                          *)
LEMMA ReportEnds ==
    ASSUME ReportsIInv, NEW result, Finish(result)
    PROVE  /\ ReportShape' /\ PullIsRight' /\ sheet' = result
           /\ counted' = counted /\ hits' = hits /\ nest' = nest /\ regrouped' = regrouped
<1>1. /\ sheet' = result /\ pull' = NoPull /\ counted' = counted /\ regrouped' = regrouped
      /\ nest' = nest /\ table' = table /\ hits' = hits
  BY DEF Finish
<1>2. IsPull(NoPull) /\ NoPull.rules = {} /\ NoPull.todo = <<>> /\ NoPull.kind = "none" /\ DOMAIN NoPull.map = {}
  BY DEF IsPull, NoPull
<1>3. QED
  BY <1>1, <1>2 DEF ReportsIInv, ReportShape, PullIsRight

LEMMA ExportEnds ==
    ASSUME ReportsIInv, _policy_for_pkg
    PROVE  ReportsIInv'
<1> DEFINE LiveCount(id) == IF id \in DOMAIN pull.map THEN pull.map[id] ELSE NoCount
           Count(r) == IF ~r.log THEN NoCount ELSE IF pull.live THEN LiveCount(r.id) ELSE pull.cached[r.id]
<1>1. PICK lines : lines = {[rule |-> r, hits |-> Count(r)] : r \in pull.rules}
  OBVIOUS
<1>2. PICK groups : groups = _collect_groups_from_rules(pull.rules, pull.addr, pull.svc)
  OBVIOUS
<1>3. PICK result : result = [kind |-> "export", live |-> pull.live, whole |-> pull.whole, rows |-> lines, groups |-> groups]
  OBVIOUS
<1>4. pull.kind = "export" /\ Finish(result)
  BY <1>1, <1>2, <1>3 DEF _policy_for_pkg
<1>5. /\ ReportShape' /\ PullIsRight' /\ sheet' = result
      /\ counted' = counted /\ hits' = hits /\ nest' = nest /\ regrouped' = regrouped
  BY <1>4, ReportEnds
<1>6. PICK rs, addr, svc, whole : rs = pull.rules /\ addr = pull.addr /\ svc = pull.svc /\ whole = pull.whole
  OBVIOUS
<1>7. CatalogsAgree(addr, svc, whole) /\ whole \subseteq {"addr", "svc"}
  BY <1>4, <1>6 DEF ReportsIInv, PullIsRight
<1>8. CatalogsAgree(addr, svc, whole)'
  BY <1>5, <1>7 DEF CatalogsAgree, Agrees
<1>9. \A row \in lines : row.rule \in rs /\ row.rule \in RowChoice
  BY <1>1, <1>6 DEF ReportsIInv, ReportShape
<1>10. ASSUME pull.live, NEW row \in lines, row.hits # NoCount
       PROVE  row.hits \in Nat /\ WasCounted(row.rule.id, row.hits)
  <2>1. row.rule \in RowChoice /\ row.hits = Count(row.rule)
    BY <1>1, <1>9
  <2>2. row.rule.id \in DOMAIN pull.map /\ row.hits = pull.map[row.rule.id]
    BY <1>10, <2>1
  <2>3. row.rule.id \in RowId
    BY <2>1 DEF RowId
  <2>4. pull.map[row.rule.id] \in Nat
    BY <2>2, <2>3 DEF ReportsIInv, ReportShape
  <2>5. WasCounted(row.rule.id, pull.map[row.rule.id])
    BY <1>4, <2>2 DEF ReportsIInv, PullIsRight
  <2>6. QED
    BY <2>2, <2>4, <2>5
<1>11. pull.live => \A row \in lines : row.hits # NoCount => row.hits \in Nat /\ WasCounted(row.rule.id, row.hits)'
  BY <1>5, <1>10 DEF WasCounted
<1>12. /\ sheet'.kind = "export" /\ sheet'.live = pull.live /\ sheet'.whole = whole
       /\ sheet'.rows = lines /\ sheet'.groups = _collect_groups_from_rules(rs, addr, svc)
  BY <1>2, <1>3, <1>5, <1>6
<1> HIDE DEF LiveCount, Count
<1>13. SheetIsMade'
  BY <1>7, <1>8, <1>9, <1>11, <1>12 DEF SheetIsMade
<1>14. UnhitIsUnhit'
  BY <1>12 DEF UnhitIsUnhit
<1>15. QED
  BY <1>5, <1>13, <1>14 DEF ReportsIInv

LEMMA FailedReportKeeps ==
    ASSUME ReportsIInv, FailPull
    PROVE  ReportsIInv'
<1>1. Finish([kind |-> "error"])
  BY DEF FailPull
<1>2. ReportShape' /\ PullIsRight' /\ sheet' = [kind |-> "error"]
  BY <1>1, ReportEnds
<1>3. sheet'.kind = "error"
  BY <1>2
<1>4. QED
  BY <1>2, <1>3 DEF ReportsIInv, SheetIsMade, UnhitIsUnhit

LEMMA HygieneEnds ==
    ASSUME ReportsIInv, hygiene_run_unhit
    PROVE  ReportsIInv'
<1> DEFINE Count(id) == IF id \in DOMAIN pull.map THEN pull.map[id] ELSE pull.cached[id]
<1>1. PICK unhit : unhit = {r.id : r \in {x \in pull.rules : Count(x.id) = 0}}
  OBVIOUS
<1>2. PICK asked : asked = pull.answered
  OBVIOUS
<1>3. PICK result : result = [kind |-> "unhit", answered |-> asked, unhit |-> unhit]
  OBVIOUS
<1>4. pull.kind = "unhit" /\ Finish(result)
  BY <1>1, <1>2, <1>3 DEF hygiene_run_unhit
<1>5. ReportShape' /\ PullIsRight' /\ sheet' = result /\ counted' = counted
  BY <1>4, ReportEnds
<1>6. ASSUME asked = ScopeDevice, NEW id \in unhit, NEW d \in ScopeDevice
      PROVE  counted[d][id] = 0
  <2>1. id \in RowId /\ Count(id) = 0
    BY <1>1, <1>6 DEF ReportsIInv, ReportShape, RowId
  <2>2. id \in DOMAIN pull.map /\ counted[d][id] <= pull.map[id]
    BY <1>2, <1>4, <1>6, <2>1 DEF ReportsIInv, PullIsRight
  <2>3. counted[d][id] \in Nat
    BY <2>1 DEF ReportsIInv, ReportShape
  <2>4. QED
    BY <2>1, <2>2, <2>3
<1>7. sheet'.kind = "unhit" /\ sheet'.answered = asked /\ sheet'.unhit = unhit
  BY <1>3, <1>5
<1>8. SheetIsMade'
  BY <1>7 DEF SheetIsMade
<1>9. UnhitIsUnhit'
  BY <1>5, <1>6, <1>7 DEF UnhitIsUnhit
<1>10. QED
  BY <1>5, <1>8, <1>9 DEF ReportsIInv

(* What the invariant says of a sheet.                                     *)
LEMMA GroupsAreBelow ==
    ASSUME ShallowNest, nest \in Nestings, NEW G, NEW L, IsKind(G, L), NEW catalog,
           Catalogs(catalog, G, L), Agrees(catalog, nest, G, L, regrouped),
           NEW g \in G, Steady(g), nest[g] # NoGroup
    PROVE  /\ g \in DOMAIN catalog /\ catalog[g] # Leaf
           /\ _expand_group(g, catalog) = BelowIt(g)
<1>1. g \in G \ regrouped /\ g \in NestGroup
  BY KindIs DEF Steady
<1>2. g \in DOMAIN catalog /\ catalog[g] # Leaf
  BY <1>1 DEF Agrees, Catalogs
<1>3. \A c \in Chains(nest, g) : Len(c) < MaxLevels /\ nest[c[Len(c)]] \cap regrouped = {}
  BY <1>1 DEF ShallowNest, Steady
<1>4. IsRightBelow(nest, catalog, G, L, regrouped, g)
  BY <1>1, <1>3 DEF IsRightBelow
<1>5. _expand_group(g, catalog) = UNION {{EndOf(c, m) : m \in EndsAt(nest, c)} : c \in Chains(nest, g)}
  BY <1>4, ExpansionIsBelow
<1>6. QED
  BY <1>2, <1>5 DEF BelowIt, EndOf, EndsAt

LEMMA InvariantMeans ==
    ASSUME ShallowNest, ReportsIInv
    PROVE  ReportsSayWhatIsThere
<1>1. SUFFICES ASSUME sheet.kind = "export" PROVE ExportSaysWhatIsThere
  BY DEF ReportsIInv, ReportsSayWhatIsThere, ExportSaysWhatIsThere
<1>2. PICK rs, addr, svc : /\ \A row \in sheet.rows : row.rule \in rs
                           /\ CatalogsAgree(addr, svc, sheet.whole)
                           /\ sheet.groups = _collect_groups_from_rules(rs, addr, svc)
  BY <1>1 DEF ReportsIInv, SheetIsMade
<1>3. /\ nest \in Nestings /\ sheet.whole \subseteq {"addr", "svc"}
      /\ IsKind(AddrGroup, AddrLeaf) /\ IsKind(SvcGroup, SvcLeaf)
  BY <1>1 DEF ReportsIInv, ReportShape, SheetIsMade, IsKind
<1>4. /\ \A row \in sheet.rows : row.rule.addr \subseteq AddrLeaf \cup AddrGroup /\ row.rule.svc \subseteq SvcLeaf \cup SvcGroup
      /\ AddrGroup \cap SvcGroup = {} /\ NestGroup \cap (AddrLeaf \cup SvcLeaf) = {} /\ NestGroup = AddrGroup \cup SvcGroup
  BY <1>1, PolicyReportsAssumption DEF ReportsIInv, SheetIsMade, NestGroup
<1> DEFINE Named(f) == UNION {r[f] : r \in rs}
           Groups(f, cat) == {n \in Named(f) \cap DOMAIN cat : cat[n] # Leaf}
<1>5. /\ sheet.groups.addr = [n \in Groups("addr", addr) |-> _expand_group(n, addr)]
      /\ sheet.groups.svc = [n \in Groups("svc", svc) |-> _expand_group(n, svc)]
      /\ sheet.groups.unknown = ((Named("addr") \ DOMAIN addr) \cup (Named("svc") \ DOMAIN svc))
                                  \ (Groups("addr", addr) \cup Groups("svc", svc))
  BY <1>2 DEF _collect_groups_from_rules
<1>6. \A row \in sheet.rows : /\ \A n \in row.rule.addr : n \in Named("addr")
                              /\ \A n \in row.rule.svc : n \in Named("svc")
  BY <1>2
<1>7. /\ Catalogs(addr, AddrGroup, AddrLeaf) /\ Catalogs(svc, SvcGroup, SvcLeaf)
      /\ "addr" \in sheet.whole => Agrees(addr, nest, AddrGroup, AddrLeaf, regrouped)
      /\ "svc" \in sheet.whole => Agrees(svc, nest, SvcGroup, SvcLeaf, regrouped)
  BY <1>2 DEF CatalogsAgree
<1> HIDE DEF Named
<1>8. ASSUME "addr" \in sheet.whole, NEW row \in sheet.rows, NEW n \in row.rule.addr
      PROVE  /\ n \in AddrGroup /\ Steady(n) /\ nest[n] # NoGroup
                  => n \in DOMAIN sheet.groups.addr /\ sheet.groups.addr[n] = BelowIt(n)
             /\ n \in NestGroup \ regrouped /\ nest[n] = NoGroup => n \in sheet.groups.unknown
  <2>1. n \in Named("addr")
    BY <1>6, <1>8
  <2>2. ASSUME n \in AddrGroup, Steady(n), nest[n] # NoGroup
        PROVE  n \in DOMAIN sheet.groups.addr /\ sheet.groups.addr[n] = BelowIt(n)
    <3>1. n \in DOMAIN addr /\ addr[n] # Leaf /\ _expand_group(n, addr) = BelowIt(n)
      BY <1>3, <1>7, <1>8, <2>2, GroupsAreBelow
    <3>2. n \in Groups("addr", addr)
      BY <2>1, <3>1
    <3> HIDE DEF Groups
    <3>3. QED
      BY <1>5, <3>1, <3>2
  <2>3. ASSUME n \in NestGroup \ regrouped, nest[n] = NoGroup
        PROVE  n \in sheet.groups.unknown
    <3>1. n \in AddrGroup
      BY <1>4, <1>8, <2>3
    <3>2. n \notin DOMAIN addr
      BY <1>7, <1>8, <2>3, <3>1 DEF Agrees
    <3>3. n \notin Groups("svc", svc) /\ n \notin Groups("addr", addr)
      <4>1. n \notin DOMAIN svc
        BY <1>4, <1>7, <3>1 DEF Catalogs
      <4>2. QED
        BY <3>2, <4>1
    <3> HIDE DEF Groups
    <3>4. QED
      BY <1>5, <2>1, <3>2, <3>3
  <2>4. QED
    BY <2>2, <2>3
<1>9. ASSUME "svc" \in sheet.whole, NEW row \in sheet.rows, NEW n \in row.rule.svc
      PROVE  /\ n \in SvcGroup /\ Steady(n) /\ nest[n] # NoGroup
                  => n \in DOMAIN sheet.groups.svc /\ sheet.groups.svc[n] = BelowIt(n)
             /\ n \in NestGroup \ regrouped /\ nest[n] = NoGroup => n \in sheet.groups.unknown
  <2>1. n \in Named("svc")
    BY <1>6, <1>9
  <2>2. ASSUME n \in SvcGroup, Steady(n), nest[n] # NoGroup
        PROVE  n \in DOMAIN sheet.groups.svc /\ sheet.groups.svc[n] = BelowIt(n)
    <3>1. n \in DOMAIN svc /\ svc[n] # Leaf /\ _expand_group(n, svc) = BelowIt(n)
      BY <1>3, <1>7, <1>9, <2>2, GroupsAreBelow
    <3>2. n \in Groups("svc", svc)
      BY <2>1, <3>1
    <3> HIDE DEF Groups
    <3>3. QED
      BY <1>5, <3>1, <3>2
  <2>3. ASSUME n \in NestGroup \ regrouped, nest[n] = NoGroup
        PROVE  n \in sheet.groups.unknown
    <3>1. n \in SvcGroup
      BY <1>4, <1>9, <2>3
    <3>2. n \notin DOMAIN svc
      BY <1>7, <1>9, <2>3, <3>1 DEF Agrees
    <3>3. n \notin Groups("svc", svc) /\ n \notin Groups("addr", addr)
      <4>1. n \notin DOMAIN addr
        BY <1>4, <1>7, <3>1 DEF Catalogs
      <4>2. QED
        BY <3>2, <4>1
    <3> HIDE DEF Groups
    <3>4. QED
      BY <1>5, <2>1, <3>2, <3>3
  <2>4. QED
    BY <2>2, <2>3
<1> HIDE DEF Groups
<1>10. ASSUME NEW row \in sheet.rows, NEW f \in sheet.whole, NEW n \in row.rule[f]
       PROVE  /\ n \in (IF f = "addr" THEN AddrGroup ELSE SvcGroup) /\ Steady(n) /\ nest[n] # NoGroup
                   => n \in DOMAIN sheet.groups[f] /\ sheet.groups[f][n] = BelowIt(n)
              /\ n \in NestGroup \ regrouped /\ nest[n] = NoGroup => n \in sheet.groups.unknown
  <2>1. CASE f = "addr"
    BY <1>8, <1>10, <2>1
  <2>2. CASE f = "svc"
    BY <1>9, <1>10, <2>2
  <2>3. QED
    BY <1>3, <2>1, <2>2
<1>11. ASSUME NEW row \in sheet.rows, sheet.live, row.hits # NoCount
       PROVE  \E d \in ScopeDevice : row.hits \in counted[d][row.rule.id]..hits[d][row.rule.id]
  <2>1. row.hits \in Nat /\ WasCounted(row.rule.id, row.hits) /\ row.rule.id \in RowId
    BY <1>1, <1>11 DEF ReportsIInv, SheetIsMade, RowId
  <2>2. PICK d \in ScopeDevice : counted[d][row.rule.id] <= row.hits /\ row.hits <= hits[d][row.rule.id]
    BY <2>1 DEF WasCounted
  <2>3. counted[d][row.rule.id] \in Nat /\ hits[d][row.rule.id] \in Nat
    BY <2>1 DEF ReportsIInv, ReportShape
  <2>4. row.hits \in counted[d][row.rule.id]..hits[d][row.rule.id]
    BY <2>1, <2>2, <2>3
  <2>5. QED
    BY <2>4
<1>12. QED
  BY <1>1, <1>10, <1>11 DEF ExportSaysWhatIsThere

(* The export and the hygiene report of hit counts say what is there, for  *)
(* groups that an expansion follows to the end (_expand_group stops at     *)
(* MAX_GROUP_DEPTH levels): whatever is edited and hit between two calls,  *)
(* whichever calls fail, on any number of devices.                         *)
THEOREM ReportsAreTrue == ShallowNest => (PolicyReportsSpec => []ReportsSayWhatIsThere)
<1> SUFFICES ASSUME ShallowNest PROVE PolicyReportsSpec => []ReportsSayWhatIsThere
  OBVIOUS
<1>1. PolicyReportsInit => ReportsIInv
  BY ReportsInitial
<1>2. ReportsIInv /\ [PolicyReportsNext]_policyReportVars => ReportsIInv'
  <2> SUFFICES ASSUME ReportsIInv, [PolicyReportsNext]_policyReportVars PROVE ReportsIInv'
    OBVIOUS
  <2>1. ASSUME NEW g \in NestGroup, NEW members \in NestChoice[g], EditGroup(g, members) PROVE ReportsIInv'
    BY <2>1, EditedGroupKeeps
  <2>2. ASSUME NEW r \in RowChoice, EditRule(r) PROVE ReportsIInv'
    BY <2>2, EditedRuleKeeps
  <2>3. ASSUME NEW d \in ScopeDevice, NEW id \in RowId, Traffic(d, id) PROVE ReportsIInv'
    BY <2>3, TrafficKeeps
  <2>4. CASE SyncCounts \/ UNCHANGED policyReportVars
    BY <2>4, OthersKeep
  <2>5. ASSUME NEW live \in BOOLEAN, NEW addrRead \in BOOLEAN, NEW svcRead \in BOOLEAN,
               bulk_policy_adom(live, addrRead, svcRead)
        PROVE  ReportsIInv'
    BY <2>5, ExportBegins
  <2>6. ASSUME NEW ok \in BOOLEAN, hygiene_run_hits(ok) \/ get_live_policy_hits(ok) PROVE ReportsIInv'
    BY <2>6, HygieneBegins, DeviceAsked
  <2>7. CASE get_policies
    BY <2>7, RulesRead
  <2>8. CASE _policy_for_pkg
    BY <2>8, ExportEnds
  <2>9. CASE FailPull
    BY <2>9, FailedReportKeeps
  <2>10. CASE hygiene_run_unhit
    BY <2>10, HygieneEnds
  <2>11. QED
    BY <2>1, <2>2, <2>3, <2>4, <2>5, <2>6, <2>7, <2>8, <2>9, <2>10 DEF PolicyReportsNext
<1>3. ReportsIInv => ReportsSayWhatIsThere
  BY InvariantMeans
<1>4. QED
  BY <1>1, <1>2, <1>3, PTL DEF PolicyReportsSpec

-----------------------------------------------------------------------------
(* Report jobs: records tell the truth about the mails, a run that met no  *)
(* failing save leaves one, and the running flag follows the thread.       *)

(* The inductive invariant: what is known of a run at each of its stages.  *)

(* The mails that left, until the mailing starts and while it lasts.       *)
MailsLeft(j) ==
    /\ stage[j] \in {"load", "collect", "rollup", "store"} => sent[j] = 0
    /\ stage[j] \in {"rollup", "store"} => j \in ReviewJobs /\ parts[j] = 1
    /\ stage[j] = "mail" => sent[j] < parts[j]
    /\ stage[j] = "mail" /\ j \in NatJobs \cup ReviewJobs => parts[j] = 1
    /\ stage[j] \in {"load", "collect"} => status[j] = "error"

(* A status about to be stored is the truth.                               *)
StatusTrue(j) ==
    stage[j] = "append" /\ status[j] = "ok" => sent[j] = parts[j] /\ told[j] = parts[j]

(* The records stored so far for the run.                                  *)
Counted(j) ==
    /\ stage[j] \in {"load", "collect", "rollup", "store", "mail", "append"} =>
          recorded[j] = 0 /\ j \notin broken
    /\ stage[j] = "raised" => recorded[j] \in {0, 1}
    /\ stage[j] = "raised" /\ j \notin broken => recorded[j] = 0
    /\ stage[j] = "raised" /\ j \in ReportJob => j \notin broken
    /\ stage[j] = "prune" => recorded[j] \in {0, 1}
    /\ stage[j] \in {"prune", "clear", "idle"} /\ j \notin broken /\ job[j] # "absent" => recorded[j] = 1

OkRecord(r) == r.status = "ok" => r.sent = r.parts /\ r.told = r.parts

ReportIInv ==
    /\ ReportTypeOK
    /\ \A j \in Job : MailsLeft(j) /\ StatusTrue(j) /\ Counted(j)

-----------------------------------------------------------------------------
(* A record put in front of a history, and a history cut short.            *)

LEMMA Prepended ==
    ASSUME NEW r \in RunRecord, NEW s \in Seq(RunRecord)
    PROVE  /\ <<r>> \o s \in Seq(RunRecord)
           /\ (OkRecord(r) /\ \A i \in DOMAIN s : OkRecord(s[i]))
              => \A i \in DOMAIN (<<r>> \o s) : OkRecord((<<r>> \o s)[i])
<1>1. <<r>> \in Seq(RunRecord)
  OBVIOUS
<1>2. <<r>> \o s \in Seq(RunRecord)
  BY <1>1
<1>3. ASSUME OkRecord(r), \A i \in DOMAIN s : OkRecord(s[i]), NEW i \in DOMAIN (<<r>> \o s)
      PROVE  OkRecord((<<r>> \o s)[i])
  <2>1. i \in 1..(1 + Len(s))
    BY <1>1, <1>3
  <2>2. CASE i = 1
    <3>1. (<<r>> \o s)[i] = r
      BY <1>1, <2>2
    <3>2. QED
      BY <3>1, <1>3
  <2>3. CASE i # 1
    <3>1. i - 1 \in DOMAIN s
      BY <2>1, <2>3
    <3>2. (<<r>> \o s)[i] = s[i - 1]
      BY <1>1, <2>1, <2>3
    <3>3. QED
      BY <3>1, <3>2, <1>3
  <2>4. QED
    BY <2>2, <2>3
<1>4. QED
  BY <1>2, <1>3

LEMMA Shortened ==
    ASSUME NEW s \in Seq(RunRecord), NEW n \in 1..Len(s)
    PROVE  /\ SubSeq(s, 1, n) \in Seq(RunRecord)
           /\ (\A i \in DOMAIN s : OkRecord(s[i]))
              => \A i \in DOMAIN SubSeq(s, 1, n) : OkRecord(SubSeq(s, 1, n)[i])
<1>1. SubSeq(s, 1, n) \in Seq(RunRecord)
  BY SubSeqProperties
<1>2. DOMAIN SubSeq(s, 1, n) = 1..n
  BY SubSeqProperties
<1>3. \A i \in 1..n : SubSeq(s, 1, n)[i] = s[i] /\ i \in DOMAIN s
  BY SubSeqProperties
<1>4. QED
  BY <1>1, <1>2, <1>3

-----------------------------------------------------------------------------
(* What a run knows of itself is preserved by its own steps and by those   *)
(* of the other jobs.                                                      *)

RunFacts(k) == MailsLeft(k) /\ StatusTrue(k) /\ Counted(k)

LEMMA StoredIsRecord ==
    ASSUME ReportTypeOK, NEW j \in Job
    PROVE  Stored(j) \in RunRecord
BY DEF ReportTypeOK, Stored, RunRecord

LEMMA AppendedHistory ==
    ASSUME ReportTypeOK, NEW j \in Job, _append_run(j)
    PROVE  runs' \in [Job -> Seq(RunRecord)]
<1>1. CASE job[j] = "absent"
  BY <1>1 DEF _append_run, ReportTypeOK
<1>2. CASE job[j] # "absent"
  <2>1. <<Stored(j)>> \o runs[j] \in Seq(RunRecord)
    BY StoredIsRecord, Prepended DEF ReportTypeOK
  <2>2. QED
    BY <1>2, <2>1 DEF _append_run, ReportTypeOK
<1>3. QED
  BY <1>1, <1>2

LEMMA RunStepKeepsType ==
    ASSUME ReportIInv, NEW j \in Job, RunStep(j)
    PROVE  ReportTypeOK'
<1> USE ReportAssumption
<1>0. ReportTypeOK /\ MailsLeft(j) /\ Counted(j)
  BY DEF ReportIInv
<1>a. MaxParts \in Nat /\ MaxParts > 0
  BY DEF ReportAssumption
<1>b. recorded \in [Job -> 0..2]
  BY <1>0 DEF ReportTypeOK
<1>c. parts \in [Job -> 0..MaxParts] /\ sent \in [Job -> 0..MaxParts] /\ told \in [Job -> 0..MaxParts]
  BY <1>0 DEF ReportTypeOK
<1>d. status \in [Job -> {"ok", "error"}] /\ stage \in [Job -> RunStages]
  BY <1>0 DEF ReportTypeOK
<1>1. CASE _execute_job(j)
  BY <1>0, <1>1 DEF ReportTypeOK, _execute_job, Enter, RunStages
<1>2. CASE Load(j)
  BY <1>0, <1>2 DEF ReportTypeOK, Load, Enter, RunStages, history
<1>3. CASE CollectHygiene(j) \/ CollectPolicy(j) \/ CollectNat(j) \/ CollectReview(j)
  <2>1. /\ UNCHANGED <<job, rollup, read, recorded, broken, running, locked, runs, told, sent>>
        /\ \/ UNCHANGED <<parts, status>>
           \/ \E n \in 0..MaxParts, st \in {"ok", "error"} :
                 parts' = [parts EXCEPT ![j] = n] /\ status' = [status EXCEPT ![j] = st]
        /\ \E s \in RunStages : stage' = [stage EXCEPT ![j] = s]
    BY <1>3 DEF CollectHygiene, CollectPolicy, CollectNat, CollectReview, Collecting, Collected,
                CollectRaises, Enter, RunStages
  <2>2. parts' \in [Job -> 0..MaxParts] /\ status' \in [Job -> {"ok", "error"}]
    BY <1>c, <1>d, <2>1
  <2>3. stage' \in [Job -> RunStages]
    BY <1>d, <2>1
  <2>4. QED
    BY <1>0, <2>1, <2>2, <2>3 DEF ReportTypeOK
<1>4. CASE CollectBackup(j)
  <2>1. parts' \in [Job -> 0..MaxParts] /\ sent' \in [Job -> 0..MaxParts] /\ told' \in [Job -> 0..MaxParts]
    BY <1>a, <1>c, <1>4 DEF CollectBackup, CollectRaises
  <2>2. stage' \in [Job -> RunStages] /\ status' \in [Job -> {"ok", "error"}]
    BY <1>0, <1>4 DEF ReportTypeOK, CollectBackup, CollectRaises, Enter, RunStages
  <2>3. QED
    BY <1>0, <1>4, <2>1, <2>2 DEF ReportTypeOK, CollectBackup, Collecting
<1>5. CASE MailBatch(j) \/ MailOnce(j)
  <2>1. sent' \in [Job -> 0..MaxParts]
    <3>1. sent[j] < parts[j]
      BY <1>0, <1>5 DEF MailBatch, MailOnce, Mailing, MailsLeft
    <3>2. sent' = sent \/ sent' = [sent EXCEPT ![j] = @ + 1] \/ sent' = [sent EXCEPT ![j] = 1]
      BY <1>5 DEF MailBatch, MailOnce, Mailing, MailFails
    <3>3. QED
      BY <1>a, <1>c, <3>1, <3>2
  <2>2. told' \in [Job -> 0..MaxParts]
    <3>1. told' = told \/ told' = [told EXCEPT ![j] = parts[j]] \/ told' = [told EXCEPT ![j] = 1]
      BY <1>5 DEF MailBatch, MailOnce, Mailing, MailFails
    <3>2. QED
      BY <1>a, <1>c, <3>1
  <2>3. stage' \in [Job -> RunStages] /\ status' \in [Job -> {"ok", "error"}]
    BY <1>0, <1>5 DEF ReportTypeOK, MailBatch, MailOnce, Mailing, MailFails, Enter, RunStages
  <2>4. QED
    BY <1>0, <1>5, <2>1, <2>2, <2>3 DEF ReportTypeOK, MailBatch, MailOnce, Mailing
<1>6. CASE Append_run(j)
  <2>1. runs' \in [Job -> Seq(RunRecord)]
    <3>1. CASE _append_run(j)
      BY <1>0, <3>1, AppendedHistory
    <3>2. CASE SaveFails(j)
      BY <1>0, <3>2 DEF SaveFails, ReportTypeOK
    <3>3. QED
      BY <1>6, <3>1, <3>2 DEF Append_run
  <2>2. recorded' \in [Job -> 0..2]
    <3>1. recorded[j] = 0
      BY <1>0, <1>6 DEF Append_run, Counted
    <3>2. recorded' = recorded \/ recorded' = [recorded EXCEPT ![j] = 1]
      BY <1>0, <1>6, <3>1 DEF Append_run, _append_run, SaveFails, ReportTypeOK
    <3>3. QED
      BY <1>b, <3>2
  <2>3. QED
    BY <1>0, <1>6, <2>1, <2>2 DEF ReportTypeOK, Append_run, SaveFails, Enter, RunStages
<1>7. CASE _prune_runs(j)
  <2>1. runs' \in [Job -> Seq(RunRecord)]
    <3>1. \A n \in 1..Len(runs[j]) : SubSeq(runs[j], 1, n) \in Seq(RunRecord)
      BY <1>0, Shortened DEF ReportTypeOK
    <3>2. runs' = runs \/ \E n \in 1..Len(runs[j]) : runs' = [runs EXCEPT ![j] = SubSeq(@, 1, n)]
      BY <1>7 DEF _prune_runs, SaveFails
    <3>3. QED
      BY <1>0, <3>1, <3>2 DEF ReportTypeOK
  <2>2. QED
    BY <1>0, <1>7, <2>1 DEF ReportTypeOK, _prune_runs, SaveFails, Enter, RunStages
<1>8. CASE Raised(j)
  <2>1. [Stored(j) EXCEPT !.status = "error"] \in RunRecord
    BY <1>0 DEF ReportTypeOK, Stored, RunRecord
  <2>2. <<[Stored(j) EXCEPT !.status = "error"]>> \o runs[j] \in Seq(RunRecord)
    BY <1>0, <2>1, Prepended DEF ReportTypeOK
  <2>3. runs' \in [Job -> Seq(RunRecord)]
    BY <1>0, <1>8, <2>2 DEF Raised, ReportTypeOK
  <2>4. recorded' \in [Job -> 0..2]
    <3>1. recorded[j] \in {0, 1}
      BY <1>0, <1>8 DEF Raised, Counted
    <3>2. recorded' = recorded \/ recorded' = [recorded EXCEPT ![j] = @ + 1]
      BY <1>8 DEF Raised
    <3>3. QED
      BY <1>b, <3>1, <3>2
  <2>5. QED
    BY <1>0, <1>8, <2>3, <2>4 DEF ReportTypeOK, Raised, Enter, RunStages
<1>9. CASE Clear(j)
  BY <1>0, <1>9 DEF ReportTypeOK, Clear, Enter, RunStages, history
<1>10. QED
  BY <1>1, <1>2, <1>3, <1>4, <1>5, <1>6, <1>7, <1>8, <1>9 DEF RunStep

LEMMA RunStepKeepsFacts ==
    ASSUME ReportIInv, NEW j \in Job, RunStep(j), NEW k \in Job
    PROVE  RunFacts(k)'
<1> USE ReportAssumption DEF RunFacts, MailsLeft, StatusTrue, Counted, Enter
<1>0. ReportTypeOK /\ RunFacts(j) /\ RunFacts(k)
  BY DEF ReportIInv
<1>1. CASE _execute_job(j)
  BY <1>0, <1>1 DEF ReportTypeOK, _execute_job
<1>2. CASE Load(j)
  BY <1>0, <1>2 DEF ReportTypeOK, Load, history, ReportJob
<1>3. CASE CollectHygiene(j)
  BY <1>0, <1>3 DEF ReportTypeOK, CollectHygiene, Collecting, Collected, CollectRaises
<1>4. CASE CollectPolicy(j)
  BY <1>0, <1>4 DEF ReportTypeOK, CollectPolicy, Collecting, Collected, CollectRaises
<1>5. CASE CollectNat(j)
  BY <1>0, <1>5 DEF ReportTypeOK, CollectNat, Collecting, Collected, CollectRaises
<1>6. CASE CollectReview(j)
  BY <1>0, <1>6 DEF ReportTypeOK, CollectReview, Collecting, Collected, CollectRaises
<1>7. CASE CollectBackup(j)
  BY <1>0, <1>7 DEF ReportTypeOK, CollectBackup, Collecting, CollectRaises
<1>8. CASE MailBatch(j)
  BY <1>0, <1>8 DEF ReportTypeOK, MailBatch, Mailing, MailFails
<1>9. CASE MailOnce(j)
  BY <1>0, <1>9 DEF ReportTypeOK, MailOnce, Mailing, MailFails
<1>10. CASE Append_run(j)
  BY <1>0, <1>10 DEF ReportTypeOK, Append_run, _append_run, SaveFails
<1>11. CASE _prune_runs(j)
  BY <1>0, <1>11 DEF ReportTypeOK, _prune_runs, SaveFails
<1>12. CASE Raised(j)
  BY <1>0, <1>12 DEF ReportTypeOK, Raised
<1>13. CASE Clear(j)
  BY <1>0, <1>13 DEF ReportTypeOK, Clear, history
<1>14. QED
  BY <1>1, <1>2, <1>3, <1>4, <1>5, <1>6, <1>7, <1>8, <1>9, <1>10, <1>11, <1>12, <1>13 DEF RunStep

-----------------------------------------------------------------------------
(* The other steps.                                                        *)

LEMMA EditsKeepInv ==
    ASSUME ReportIInv, NEW j \in Job, update_job(j) \/ delete_job(j)
    PROVE  ReportIInv'
<1>1. ReportTypeOK
  BY DEF ReportIInv
<1>2. << >> \in Seq(RunRecord)
  OBVIOUS
<1>3. ReportTypeOK'
  BY <1>1, <1>2 DEF ReportTypeOK, update_job, delete_job
<1>4. ASSUME NEW k \in Job
      PROVE  RunFacts(k)'
  <2>1. RunFacts(k)
    BY DEF ReportIInv, RunFacts
  <2>2. job'[k] # "absent" => job[k] # "absent"
    BY <1>1 DEF ReportTypeOK, update_job, delete_job
  <2>3. UNCHANGED <<stage, status, told, parts, sent, recorded, broken>>
    BY DEF update_job, delete_job
  <2>4. QED
    BY <2>1, <2>2, <2>3 DEF RunFacts, MailsLeft, StatusTrue, Counted
<1>5. QED
  BY <1>3, <1>4 DEF ReportIInv, RunFacts

LEMMA RollupKeepsInv ==
    ASSUME ReportIInv, NEW j \in ReviewJobs, ReadRollup(j) \/ StoreRollup(j)
    PROVE  ReportIInv'
<1>1. ReportTypeOK /\ j \in Job
  BY DEF ReportIInv, Job
<1>2. ReportTypeOK'
  BY <1>1 DEF ReportTypeOK, ReadRollup, StoreRollup, Enter, RunStages
<1>3. ASSUME NEW k \in Job
      PROVE  RunFacts(k)'
  <2>1. RunFacts(k) /\ RunFacts(j)
    BY <1>1 DEF ReportIInv, RunFacts
  <2>2. j \notin ReportJob
    BY ReportAssumption DEF ReportJob
  <2>3. QED
    BY <1>1, <2>1, <2>2 DEF ReportTypeOK, ReadRollup, StoreRollup, Enter, RunFacts, MailsLeft,
                            StatusTrue, Counted
<1>4. QED
  BY <1>2, <1>3 DEF ReportIInv, RunFacts

LEMMA RestartKeepsInv ==
    ASSUME ReportIInv, RestartProcess
    PROVE  ReportIInv'
<1>1. ReportTypeOK
  BY DEF ReportIInv
<1>2. ReportTypeOK'
  BY <1>1 DEF ReportTypeOK, RestartProcess, RunStages
<1>3. ASSUME NEW k \in Job
      PROVE  RunFacts(k)'
  <2>1. RunFacts(k)
    BY DEF ReportIInv, RunFacts
  <2>2. stage'[k] = "idle" /\ (k \in broken' \/ (stage[k] = "idle" /\ k \notin broken))
    BY <1>1 DEF RestartProcess, ReportTypeOK
  <2>3. UNCHANGED <<job, recorded>>
    BY DEF RestartProcess
  <2>4. QED
    BY <2>1, <2>2, <2>3 DEF RunFacts, MailsLeft, StatusTrue, Counted
<1>4. QED
  BY <1>2, <1>3 DEF ReportIInv, RunFacts

LEMMA ReportInvInit == ReportInit => ReportIInv
<1> SUFFICES ASSUME ReportInit PROVE ReportIInv
  OBVIOUS
<1>1. << >> \in Seq(RunRecord)
  OBVIOUS
<1>2. ReportTypeOK
  BY <1>1, ReportAssumption DEF ReportInit, ReportTypeOK, RunStages
<1>3. ASSUME NEW k \in Job
      PROVE  RunFacts(k)
  BY <1>3 DEF ReportInit, RunFacts, MailsLeft, StatusTrue, Counted
<1>4. QED
  BY <1>2, <1>3 DEF ReportIInv, RunFacts

LEMMA ReportInvStep == ReportIInv /\ [ReportNext]_reportVars => ReportIInv'
<1> SUFFICES ASSUME ReportIInv, [ReportNext]_reportVars
             PROVE  ReportIInv'
  OBVIOUS
<1>1. ASSUME NEW j \in Job, RunStep(j)
      PROVE  ReportIInv'
  BY <1>1, RunStepKeepsType, RunStepKeepsFacts DEF ReportIInv, RunFacts
<1>2. ASSUME NEW j \in Job, update_job(j) \/ delete_job(j)
      PROVE  ReportIInv'
  BY <1>2, EditsKeepInv
<1>3. ASSUME NEW j \in ReviewJobs, ReadRollup(j) \/ StoreRollup(j)
      PROVE  ReportIInv'
  BY <1>3, RollupKeepsInv
<1>4. CASE RestartProcess
  BY <1>4, RestartKeepsInv
<1>5. CASE UNCHANGED reportVars
  BY <1>5 DEF reportVars, ReportIInv, ReportTypeOK, MailsLeft, StatusTrue, Counted
<1>6. QED
  BY <1>1, <1>2, <1>3, <1>4, <1>5 DEF ReportNext

(* The type invariant of the report jobs.                                  *)
THEOREM ReportTypeCorrect == ReportSpec => []ReportTypeOK
<1>1. ReportIInv => ReportTypeOK
  BY DEF ReportIInv
<1>2. QED
  BY <1>1, ReportInvInit, ReportInvStep, PTL DEF ReportSpec

(* OneRecordPerRun, for any jobs: a run of _execute_job that met no        *)
(* failing save has stored exactly one record.                             *)
THEOREM RunsAreRecordedOnce == ReportSpec => []OneRecordPerRun
<1>1. ReportIInv => OneRecordPerRun
  BY DEF ReportIInv, OneRecordPerRun, Counted
<1>2. QED
  BY <1>1, ReportInvInit, ReportInvStep, PTL DEF ReportSpec

-----------------------------------------------------------------------------
(* The records of the history.                                             *)

LEMMA RecordsKept ==
    ReportIInv /\ OkRecordsDelivered /\ [ReportNext]_reportVars => OkRecordsDelivered'
<1> SUFFICES ASSUME ReportIInv, OkRecordsDelivered, [ReportNext]_reportVars, NEW k \in Job
             PROVE  \A i \in DOMAIN runs'[k] : OkRecord(runs'[k][i])
  BY DEF OkRecordsDelivered, OkRecord
<1> DEFINE Good(s) == \A i \in DOMAIN s : OkRecord(s[i])
<1>1. ReportTypeOK /\ Good(runs[k]) /\ runs \in [Job -> Seq(RunRecord)]
  BY DEF ReportIInv, OkRecordsDelivered, OkRecord, ReportTypeOK
<1>2. ASSUME NEW j \in Job, Append_run(j)
      PROVE  Good(runs'[k])
  <2>1. OkRecord(Stored(j))
    BY <1>2 DEF ReportIInv, Append_run, StatusTrue, OkRecord, Stored
  <2>2. Good(<<Stored(j)>> \o runs[k])
    BY <1>1, <2>1, StoredIsRecord, Prepended
  <2>3. runs' = runs \/ runs' = [runs EXCEPT ![j] = <<Stored(j)>> \o @]
    BY <1>2 DEF Append_run, _append_run, SaveFails
  <2>4. runs'[k] = runs[k] \/ runs'[k] = <<Stored(j)>> \o runs[k]
    BY <1>1, <2>3
  <2>5. QED
    BY <1>1, <2>2, <2>4
<1>3. ASSUME NEW j \in Job, Raised(j)
      PROVE  Good(runs'[k])
  <2> DEFINE r == [Stored(j) EXCEPT !.status = "error"]
  <2>1. r \in RunRecord /\ OkRecord(r)
    BY <1>1 DEF ReportTypeOK, Stored, RunRecord, OkRecord
  <2>2. Good(<<r>> \o runs[k])
    BY <1>1, <2>1, Prepended
  <2>3. runs' = runs \/ runs' = [runs EXCEPT ![j] = <<r>> \o @]
    BY <1>3 DEF Raised
  <2> HIDE DEF r
  <2>4. runs'[k] = runs[k] \/ runs'[k] = <<r>> \o runs[k]
    BY <1>1, <2>3
  <2>5. QED
    BY <1>1, <2>2, <2>4
<1>4. ASSUME NEW j \in Job, _prune_runs(j)
      PROVE  Good(runs'[k])
  <2>1. runs' = runs \/ \E n \in 1..Len(runs[j]) : runs' = [runs EXCEPT ![j] = SubSeq(@, 1, n)]
    BY <1>4 DEF _prune_runs, SaveFails
  <2>2. runs'[k] = runs[k] \/ \E n \in 1..Len(runs[k]) : runs'[k] = SubSeq(runs[k], 1, n)
    BY <1>1, <2>1
  <2>3. QED
    BY <1>1, <2>2, Shortened
<1>5. ASSUME NEW j \in Job, delete_job(j)
      PROVE  Good(runs'[k])
  <2>1. runs'[k] = runs[k] \/ runs'[k] = << >>
    BY <1>1, <1>5 DEF delete_job
  <2>2. QED
    BY <1>1, <2>1
<1>6. CASE UNCHANGED runs
  BY <1>1, <1>6
<1>7. [ReportNext]_reportVars => \/ \E j \in Job : Append_run(j) \/ Raised(j) \/ _prune_runs(j) \/ delete_job(j)
                                 \/ UNCHANGED runs
  BY DEF ReportNext, RunStep, reportVars, update_job, _execute_job, Load, CollectHygiene, CollectPolicy,
         CollectNat, CollectReview, CollectBackup, Collecting, MailBatch, MailOnce, Mailing, Clear, ReadRollup,
         StoreRollup, RestartProcess
<1>8. QED
  BY <1>2, <1>3, <1>4, <1>5, <1>6, <1>7

(* OkRecordsDelivered: a record that says ok stands for a report all of    *)
(* whose mails left, whichever scheduler wrote it.                         *)
THEOREM RecordsTellTheTruth == ReportSpec => []OkRecordsDelivered
<1>1. ReportInit => OkRecordsDelivered
  BY DEF ReportInit, OkRecordsDelivered
<1>2. QED
  BY <1>1, ReportInvInit, ReportInvStep, RecordsKept, PTL DEF ReportSpec

-----------------------------------------------------------------------------
(* The running flag.                                                       *)

LEMMA FlagKept == ReportIInv /\ RunningFlagFollows /\ [ReportNext]_reportVars => RunningFlagFollows'
<1> SUFFICES ASSUME ReportIInv, RunningFlagFollows, [ReportNext]_reportVars, NEW k \in running'
             PROVE  stage'[k] # "idle" \/ (k \in ReportJob /\ k \in broken')
  BY DEF RunningFlagFollows
<1>1. ReportTypeOK
  BY DEF ReportIInv
<1>2. k \in running => stage[k] # "idle" \/ (k \in ReportJob /\ k \in broken)
  BY DEF RunningFlagFollows
<1>3. ASSUME NEW j \in Job, RunStep(j)
      PROVE  stage'[k] # "idle" \/ (k \in ReportJob /\ k \in broken')
  <2> USE DEF Enter, ReportTypeOK
  <2>1. CASE _execute_job(j)
    BY <1>1, <1>2, <2>1 DEF _execute_job
  <2>2. CASE Load(j) \/ Clear(j)
    BY <1>1, <1>2, <2>2 DEF Load, Clear, history
  <2>3. CASE CollectHygiene(j) \/ CollectPolicy(j) \/ CollectNat(j) \/ CollectReview(j)
    BY <1>1, <1>2, <2>3 DEF CollectHygiene, CollectPolicy, CollectNat, CollectReview, Collecting, Collected,
                            CollectRaises
  <2>4. CASE CollectBackup(j) \/ MailBatch(j) \/ MailOnce(j)
    BY <1>1, <1>2, <2>4 DEF CollectBackup, Collecting, CollectRaises, MailBatch, MailOnce, Mailing, MailFails
  <2>5. CASE Append_run(j) \/ _prune_runs(j)
    BY <1>1, <1>2, <2>5 DEF Append_run, _prune_runs, SaveFails
  <2>6. CASE Raised(j)
    BY <1>1, <1>2, <2>6 DEF Raised
  <2>7. QED
    BY <1>3, <2>1, <2>2, <2>3, <2>4, <2>5, <2>6 DEF RunStep
<1>4. ASSUME NEW j \in ReviewJobs, ReadRollup(j) \/ StoreRollup(j)
      PROVE  stage'[k] # "idle" \/ (k \in ReportJob /\ k \in broken')
  BY <1>1, <1>2, <1>4 DEF ReadRollup, StoreRollup, Enter, ReportTypeOK
<1>5. CASE RestartProcess
  BY <1>5 DEF RestartProcess
<1>6. CASE UNCHANGED <<stage, running, broken>>
  BY <1>2, <1>6
<1>7. QED
  BY <1>3, <1>4, <1>5, <1>6 DEF ReportNext, reportVars, update_job, delete_job

(* RunningFlagFollows: the running flag of a job without a thread is only  *)
(* ever left by a failing save in the finally block of a report.           *)
THEOREM FlagFollowsThread == ReportSpec => []RunningFlagFollows
<1>1. ReportInit => RunningFlagFollows
  BY DEF ReportInit, RunningFlagFollows
<1>2. QED
  BY <1>1, ReportInvInit, ReportInvStep, FlagKept, PTL DEF ReportSpec
=============================================================================
