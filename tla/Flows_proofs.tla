----------------------------- MODULE Flows_proofs -----------------------------
(***************************************************************************)
(* What is true of the zone database, of the planners, of the rule review  *)
(* and of the rule lookup for every database, package, catalog and routing *)
(* table: their answers about a flow, and the effect of following them.    *)
(***************************************************************************)
EXTENDS ZonePolicy, ChangePlanner, RuleReview, RuleLookup, FqdnPlanner,
        SequenceTheorems, FiniteSetTheorems, WellFoundedInduction, TLAPS
-----------------------------------------------------------------------------
(* A set of natural numbers that is not empty has a least element.         *)
LEMMA Minimum ==
    ASSUME NEW S \in SUBSET Nat, S # {}
    PROVE  \E m \in S : \A k \in S : m <= k
<1>1. PICK m \in S : \A k \in S : ~(<<k, m>> \in OpToRel(<, Nat))
  BY WFMin, NatLessThanWellFounded, Zenon
<1>2. \A k \in S : ~(k < m)
  BY <1>1, Zenon DEF OpToRel
<1>3. QED
  BY <1>2

(* A sequence with e put before its b-th element, or at its end.           *)
Inserted(q, b, e) == SubSeq(q, 1, b - 1) \o <<e>> \o SubSeq(q, b, Len(q))

InsertedAt(q, b, e, j) == IF j < b THEN q[j] ELSE IF j = b THEN e ELSE q[j - 1]

LEMMA InsertedOne ==
    ASSUME NEW S, NEW q \in Seq(S), NEW b \in 1..Len(q) + 1, NEW e \in S
    PROVE  /\ Inserted(q, b, e) \in Seq(S)
           /\ Len(Inserted(q, b, e)) = Len(q) + 1
           /\ \A j \in 1..Len(q) + 1 : Inserted(q, b, e)[j] = InsertedAt(q, b, e, j)
<1> DEFINE before == SubSeq(q, 1, b - 1)
           after  == SubSeq(q, b, Len(q))
<1>1. Len(q) \in Nat /\ b \in Nat /\ b >= 1 /\ b <= Len(q) + 1 /\ \A j \in 1..Len(q) : q[j] \in S
  BY ElementOfSeq
<1>2. /\ before \in Seq(S) /\ Len(before) = b - 1
      /\ \A j \in 1..b - 1 : before[j] = q[j]
  <2>1. \A j \in 1..b - 1 : q[j] \in S
    BY <1>1
  <2>2. /\ before \in Seq(S)
        /\ Len(before) = IF 1 <= b - 1 THEN b - 1 - 1 + 1 ELSE 0
        /\ \A j \in 1..b - 1 - 1 + 1 : before[j] = q[1 + j - 1]
    BY <1>1, <2>1, SubSeqProperties
  <2>3. QED
    BY <1>1, <2>2
<1>3. /\ after \in Seq(S) /\ Len(after) = Len(q) - b + 1
      /\ \A j \in 1..Len(q) - b + 1 : after[j] = q[b + j - 1]
  <2>1. \A j \in b..Len(q) : q[j] \in S
    BY <1>1
  <2>2. /\ after \in Seq(S)
        /\ Len(after) = IF b <= Len(q) THEN Len(q) - b + 1 ELSE 0
        /\ \A j \in 1..Len(q) - b + 1 : after[j] = q[b + j - 1]
    BY <1>1, <2>1, SubSeqProperties
  <2>3. QED
    BY <1>1, <2>2
<1> DEFINE top == before \o <<e>>
<1>4. Inserted(q, b, e) = top \o after
  BY DEF Inserted
<1> HIDE DEF before, after
<1>5. /\ top \in Seq(S) /\ Len(top) = b
      /\ \A j \in 1..b : top[j] = IF j <= b - 1 THEN before[j] ELSE e
  <2>1. <<e>> \in Seq(S) /\ Len(<<e>>) = 1 /\ <<e>>[1] = e
    OBVIOUS
  <2>2. /\ top \in Seq(S) /\ Len(top) = Len(before) + Len(<<e>>)
        /\ \A j \in 1..Len(before) + Len(<<e>>) : top[j] =
              IF j <= Len(before) THEN before[j] ELSE <<e>>[j - Len(before)]
    BY <1>2, <2>1, ConcatProperties, Zenon
  <2>3. Len(top) = b
    BY <1>1, <1>2, <2>1, <2>2
  <2>4. ASSUME NEW j \in 1..b
        PROVE  top[j] = IF j <= b - 1 THEN before[j] ELSE e
    <3>1. top[j] = IF j <= b - 1 THEN before[j] ELSE <<e>>[j - (b - 1)]
      BY <1>1, <1>2, <2>1, <2>2
    <3>2. j <= b - 1 \/ j - (b - 1) = 1
      BY <1>1
    <3>3. QED
      BY <2>1, <3>1, <3>2
  <2>5. QED
    BY <2>2, <2>3, <2>4
<1> HIDE DEF top
<1>6. /\ Inserted(q, b, e) \in Seq(S)
      /\ Len(Inserted(q, b, e)) = Len(top) + Len(after)
      /\ \A j \in 1..Len(top) + Len(after) : Inserted(q, b, e)[j] =
            IF j <= Len(top) THEN top[j] ELSE after[j - Len(top)]
  <2>1. /\ top \o after \in Seq(S)
        /\ Len(top \o after) = Len(top) + Len(after)
        /\ \A j \in 1..Len(top) + Len(after) : (top \o after)[j] =
              IF j <= Len(top) THEN top[j] ELSE after[j - Len(top)]
    BY <1>3, <1>5, ConcatProperties, Zenon
  <2>2. QED
    BY <1>4, <2>1, Zenon
<1>7. Len(top) = b /\ Len(top) + Len(after) = Len(q) + 1
  BY <1>1, <1>3, <1>5
<1>8. \A j \in 1..Len(q) + 1 : Inserted(q, b, e)[j] = IF j <= b THEN top[j] ELSE after[j - b]
  BY <1>6, <1>7, Zenon
<1>9. ASSUME NEW j \in 1..Len(q) + 1
      PROVE  Inserted(q, b, e)[j] = IF j < b THEN q[j] ELSE IF j = b THEN e ELSE q[j - 1]
  <2>1. CASE j < b
    <3>1. Inserted(q, b, e)[j] = top[j] /\ top[j] = before[j]
      BY <1>1, <1>5, <1>8, <2>1
    <3>2. before[j] = q[j]
      BY <1>1, <1>2, <2>1
    <3>3. QED
      BY <2>1, <3>1, <3>2
  <2>2. CASE j = b
    BY <1>1, <1>5, <1>8, <2>2
  <2>3. CASE b < j
    <3>1. Inserted(q, b, e)[j] = after[j - b]
      BY <1>1, <1>8, <2>3
    <3>2. after[j - b] = q[b + (j - b) - 1] /\ b + (j - b) - 1 = j - 1
      BY <1>1, <1>3, <2>3
    <3>3. QED
      BY <1>1, <2>3, <3>1, <3>2
  <2>4. QED
    BY <1>1, <2>1, <2>2, <2>3
<1>10. QED
  BY <1>6, <1>7, <1>9 DEF InsertedAt
-----------------------------------------------------------------------------
(* Zones.  The queue of ancestor_zones ends with the least set that has    *)
(* the zones visited and waiting, and the parents of all it did not begin  *)
(* with.                                                                   *)

KnownParents(zones) == \A z \in Zone : Parents(zones, z) \subseteq Zone

Closes(zones, call, S) ==
    /\ call.queue \cup call.visited \subseteq S
    /\ \A y \in S \ call.visited : Parents(zones, y) \subseteq S

Least(zones, call) == {x \in Zone : \A S \in SUBSET Zone : Closes(zones, call, S) => x \in S}

LEMMA VisitOneKeeps ==
    ASSUME NEW zones, KnownParents(zones), NEW call \in ZoneVisit, call.queue # {}
    PROVE  /\ VisitOne(zones, call) \in ZoneVisit
           /\ \E z \in Zone \ call.visited : VisitOne(zones, call).visited = call.visited \cup {z}
           /\ Least(zones, VisitOne(zones, call)) = Least(zones, call)
<1> DEFINE z    == CHOOSE q \in call.queue : TRUE
           seen == call.visited \cup {z}
           next == VisitOne(zones, call)
<1>1. /\ call.queue \in SUBSET Zone /\ call.visited \in SUBSET Zone
      /\ call.queue \cap call.visited = {}
  BY DEF ZoneVisit
<1>2. z \in call.queue
  OBVIOUS
<1>3. next = [queue |-> (call.queue \cup Parents(zones, z)) \ seen, visited |-> seen]
  BY DEF VisitOne
<1> HIDE DEF z, next
<1>4. z \in Zone \ call.visited /\ Parents(zones, z) \subseteq Zone
  BY <1>1, <1>2 DEF KnownParents
<1>5. next.queue = (call.queue \cup Parents(zones, z)) \ seen /\ next.visited = seen
  BY <1>3
<1>6. next \in ZoneVisit
  BY <1>1, <1>3, <1>4 DEF ZoneVisit
<1>7. ASSUME NEW S \in SUBSET Zone
      PROVE  Closes(zones, next, S) <=> Closes(zones, call, S)
  <2>1. ASSUME Closes(zones, call, S)
        PROVE  Closes(zones, next, S)
    <3>1. Parents(zones, z) \subseteq S
      BY <1>2, <1>4, <2>1 DEF Closes
    <3>2. QED
      BY <1>2, <1>5, <2>1, <3>1 DEF Closes
  <2>2. ASSUME Closes(zones, next, S)
        PROVE  Closes(zones, call, S)
    <3>1. seen \subseteq S /\ call.queue \subseteq S /\ Parents(zones, z) \subseteq S
      BY <1>5, <2>2 DEF Closes
    <3>2. ASSUME NEW y \in S \ call.visited
          PROVE  Parents(zones, y) \subseteq S
      <4>1. CASE y = z
        BY <3>1, <4>1
      <4>2. CASE y # z
        BY <1>5, <2>2, <4>2 DEF Closes
      <4>3. QED
        BY <4>1, <4>2
    <3>3. QED
      BY <3>1, <3>2 DEF Closes
  <2>3. QED
    BY <2>1, <2>2
<1>8. Least(zones, next) = Least(zones, call)
  BY <1>7 DEF Least
<1>9. QED
  BY <1>4, <1>5, <1>6, <1>8 DEF next

AreVisits(f, zones) ==
    f = [call \in ZoneVisit |-> IF call.queue = {} THEN call.visited ELSE f[VisitOne(zones, call)]]

LEMMA LeastVisited ==
    ASSUME NEW zones, NEW call \in ZoneVisit, call.queue = {}
    PROVE  Least(zones, call) = call.visited
<1>1. call.visited \in SUBSET Zone
  BY DEF ZoneVisit
<1>2. Closes(zones, call, call.visited)
  BY DEF Closes
<1>3. \A S \in SUBSET Zone : Closes(zones, call, S) => call.visited \subseteq S
  BY DEF Closes
<1>4. QED
  BY <1>1, <1>2, <1>3 DEF Least

LEMMA VisitsExist ==
    ASSUME NEW zones, KnownParents(zones)
    PROVE  \E f : AreVisits(f, zones)
<1> DEFINE f == [call \in ZoneVisit |-> Least(zones, call)]
<1>1. ASSUME NEW call \in ZoneVisit, call.queue = {}
      PROVE  Least(zones, call) = call.visited
  BY <1>1, LeastVisited
<1>2. ASSUME NEW call \in ZoneVisit, call.queue # {}
      PROVE  Least(zones, call) = f[VisitOne(zones, call)]
  BY <1>2, VisitOneKeeps
<1>3. f = [call \in ZoneVisit |-> IF call.queue = {} THEN call.visited ELSE f[VisitOne(zones, call)]]
  <2> HIDE DEF f
  <2>1. ASSUME NEW call \in ZoneVisit
        PROVE  f[call] = IF call.queue = {} THEN call.visited ELSE f[VisitOne(zones, call)]
    BY <1>1, <1>2 DEF f
  <2>2. f = [call \in ZoneVisit |-> f[call]]
    BY DEF f
  <2>3. QED
    BY <2>1, <2>2
<1> HIDE DEF f
<1>4. AreVisits(f, zones)
  BY <1>3 DEF AreVisits
<1>5. QED
  BY <1>4

LEMMA VisitsAreLeast ==
    ASSUME NEW zones, KnownParents(zones), NEW call \in ZoneVisit
    PROVE  Visits(zones)[call] = Least(zones, call)
<1> DEFINE f       == Visits(zones)
           Left(c) == Cardinality(Zone \ c.visited)
           Wrong   == {c \in ZoneVisit : f[c] # Least(zones, c)}
           Bad     == {Left(c) : c \in Wrong}
<1>1. AreVisits(f, zones)
  <2>1. PICK g : AreVisits(g, zones)
    BY VisitsExist
  <2>2. f = CHOOSE h : AreVisits(h, zones)
    BY DEF Visits, AreVisits
  <2> HIDE DEF f
  <2>3. QED
    BY <2>1, <2>2
<1> HIDE DEF f
<1>2. \A c \in ZoneVisit : f[c] = IF c.queue = {} THEN c.visited ELSE f[VisitOne(zones, c)]
  BY <1>1 DEF AreVisits
<1>3. ASSUME NEW c \in ZoneVisit
      PROVE  IsFiniteSet(Zone \ c.visited) /\ Left(c) \in Nat
  BY ZoneAssumption, FS_Subset, FS_CardinalityType
<1>4. SUFFICES ASSUME Wrong # {}
               PROVE  FALSE
  BY DEF f
<1>5. PICK c \in Wrong : \A d \in Wrong : Left(c) <= Left(d)
  <2>1. Bad \in SUBSET Nat /\ Bad # {}
    BY <1>3, <1>4
  <2>2. PICK m \in Bad : \A k \in Bad : m <= k
    <3> HIDE DEF Bad
    <3>1. QED
      BY <2>1, Minimum
  <2>3. QED
    BY <2>2
<1>6. c \in ZoneVisit /\ f[c] # Least(zones, c)
  OBVIOUS
<1>7. CASE c.queue = {}
  <2>1. f[c] = c.visited
    BY <1>2, <1>6, <1>7
  <2>2. Least(zones, c) = c.visited
    BY <1>6, <1>7, LeastVisited
  <2>3. QED
    BY <1>6, <2>1, <2>2
<1>8. CASE c.queue # {}
  <2> DEFINE next == VisitOne(zones, c)
  <2>1. next \in ZoneVisit /\ Least(zones, next) = Least(zones, c)
    BY <1>6, <1>8, VisitOneKeeps
  <2>2. PICK z \in Zone \ c.visited : next.visited = c.visited \cup {z}
    BY <1>6, <1>8, VisitOneKeeps
  <2>3. f[c] = f[next]
    BY <1>2, <1>6, <1>8
  <2> HIDE DEF next
  <2>4. next \in Wrong
    BY <1>6, <2>1, <2>3
  <2>5. Left(next) < Left(c)
    <3>1. Zone \ next.visited = (Zone \ c.visited) \ {z}
      BY <2>2
    <3>2. Left(next) = Left(c) - 1
      BY <1>3, <1>6, <2>2, <3>1, FS_RemoveElement
    <3>3. Left(c) \in Nat
      BY <1>3, <1>6
    <3> HIDE DEF Left
    <3>4. QED
      BY <3>2, <3>3
  <2>6. Left(c) <= Left(next)
    BY <1>5, <2>4
  <2>7. QED
    BY <1>3, <1>6, <2>1, <2>5, <2>6
<1>9. QED
  BY <1>7, <1>8

(* The zones that inherit to a zone.                                       *)
LEMMA AncestorsAreAbove ==
    ASSUME NEW zones, KnownParents(zones), NEW z \in Zone
    PROVE  ancestor_zones(zones, z) = Above(zones, z)
<1> DEFINE call == [queue |-> {z}, visited |-> {}]
<1>1. call \in ZoneVisit /\ call.queue = {z} /\ call.visited = {}
  BY DEF ZoneVisit
<1>2. ancestor_zones(zones, z) = Visits(zones)[call]
  BY DEF ancestor_zones
<1> HIDE DEF call
<1>3. ancestor_zones(zones, z) = Least(zones, call)
  BY <1>1, <1>2, VisitsAreLeast
<1>4. ASSUME NEW S \in SUBSET Zone
      PROVE  Closes(zones, call, S) <=> z \in S /\ \A y \in S : Parents(zones, y) \subseteq S
  BY <1>1 DEF Closes
<1>5. Least(zones, call) = Above(zones, z)
  BY <1>4 DEF Least, Above
<1>6. QED
  BY <1>3, <1>5

-----------------------------------------------------------------------------
(* The type invariant of the zone database.                                *)
ZoneIInv ==
    /\ IsDatabase(db)
    /\ copy = [a \in ZoneAdmin |-> copy[a]]
    /\ \A a \in ZoneAdmin : copy[a] # NoDb => IsDatabase(copy[a])

LEMMA DatabaseOf ==
    ASSUME NEW zones, NEW pols \in Seq(Policy),
           DOMAIN zones \subseteq Zone, zones \in [DOMAIN zones -> ZoneRecord]
    PROVE  IsDatabase([zones |-> zones, policies |-> pols])
BY DEF IsDatabase

LEMMA DatabaseParts ==
    ASSUME NEW d, IsDatabase(d)
    PROVE  /\ d = [zones |-> d.zones, policies |-> d.policies] /\ d.policies \in Seq(Policy)
           /\ DOMAIN d.zones \subseteq Zone /\ d.zones \in [DOMAIN d.zones -> ZoneRecord]
           /\ KnownParents(d.zones)
<1>1. \A z \in DOMAIN d.zones : d.zones[z] \in ZoneRecord
  BY DEF IsDatabase
<1>2. KnownParents(d.zones)
  BY <1>1 DEF KnownParents, Parents, ZoneRecord
<1>3. QED
  BY <1>2 DEF IsDatabase

LEMMA SaveKeepsType ==
    ASSUME ZoneIInv, NEW a \in ZoneAdmin, NEW new, IsDatabase(new), save_db(a, new)
    PROVE  ZoneIInv'
<1>1. db' = new /\ copy' = [copy EXCEPT ![a] = NoDb]
  BY DEF save_db
<1>2. IsDatabase(db)'
  BY <1>1 DEF IsDatabase
<1>3. QED
  BY <1>1, <1>2 DEF ZoneIInv, IsDatabase

LEMMA RefuseKeepsType ==
    ASSUME ZoneIInv, NEW a \in ZoneAdmin, Refuse(a)
    PROVE  ZoneIInv'
BY DEF ZoneIInv, Refuse, IsDatabase

(* An edit of the zones, and one of the policies.                          *)
LEMMA ZonesKeepType ==
    ASSUME ZoneIInv, NEW a \in ZoneAdmin, copy[a] # NoDb, NEW zones,
           DOMAIN zones \subseteq Zone, zones \in [DOMAIN zones -> ZoneRecord],
           save_db(a, [copy[a] EXCEPT !.zones = zones])
    PROVE  ZoneIInv'
<1>1. IsDatabase(copy[a])
  BY DEF ZoneIInv
<1>2. [copy[a] EXCEPT !.zones = zones] = [zones |-> zones, policies |-> copy[a].policies]
  BY <1>1, DatabaseParts
<1>3. IsDatabase([copy[a] EXCEPT !.zones = zones])
  BY <1>1, <1>2, DatabaseOf, DatabaseParts
<1>4. QED
  BY <1>3, SaveKeepsType

LEMMA PoliciesKeepType ==
    ASSUME ZoneIInv, NEW a \in ZoneAdmin, copy[a] # NoDb, NEW pols \in Seq(Policy),
           save_db(a, [copy[a] EXCEPT !.policies = pols])
    PROVE  ZoneIInv'
<1>1. IsDatabase(copy[a])
  BY DEF ZoneIInv
<1>2. [copy[a] EXCEPT !.policies = pols] = [zones |-> copy[a].zones, policies |-> pols]
  BY <1>1, DatabaseParts
<1>3. IsDatabase([copy[a] EXCEPT !.policies = pols])
  BY <1>1, <1>2, DatabaseOf, DatabaseParts
<1>4. QED
  BY <1>3, SaveKeepsType

LEMMA ZonesStay ==
    ASSUME ZoneIInv, NEW a \in ZoneAdmin, NEW z \in Zone, zone_add(a, z) \/ zone_remove(a, z)
    PROVE  ZoneIInv'
<1> DEFINE old == copy[a].zones
<1>1. copy[a] # NoDb
  BY DEF zone_add, zone_remove
<1>2. DOMAIN old \subseteq Zone /\ old \in [DOMAIN old -> ZoneRecord]
  BY <1>1, DatabaseParts DEF ZoneIInv
<1>3. CASE Refuse(a)
  BY <1>3, RefuseKeepsType
<1>4. CASE zone_add(a, z) /\ ~Refuse(a)
  <2> DEFINE new == [x \in {z} \cup DOMAIN old |-> IF x = z THEN NewZone ELSE old[x]]
  <2>1. save_db(a, [copy[a] EXCEPT !.zones = new])
    BY <1>4 DEF zone_add
  <2>2. NewZone \in ZoneRecord
    BY DEF NewZone, ZoneRecord
  <2>3. DOMAIN new \subseteq Zone /\ new \in [DOMAIN new -> ZoneRecord]
    BY <1>2, <2>2
  <2> HIDE DEF new
  <2>4. QED
    BY <1>1, <2>1, <2>3, ZonesKeepType
<1>5. CASE zone_remove(a, z) /\ ~Refuse(a)
  <2> DEFINE new == [x \in DOMAIN old \ {z} |-> Unrelated(old[x], z)]
  <2>1. save_db(a, [copy[a] EXCEPT !.zones = new])
    BY <1>5 DEF zone_remove
  <2>2. \A r \in ZoneRecord : Unrelated(r, z) \in ZoneRecord
    BY DEF Unrelated, ZoneRecord
  <2>3. DOMAIN new \subseteq Zone /\ new \in [DOMAIN new -> ZoneRecord]
    BY <1>2, <2>2
  <2> HIDE DEF new
  <2>4. QED
    BY <1>1, <2>1, <2>3, ZonesKeepType
<1>6. QED
  BY <1>3, <1>4, <1>5

LEMMA SubnetsStay ==
    ASSUME ZoneIInv, NEW a \in ZoneAdmin, NEW z \in Zone, NEW n \in Subnet,
           subnet_add(a, z, n) \/ subnet_remove(a, z, n)
    PROVE  ZoneIInv'
<1> DEFINE old == copy[a].zones
           With(nets) == [old EXCEPT ![z].subnets = nets]
<1>1. copy[a] # NoDb
  BY DEF subnet_add, subnet_remove
<1>2. DOMAIN old \subseteq Zone /\ old \in [DOMAIN old -> ZoneRecord]
  BY <1>1, DatabaseParts DEF ZoneIInv
<1>3. CASE Refuse(a)
  BY <1>3, RefuseKeepsType
<1>4. CASE ~Refuse(a)
  <2>1. z \in DOMAIN old
    BY <1>4 DEF subnet_add, subnet_remove
  <2>2. PICK nets \in {old[z].subnets \cup {n}, old[z].subnets \ {n}} : save_db(a, [copy[a] EXCEPT !.zones = With(nets)])
    <3>1. copy[a] = [zones |-> old, policies |-> copy[a].policies]
      BY <1>1, DatabaseParts DEF ZoneIInv
    <3>2. [copy[a] EXCEPT !.zones[z].subnets = @ \cup {n}] = [copy[a] EXCEPT !.zones = With(old[z].subnets \cup {n})]
      OBVIOUS
    <3>3. [copy[a] EXCEPT !.zones[z].subnets = @ \ {n}] = [copy[a] EXCEPT !.zones = With(old[z].subnets \ {n})]
      OBVIOUS
    <3>4. QED
      BY <1>4, <3>2, <3>3 DEF subnet_add, subnet_remove
  <2>3. old[z] \in ZoneRecord
    BY <1>2, <2>1
  <2>4. [old[z] EXCEPT !.subnets = nets] \in ZoneRecord
    BY <2>2, <2>3, ZoneAssumption DEF ZoneRecord
  <2>5. With(nets) = [old EXCEPT ![z] = [old[z] EXCEPT !.subnets = nets]]
    OBVIOUS
  <2>6. DOMAIN With(nets) \subseteq Zone /\ With(nets) \in [DOMAIN With(nets) -> ZoneRecord]
    BY <1>2, <2>4, <2>5
  <2> HIDE DEF With
  <2>7. QED
    BY <1>1, <2>2, <2>6, ZonesKeepType
<1>5. QED
  BY <1>3, <1>4

LEMMA PoliciesStay ==
    ASSUME ZoneIInv, NEW a \in ZoneAdmin,
           \/ \E p \in PolicyForm : policy_add(a, p)
           \/ \E i \in 1..MaxZonePolicies : policy_remove(a, i)
           \/ \E i \in 1..MaxZonePolicies, p \in PolicyForm : policy_modify(a, i, p)
    PROVE  ZoneIInv'
<1> DEFINE old == copy[a].policies
<1>1. copy[a] # NoDb
  BY DEF policy_add, policy_remove, policy_modify
<1>2. old \in Seq(Policy) /\ DOMAIN old = 1..Len(old) /\ Len(old) \in Nat /\ \A i \in DOMAIN old : old[i] \in Policy
  <2>1. old \in Seq(Policy)
    BY <1>1, DatabaseParts DEF ZoneIInv
  <2> HIDE DEF old
  <2>2. QED
    BY <2>1
<1>3. CASE Refuse(a)
  BY <1>3, RefuseKeepsType
<1>4. CASE ~Refuse(a) /\ \E p \in PolicyForm : policy_add(a, p)
  <2>1. PICK p \in PolicyForm : policy_add(a, p)
    BY <1>4
  <2>2. save_db(a, [copy[a] EXCEPT !.policies = Append(old, p)])
    BY <1>4, <2>1 DEF policy_add
  <2>3. Append(old, p) \in Seq(Policy)
    BY <1>2, <2>1, ZoneAssumption
  <2>4. QED
    BY <1>1, <2>2, <2>3, PoliciesKeepType
<1>5. CASE ~Refuse(a) /\ \E i \in 1..MaxZonePolicies : policy_remove(a, i)
  <2>1. PICK i \in 1..MaxZonePolicies : policy_remove(a, i)
    BY <1>5
  <2> DEFINE new == SubSeq(old, 1, i - 1) \o SubSeq(old, i + 1, Len(old))
  <2>2. i \in DOMAIN old /\ save_db(a, [copy[a] EXCEPT !.policies = new])
    BY <1>5, <2>1 DEF policy_remove
  <2>3. new \in Seq(Policy)
    <3>1. i \in 1..Len(old)
      BY <1>2, <2>2
    <3> HIDE DEF old
    <3>2. SubSeq(old, 1, i - 1) \in Seq(Policy) /\ SubSeq(old, i + 1, Len(old)) \in Seq(Policy)
      BY <1>2, <3>1
    <3>3. QED
      BY <3>2
  <2> HIDE DEF new
  <2>4. QED
    BY <1>1, <2>2, <2>3, PoliciesKeepType
<1>6. CASE ~Refuse(a) /\ \E i \in 1..MaxZonePolicies, p \in PolicyForm : policy_modify(a, i, p)
  <2>1. PICK i \in 1..MaxZonePolicies, p \in PolicyForm : policy_modify(a, i, p)
    BY <1>6
  <2>2. i \in DOMAIN old /\ p \in Policy
    BY <1>6, <2>1, ZoneAssumption DEF policy_modify
  <2>3. PICK q \in {[old[i] EXCEPT !.services = p.services], [old[i] EXCEPT !.access_type = p.access_type]} :
          save_db(a, [copy[a] EXCEPT !.policies = [old EXCEPT ![i] = q]])
    BY <1>6, <2>1 DEF policy_modify
  <2>4. q \in Policy
    BY <1>2, <2>2, <2>3 DEF Policy
  <2>5. [old EXCEPT ![i] = q] \in Seq(Policy)
    <3> HIDE DEF old
    <3>1. QED
      BY <1>2, <2>2, <2>4
  <2>6. QED
    BY <1>1, <2>3, <2>5, PoliciesKeepType
<1>7. QED
  BY <1>3, <1>4, <1>5, <1>6

LEMMA ZoneTypes == ZoneSpec => []ZoneIInv
<1>1. ASSUME ZoneInit
      PROVE  ZoneIInv
  BY <1>1, ZoneAssumption DEF ZoneInit, ZoneIInv
<1>2. ASSUME ZoneIInv, ZoneNext
      PROVE  ZoneIInv'
  <2>1. PICK a \in ZoneAdmin : ZoneEdit(a)
    BY <1>2 DEF ZoneNext
  <2>2. CASE load_db(a)
    BY <1>2, <2>2 DEF load_db, ZoneIInv, IsDatabase
  <2>3. CASE \E z \in Zone : zone_add(a, z) \/ zone_remove(a, z)
    BY <1>2, <2>3, ZonesStay
  <2>4. CASE \E z \in Zone, n \in Subnet : subnet_add(a, z, n) \/ subnet_remove(a, z, n)
    BY <1>2, <2>4, SubnetsStay
  <2>5. CASE api_restore(a)
    BY <1>2, <2>5, SaveKeepsType, ZoneAssumption DEF api_restore
  <2>6. QED
    BY <1>2, <2>1, <2>2, <2>3, <2>4, <2>5, PoliciesStay DEF ZoneEdit
<1>3. ASSUME ZoneIInv, UNCHANGED zoneVars
      PROVE  ZoneIInv'
  BY <1>3 DEF ZoneIInv, zoneVars, IsDatabase
<1>4. QED
  BY <1>1, <1>2, <1>3, PTL DEF ZoneSpec

-----------------------------------------------------------------------------
(* Of the policies that apply, the first of each key is kept, and no other *)
(* key appears.                                                            *)
FirstOfKeys(pols, applies) ==
    {pols[i] : i \in {j \in applies : \A k \in applies : k < j => DedupKey(pols[k]) # DedupKey(pols[j])}}

LEMMA KeysAreKept ==
    ASSUME NEW pols, NEW applies \in SUBSET Nat
    PROVE  {DedupKey(p) : p \in FirstOfKeys(pols, applies)} = {DedupKey(pols[i]) : i \in applies}
<1>1. ASSUME NEW i \in applies
      PROVE  \E p \in FirstOfKeys(pols, applies) : DedupKey(p) = DedupKey(pols[i])
  <2> DEFINE same == {k \in applies : DedupKey(pols[k]) = DedupKey(pols[i])}
  <2>1. same \in SUBSET Nat /\ same # {}
    OBVIOUS
  <2>2. PICK m \in same : \A k \in same : m <= k
    <3> HIDE DEF same
    <3>1. QED
      BY <2>1, Minimum
  <2>3. \A k \in applies : k < m => DedupKey(pols[k]) # DedupKey(pols[m])
    <3>1. ASSUME NEW k \in applies, k < m, DedupKey(pols[k]) = DedupKey(pols[m])
          PROVE  FALSE
      <4>1. k \in same
        BY <3>1
      <4>2. m <= k
        BY <2>2, <4>1
      <4>3. k \in Nat /\ m \in Nat
        OBVIOUS
      <4> HIDE DEF same
      <4>4. QED
        BY <3>1, <4>2, <4>3
    <3>2. QED
      BY <3>1
  <2>4. pols[m] \in FirstOfKeys(pols, applies)
    BY <2>3 DEF FirstOfKeys
  <2>5. QED
    BY <2>2, <2>4
<1>2. \A p \in FirstOfKeys(pols, applies) : \E i \in applies : p = pols[i]
  BY DEF FirstOfKeys
<1>3. QED
  BY <1>1, <1>2

Applying(zones, pols, from, to) ==
    {i \in DOMAIN pols : /\ pols[i].from_zone \in UNION {ancestor_zones(zones, z) : z \in from}
                             /\ pols[i].to_zone \in UNION {ancestor_zones(zones, z) : z \in to}}

LEMMA MatchingAreFirst ==
    ASSUME NEW zones, NEW pols, NEW from, NEW to
    PROVE  find_matching_policies(zones, pols, from, to) = FirstOfKeys(pols, Applying(zones, pols, from, to))
BY DEF find_matching_policies, FirstOfKeys, Applying

(* A policy of any zone above the two ends of a flow has its say, whatever *)
(* edits, restores and lost updates made of the zones and their parents:   *)
(* find_matching_policies and ancestor_zones of zone_db.py.                *)
THEOREM InheritedApply == ZoneSpec => []InheritedPoliciesApply
<1>1. ASSUME ZoneIInv
      PROVE  InheritedPoliciesApply
  <2> DEFINE Reaching(x, y) == {j \in DOMAIN db.policies : /\ db.policies[j].from_zone \in Above(db.zones, x)
                                                          /\ db.policies[j].to_zone \in Above(db.zones, y)}
  <2>1. KnownParents(db.zones) /\ db.policies \in Seq(Policy)
    BY <1>1, DatabaseParts DEF ZoneIInv
  <2>2. ASSUME NEW x \in Zone, NEW y \in Zone
        PROVE  {DedupKey(p) : p \in find_matching_policies(db.zones, db.policies, {x}, {y})}
                 = {DedupKey(db.policies[i]) : i \in Reaching(x, y)}
    <3>1. /\ UNION {ancestor_zones(db.zones, z) : z \in {x}} = Above(db.zones, x)
          /\ UNION {ancestor_zones(db.zones, z) : z \in {y}} = Above(db.zones, y)
      <4>1. ancestor_zones(db.zones, x) = Above(db.zones, x) /\ ancestor_zones(db.zones, y) = Above(db.zones, y)
        BY <2>1, AncestorsAreAbove
      <4>2. QED
        BY <4>1
    <3>2. Applying(db.zones, db.policies, {x}, {y}) = Reaching(x, y)
      BY <3>1 DEF Applying
    <3>3. Reaching(x, y) \in SUBSET Nat
      BY <2>1
    <3> HIDE DEF Reaching
    <3>4. QED
      BY <3>2, <3>3, KeysAreKept, MatchingAreFirst
  <2>3. QED
    BY <2>2 DEF InheritedPoliciesApply
<1>2. QED
  BY <1>1, ZoneTypes, PTL

-----------------------------------------------------------------------------
(* What is in the way of one address is in the way of all.                 *)
Blocks(p, service) ==
    \/ p.access_type = "block all"
    \/ p.access_type = "block only" /\ NamesService(p, {service})

LEMMA ZonesOfPart ==
    ASSUME NEW zones, NEW s, NEW x \in s, \E z \in DOMAIN zones : \E n \in zones[z].subnets : x \in n
    PROVE  /\ zones_for_endpoint(zones, {x}) # {} /\ zones_for_endpoint(zones, s) # {}
           /\ zones_for_endpoint(zones, {x}) \subseteq zones_for_endpoint(zones, s)
<1> DEFINE Hit(e) == {z \in DOMAIN zones : \E n \in zones[z].subnets : n \cap e # {}}
<1>1. Hit({x}) # {} /\ Hit({x}) \subseteq Hit(s)
  OBVIOUS
<1>2. zones_for_endpoint(zones, {x}) = Hit({x}) /\ zones_for_endpoint(zones, s) = Hit(s)
  BY <1>1 DEF zones_for_endpoint
<1>3. QED
  BY <1>1, <1>2

LEMMA MoreZonesSameKeys ==
    ASSUME NEW zones, NEW pols \in Seq(Policy), NEW from, NEW to, NEW more, NEW most,
           from \subseteq more, to \subseteq most,
           NEW p \in find_matching_policies(zones, pols, from, to)
    PROVE  p \in find_matching_policies(zones, pols, more, most)
<1> DEFINE few  == Applying(zones, pols, from, to)
           many == Applying(zones, pols, more, most)
<1>1. PICK j \in few : p = pols[j] /\ \A k \in few : k < j => DedupKey(pols[k]) # DedupKey(pols[j])
  BY MatchingAreFirst DEF FirstOfKeys
<1>2. j \in many
  BY <1>1 DEF Applying
<1>3. ASSUME NEW k \in many, k < j, DedupKey(pols[k]) = DedupKey(pols[j])
      PROVE  FALSE
  <2>1. pols[k].from_zone = pols[j].from_zone /\ pols[k].to_zone = pols[j].to_zone
    BY <1>3 DEF DedupKey
  <2>2. k \in few
    BY <1>1, <1>3, <2>1 DEF Applying
  <2>3. QED
    BY <1>1, <1>3, <2>2
<1>4. p \in FirstOfKeys(pols, many)
  BY <1>1, <1>2, <1>3 DEF FirstOfKeys
<1>5. QED
  BY <1>4, MatchingAreFirst

LEMMA BlockedWins ==
    ASSUME NEW pols, NEW service, NEW p \in pols, Blocks(p, service)
    PROVE  evaluate(pols, {service}) = "BLOCKED"
<1>1. pols # {} /\ {service} # {}
  OBVIOUS
<1>2. CASE p.access_type = "block all"
  BY <1>1, <1>2, Zenon DEF evaluate
<1>3. CASE p.access_type = "block only" /\ NamesService(p, {service})
  BY <1>1, <1>3, Zenon DEF evaluate
<1>4. QED
  BY <1>2, <1>3 DEF Blocks

(* A request is ALLOWED only if no policy blocks any address of it that    *)
(* lies in a zone, whatever edits made of the database: run_query and      *)
(* evaluate of zone_db.py, and _consolidated_zone_verdict of the planner.  *)
THEOREM AllowedIsUnblocked == ZoneSpec => []AllowedMeansNoBlock
<1>1. ASSUME ZoneIInv
      PROVE  AllowedMeansNoBlock
  <2>1. db.policies \in Seq(Policy)
    BY <1>1, DatabaseParts DEF ZoneIInv
  <2>2. ASSUME NEW s \in Subnet, NEW t \in Subnet, NEW services \in SUBSET ServiceToken,
               _consolidated_zone_verdict(db, {s}, {t, s}, services) = "ALLOWED",
               NEW x \in s, NEW d \in {t, s}, NEW v \in services, NEW y \in d,
               Zoned(x), Zoned(y), BlockedBetween(x, y, v)
        PROVE  FALSE
    <3> DEFINE combinations == {s} \X {t, s} \X services
               verdicts     == {fetch_zone_verdict(db, c[1], c[2], c[3]) : c \in combinations}
               From(e)      == zones_for_endpoint(db.zones, e)
    <3>1. /\ From({x}) # {} /\ From(s) # {} /\ From({x}) \subseteq From(s)
          /\ From({y}) # {} /\ From(d) # {} /\ From({y}) \subseteq From(d)
      BY <2>2, ZonesOfPart DEF Zoned
    <3>2. PICK p \in find_matching_policies(db.zones, db.policies, From({x}), From({y})) : Blocks(p, v)
      BY <2>2, Zenon DEF BlockedBetween, Blocks
    <3> HIDE DEF From
    <3>3. p \in find_matching_policies(db.zones, db.policies, From(s), From(d))
      BY <2>1, <3>1, <3>2, MoreZonesSameKeys, Zenon
    <3>4. run_query(db, s, d, {v}).verdict = "BLOCKED" /\ run_query(db, s, d, {v}).src_zones = From(s)
          /\ run_query(db, s, d, {v}).dst_zones = From(d)
      BY <3>2, <3>3, BlockedWins DEF run_query, From
    <3>5. fetch_zone_verdict(db, s, d, v) = "BLOCKED"
      BY <3>1, <3>4 DEF fetch_zone_verdict
    <3>6. "BLOCKED" \in verdicts
      <4>1. <<s, d, v>> \in combinations
        OBVIOUS
      <4>2. QED
        BY <3>5, <4>1
    <3> HIDE DEF verdicts
    <3>7. "ALLOWED" \in verdicts => _consolidated_zone_verdict(db, {s}, {t, s}, services) # "ALLOWED"
      BY <3>6, Zenon DEF _consolidated_zone_verdict, verdicts
    <3>8. (CHOOSE w \in verdicts : TRUE) \in verdicts
      BY <3>6
    <3>9. QED
      BY <2>2, <3>7, <3>8 DEF _consolidated_zone_verdict, verdicts
  <2>3. QED
    BY <2>2 DEF AllowedMeansNoBlock
<1>2. QED
  BY <1>1, ZoneTypes, PTL

-----------------------------------------------------------------------------
(* Change planner.  What a catalog knows of a name is part of what the     *)
(* firewall takes it for, appended networks included.                      *)
PlannerTypes ==
    /\ policies \in Seq(PolicyRule)
    /\ appended \in [AddrGroup -> SUBSET SUBSET Host]
    /\ snapshot \in Snapshot

LEMMA RulesAreTyped ==
    ASSUME PlannerTypes
    PROVE  /\ DOMAIN policies = 1..Len(policies) /\ Len(policies) \in Nat
           /\ \A i \in DOMAIN policies : policies[i] \in PolicyRule
BY DEF PlannerTypes

LEMMA CatalogIsPart ==
    ASSUME PlannerTypes, NEW r \in AddrRef, catalog_networks(r) # Unknown
    PROVE  UNION catalog_networks(r) \subseteq AddrPoints(r)
<1>1. CASE r \notin AddrName
  BY <1>1 DEF catalog_networks, AddrPoints
<1>2. CASE r \in AddrName
  <2>1. snapshot.nets[r] # Unknown /\ catalog_networks(r) = snapshot.nets[r] \cup Added(r)
    BY <1>2 DEF catalog_networks
  <2>2. UNION snapshot.nets[r] \subseteq AddrMeans[r]
    BY <1>2, <2>1, SnapshotAssumption DEF PlannerTypes
  <2>3. \A g \in AddrGroup : snapshot.inside[g] \subseteq Inside[g]
    BY SnapshotAssumption DEF PlannerTypes
  <2>4. Added(r) \subseteq AddedTo(r)
    BY <2>3 DEF Added, AddedTo
  <2>5. AddrPoints(r) = AddrMeans[r] \cup UNION AddedTo(r)
    BY <1>2 DEF AddrPoints
  <2>6. QED
    BY <2>1, <2>2, <2>4, <2>5
<1>3. QED
  BY <1>1, <1>2

(* What a field matches was found to match, if the names in it are known   *)
(* in full or excluded; what it was found to cover it matches, if those it *)
(* excludes are known in full.                                             *)
LEMMA FieldMatches ==
    ASSUME PlannerTypes, NEW refs \in SUBSET AddrRef, NEW negate \in BOOLEAN, NEW target \in SUBSET Host,
           NEW a \in target
    PROVE  /\ InField(a, refs, negate) /\ (~negate => KnownInFull(refs)) => _addr_dim(refs, negate, target).matched
           /\ _addr_dim(refs, negate, target).full /\ (negate => KnownInFull(refs)) => InField(a, refs, negate)
<1> DEFINE In == \E r \in refs : a \in AddrPoints(r)
<1>1. a \in Addresses(refs) => In
  <2>1. ASSUME a \in Addresses(refs)
        PROVE  In
    <3>1. PICK r \in refs : catalog_networks(r) # Unknown /\ a \in UNION catalog_networks(r)
      BY <2>1 DEF Addresses, Nets
    <3>2. QED
      BY <3>1, CatalogIsPart
  <2>2. QED
    BY <2>1
<1>2. KnownInFull(refs) => (In => a \in Addresses(refs) \/ UnknownAddr(refs))
  <2>1. ASSUME KnownInFull(refs), NEW r \in refs, a \in AddrPoints(r), ~UnknownAddr(refs)
        PROVE  a \in Addresses(refs)
    <3>1. catalog_networks(r) # Unknown
      BY <2>1 DEF UnknownAddr
    <3>2. a \in UNION catalog_networks(r)
      BY <2>1, <3>1 DEF KnownInFull
    <3>3. QED
      BY <3>1, <3>2 DEF Addresses, Nets
  <2>2. QED
    BY <2>1
<1>3. /\ negate => (InField(a, refs, negate) <=> ~In)
      /\ ~negate => (InField(a, refs, negate) <=> In)
  BY DEF InField
<1>4. Cardinality(target) > 1 \/ target = {a}
  <2>1. IsFiniteSet(target) /\ Cardinality(target) \in Nat
    BY PlannerAssumption, FS_Subset, FS_CardinalityType
  <2>2. Cardinality(target) # 0
    BY <2>1, FS_EmptySet
  <2>3. Cardinality(target) = 1 => target = {a}
    <3>1. ASSUME Cardinality(target) = 1
          PROVE  target = {a}
      <4>1. PICK x : target = {x}
        BY <2>1, <3>1, FS_Singleton
      <4>2. QED
        BY <4>1
    <3>2. QED
      BY <3>1
  <2>4. QED
    BY <2>1, <2>2, <2>3
<1> HIDE DEF In
<1>5. CASE negate /\ UnknownAddr(refs)
  BY <1>5 DEF _addr_dim, Match
<1>6. CASE negate /\ ~UnknownAddr(refs)
  <2> DEFINE found == _addr_dim(refs, negate, target)
  <2>1. /\ found.matched = (IF Cardinality(target) > 1 THEN ~(target \subseteq Addresses(refs))
                            ELSE ~(target \cap Addresses(refs) # {}))
        /\ found.full = ~(target \cap Addresses(refs) # {})
    BY <1>6 DEF _addr_dim, Match
  <2> HIDE DEF found
  <2>2. InField(a, refs, negate) => a \notin Addresses(refs)
    BY <1>1, <1>3, <1>6
  <2>3. KnownInFull(refs) /\ a \notin Addresses(refs) => InField(a, refs, negate)
    BY <1>2, <1>3, <1>6
  <2>4. QED
    BY <1>4, <1>6, <2>1, <2>2, <2>3 DEF found
<1>7. CASE ~negate /\ target \subseteq Addresses(refs)
  <2>1. _addr_dim(refs, negate, target) = Match(TRUE, TRUE)
    BY <1>7 DEF _addr_dim
  <2>2. In
    BY <1>1, <1>7
  <2>3. QED
    BY <1>3, <1>7, <2>1, <2>2 DEF Match
<1>8. CASE ~negate /\ ~(target \subseteq Addresses(refs))
  <2>1. /\ _addr_dim(refs, negate, target).matched = (target \cap Addresses(refs) # {} \/ UnknownAddr(refs))
        /\ _addr_dim(refs, negate, target).full = FALSE
    BY <1>8 DEF _addr_dim, Match
  <2>2. KnownInFull(refs) /\ In => target \cap Addresses(refs) # {} \/ UnknownAddr(refs)
    BY <1>2
  <2>3. QED
    BY <1>3, <1>8, <2>1, <2>2
<1>9. QED
  BY <1>5, <1>6, <1>7, <1>8

LEMMA ServiceMatches ==
    ASSUME NEW refs \in SUBSET SvcRef, NEW wanted, NEW k, k.port \in UNION wanted, k.sport \in SrcPort
    PROVE  /\ InService(k, refs) /\ NoLessThanMeant(refs) => _svc_dim(refs, wanted).matched
           /\ _svc_dim(refs, wanted).full /\ NoMoreThanMeant(refs) => InService(k, refs)
<1>1. PICK w \in wanted : k.port \in w
  OBVIOUS
<1> DEFINE fits == wanted # {} /\ \A v \in wanted : \E r \in Ranges(refs) : v \subseteq r
           some == (\E v \in wanted, r \in Ranges(refs) : v \cap r # {}) \/ UnknownSvc(refs)
<1>2. _svc_dim(refs, wanted) = IF fits THEN Match(TRUE, TRUE) ELSE Match(some, FALSE)
  BY Zenon DEF _svc_dim
<1>3. ASSUME InService(k, refs), NoLessThanMeant(refs)
      PROVE  some
  <2>1. PICK r \in refs : <<k.port, k.sport>> \in SvcPoints(r)
    BY <1>3 DEF InService
  <2>2. CASE ranges_for_ref(r) = Unknown
    BY <2>2 DEF UnknownSvc
  <2>3. CASE ranges_for_ref(r) # Unknown
    <3>1. <<k.port, k.sport>> \in (UNION ranges_for_ref(r)) \X SrcPort
      BY <1>3, <2>1, <2>3 DEF NoLessThanMeant
    <3>2. PICK n \in ranges_for_ref(r) : k.port \in n
      BY <3>1
    <3>3. n \in Ranges(refs)
      BY <2>3, <3>2 DEF Ranges
    <3>4. QED
      BY <1>1, <3>2, <3>3
  <2>4. QED
    BY <2>2, <2>3
<1>4. ASSUME fits, NoMoreThanMeant(refs)
      PROVE  InService(k, refs)
  <2>1. PICK n \in Ranges(refs) : k.port \in n
    BY <1>1, <1>4
  <2>2. PICK r \in refs : ranges_for_ref(r) # Unknown /\ n \in ranges_for_ref(r)
    BY <2>1 DEF Ranges
  <2>3. <<k.port, k.sport>> \in (UNION ranges_for_ref(r)) \X SrcPort
    BY <2>1, <2>2
  <2>4. <<k.port, k.sport>> \in SvcPoints(r)
    BY <1>4, <2>2, <2>3 DEF NoMoreThanMeant
  <2>5. QED
    BY <2>4 DEF InService
<1> HIDE DEF fits, some
<1>5. QED
  BY <1>2, <1>3, <1>4 DEF Match

-----------------------------------------------------------------------------
(* The packets of a request, and the rules they meet.                      *)
PacketMeets(req, p, k) ==
    /\ p \in Pairs(req) /\ k.src \in p[1] /\ k.dst \in p[2]
    /\ k.port \in UNION service_ranges(req) /\ k.sport \in SrcPort /\ OnInterfaces(req, k)

LEMMA RequestTypes ==
    ASSUME NEW req \in Request
    PROVE  /\ req.srcs \subseteq SUBSET Host /\ req.dsts \subseteq SUBSET Host
           /\ service_ranges(req) \subseteq SUBSET Port
           /\ \A t \in req.tokens : TokenRanges(t) \subseteq SUBSET Port /\ t[1] \in TokenRanges(t)
<1>1. ASSUME NEW t \in req.tokens
      PROVE  TokenRanges(t) \subseteq SUBSET Port /\ t[1] \in TokenRanges(t)
  <2>1. t \in Seq(SUBSET Port) /\ t # <<>>
    BY PlannerAssumption
  <2>2. 1 \in DOMAIN t /\ \A i \in DOMAIN t : t[i] \in SUBSET Port
    BY <2>1, EmptySeq, ElementOfSeq, LenProperties
  <2>3. QED
    BY <2>2 DEF TokenRanges
<1>2. QED
  BY <1>1, PlannerAssumption DEF service_ranges

LEMMA PacketsMeet ==
    ASSUME NEW req \in Request, NEW k \in PacketsOf(req)
    PROVE  /\ k \in FlowPacket /\ OnInterfaces(req, k)
           /\ \E p \in Pairs(req) : PacketMeets(req, p, k)
<1>1. /\ k \in [src : UNION req.srcs, dst : UNION req.dsts, port : UNION service_ranges(req), sport : SrcPort]
      /\ OnInterfaces(req, k)
  BY DEF PacketsOf, Asked
<1>2. k \in FlowPacket
  BY <1>1, RequestTypes DEF FlowPacket
<1>3. PICK s \in req.srcs, d \in req.dsts : k.src \in s /\ k.dst \in d
  BY <1>1
<1>4. <<s, d>> \in Pairs(req) /\ <<s, d>>[1] = s /\ <<s, d>>[2] = d
  BY DEF Pairs
<1>5. PacketMeets(req, <<s, d>>, k)
  BY <1>1, <1>3, <1>4 DEF PacketMeets
<1>6. QED
  BY <1>1, <1>2, <1>4, <1>5

LEMMA EvaluateFields ==
    ASSUME NEW pol, NEW s, NEW d, NEW wanted
    PROVE  LET from == _addr_dim(pol.src, pol.src_negate, s)
               to   == _addr_dim(pol.dst, pol.dst_negate, d)
               svc  == _svc_dim(pol.svc, wanted)
               r    == matcher_evaluate(pol, s, d, wanted)
           IN  /\ from.matched /\ to.matched /\ svc.matched => r.matched
               /\ r.full => from.full /\ to.full /\ svc.full
BY DEF matcher_evaluate, Match

LEMMA HitsAreMatched ==
    ASSUME PlannerTypes, NEW pol \in PolicyRule, SeenInFull(pol), NEW req \in Request, NEW p, NEW k,
           PacketMeets(req, p, k), NEW when \in BOOLEAN
    PROVE  PolicyHits(pol, k, when) => Result(pol, req, p).matched
<1>1. /\ p[1] \in SUBSET Host /\ p[2] \in SUBSET Host /\ k.src \in p[1] /\ k.dst \in p[2]
      /\ k.port \in UNION service_ranges(req) /\ k.sport \in SrcPort
  BY RequestTypes DEF PacketMeets, Pairs
<1>2. /\ pol.src \in SUBSET AddrRef /\ pol.dst \in SUBSET AddrRef /\ pol.svc \in SUBSET SvcRef
      /\ pol.src_negate \in BOOLEAN /\ pol.dst_negate \in BOOLEAN
  BY DEF PolicyRule
<1>3. SUFFICES ASSUME PolicyHits(pol, k, when)
               PROVE  Result(pol, req, p).matched
  OBVIOUS
<1>4. /\ InField(k.src, pol.src, pol.src_negate) /\ InField(k.dst, pol.dst, pol.dst_negate)
      /\ InService(k, pol.svc)
  BY <1>3 DEF PolicyHits
<1>5. /\ ~pol.src_negate => KnownInFull(pol.src)
      /\ ~pol.dst_negate => KnownInFull(pol.dst)
      /\ NoLessThanMeant(pol.svc)
  BY DEF SeenInFull
<1>6. /\ _addr_dim(pol.src, pol.src_negate, p[1]).matched
      /\ _addr_dim(pol.dst, pol.dst_negate, p[2]).matched
  BY <1>1, <1>2, <1>4, <1>5, FieldMatches
<1>7. _svc_dim(pol.svc, service_ranges(req)).matched
  BY <1>1, <1>2, <1>4, <1>5, ServiceMatches
<1>8. QED
  BY <1>6, <1>7, EvaluateFields DEF Result

LEMMA FullIsHit ==
    ASSUME PlannerTypes, NEW pol \in PolicyRule, CoversAsRead(pol), NEW req \in Request, NEW p, NEW k,
           PacketMeets(req, p, k)
    PROVE  Result(pol, req, p).full =>
             /\ InField(k.src, pol.src, pol.src_negate) /\ InField(k.dst, pol.dst, pol.dst_negate)
             /\ InService(k, pol.svc)
<1>1. /\ p[1] \in SUBSET Host /\ p[2] \in SUBSET Host /\ k.src \in p[1] /\ k.dst \in p[2]
      /\ k.port \in UNION service_ranges(req) /\ k.sport \in SrcPort
  BY RequestTypes DEF PacketMeets, Pairs
<1>2. /\ pol.src \in SUBSET AddrRef /\ pol.dst \in SUBSET AddrRef /\ pol.svc \in SUBSET SvcRef
      /\ pol.src_negate \in BOOLEAN /\ pol.dst_negate \in BOOLEAN
  BY DEF PolicyRule
<1>3. SUFFICES ASSUME Result(pol, req, p).full
               PROVE  /\ InField(k.src, pol.src, pol.src_negate) /\ InField(k.dst, pol.dst, pol.dst_negate)
                      /\ InService(k, pol.svc)
  OBVIOUS
<1>4. /\ _addr_dim(pol.src, pol.src_negate, p[1]).full
      /\ _addr_dim(pol.dst, pol.dst_negate, p[2]).full
      /\ _svc_dim(pol.svc, service_ranges(req)).full
  BY <1>3, EvaluateFields DEF Result
<1>5. /\ pol.src_negate => KnownInFull(pol.src)
      /\ pol.dst_negate => KnownInFull(pol.dst)
      /\ NoMoreThanMeant(pol.svc)
  BY DEF CoversAsRead
<1>6. InField(k.src, pol.src, pol.src_negate) /\ InField(k.dst, pol.dst, pol.dst_negate)
  BY <1>1, <1>2, <1>4, <1>5, FieldMatches
<1>7. InService(k, pol.svc)
  BY <1>1, <1>2, <1>4, <1>5, ServiceMatches
<1>8. QED
  BY <1>6, <1>7

(* Interfaces                                                              *)
LEMMA HitsAreScoped ==
    ASSUME NEW pol, NEW req, NEW k, OnInterfaces(req, k), NEW when, PolicyHits(pol, k, when)
    PROVE  Scoped(pol, req)
BY DEF OnInterfaces, PolicyHits, Scoped, _intf_scoped

LEMMA ScopedIsHit ==
    ASSUME NEW pol \in PolicyRule, NEW req, NEW k, OnInterfaces(req, k), Scoped(pol, req)
    PROVE  LET q == OnResolved(pol, req)
           IN  /\ q.srcintf = {} \/ InterfaceOf(k.src) \in q.srcintf
               /\ q.dstintf = {} \/ InterfaceOf(k.dst) \in q.dstintf
               /\ q.enabled = pol.enabled /\ q.always = pol.always
               /\ q.src = pol.src /\ q.src_negate = pol.src_negate
               /\ q.dst = pol.dst /\ q.dst_negate = pol.dst_negate /\ q.svc = pol.svc
BY DEF OnInterfaces, OnResolved, Scoped, _intf_scoped, PolicyRule

-----------------------------------------------------------------------------
(* What is planned depends on the rules, the appended networks and what    *)
(* was read only.                                                          *)
LEMMA SameInterfaces ==
    ASSUME UNCHANGED snapshot
    PROVE  /\ \A targets : _resolve_side_interface(targets)' = _resolve_side_interface(targets)
           /\ \A req : srcintf(req)' = srcintf(req) /\ dstintf(req)' = dstintf(req)
           /\ \A pol, req : Scoped(pol, req)' <=> Scoped(pol, req)
<1>1. PICK c, r : snapshot.connected = c /\ snapshot.routes = r /\ snapshot'.connected = c /\ snapshot'.routes = r
  OBVIOUS
<1>2. \A t : _resolve_one(t)' = _resolve_one(t)
  <2>1. \A t : _resolve_one(t) = IF MostSpecific(c, t) # NoIface THEN MostSpecific(c, t) ELSE MostSpecific(r, t)
    BY <1>1 DEF _resolve_one
  <2>2. \A t : _resolve_one(t)' = IF MostSpecific(c, t) # NoIface THEN MostSpecific(c, t) ELSE MostSpecific(r, t)
    BY <1>1 DEF _resolve_one, MostSpecific
  <2>3. QED
    BY <2>1, <2>2
<1>3. \A targets : _resolve_side_interface(targets)' = _resolve_side_interface(targets)
  <2>1. ASSUME NEW targets
        PROVE  _resolve_side_interface(targets)' = _resolve_side_interface(targets)
    <3> DEFINE D == {_resolve_one(t) : t \in targets} \ {NoIface}
    <3>1. D' = D
      BY <1>2
    <3>2. /\ _resolve_side_interface(targets) = IF Cardinality(D) = 1 THEN CHOOSE i \in D : TRUE ELSE NoIface
          /\ _resolve_side_interface(targets)' = IF Cardinality(D') = 1 THEN CHOOSE i \in D' : TRUE ELSE NoIface
      BY DEF _resolve_side_interface
    <3> HIDE DEF D
    <3>3. QED
      BY <3>1, <3>2
  <2>2. QED
    BY <2>1
<1>4. \A req : srcintf(req)' = srcintf(req) /\ dstintf(req)' = dstintf(req)
  BY <1>3 DEF srcintf, dstintf
<1>5. QED
  BY <1>3, <1>4 DEF Scoped, _intf_scoped

LEMMA SamePoints ==
    ASSUME UNCHANGED appended
    PROVE  \A r : AddrPoints(r)' = AddrPoints(r)
<1>1. \A r : AddedTo(r)' = AddedTo(r)
  BY DEF AddedTo
<1>2. QED
  BY <1>1 DEF AddrPoints

LEMMA SameMatches ==
    ASSUME UNCHANGED <<appended, snapshot>>
    PROVE  /\ \A refs : Nets(refs)' = Nets(refs) /\ (UnknownAddr(refs)' <=> UnknownAddr(refs))
           /\ \A refs : Ranges(refs)' = Ranges(refs)
           /\ \A refs, negate, target : _addr_dim(refs, negate, target)' = _addr_dim(refs, negate, target)
           /\ \A refs, wanted : _svc_dim(refs, wanted)' = _svc_dim(refs, wanted)
           /\ \A pol, req, p : Result(pol, req, p)' = Result(pol, req, p)
           /\ \A pol : unknown_refs(pol)' <=> unknown_refs(pol)
           /\ \A pol, req : conditions_ok(pol, req)' <=> conditions_ok(pol, req)
<1>0. appended' = appended /\ snapshot' = snapshot
  OBVIOUS
<1>1. \A r : Added(r)' = Added(r)
  BY <1>0 DEF Added
<1>2. \A r : catalog_networks(r)' = catalog_networks(r)
  BY <1>0, <1>1 DEF catalog_networks
<1>3. \A r : ranges_for_ref(r)' = ranges_for_ref(r)
  BY <1>0 DEF ranges_for_ref
<1>4. \A refs : Nets(refs)' = Nets(refs) /\ Ranges(refs)' = Ranges(refs)
  BY <1>2, <1>3 DEF Nets, Ranges
<1>5. \A refs : Addresses(refs)' = Addresses(refs)
  BY <1>4 DEF Addresses
<1>6. \A refs : (UnknownAddr(refs)' <=> UnknownAddr(refs)) /\ (UnknownSvc(refs)' <=> UnknownSvc(refs))
  BY <1>2, <1>3 DEF UnknownAddr, UnknownSvc
<1>7. \A refs, negate, target : _addr_dim(refs, negate, target)' = _addr_dim(refs, negate, target)
  <2>1. ASSUME NEW refs, NEW negate, NEW target
        PROVE  _addr_dim(refs, negate, target)' = _addr_dim(refs, negate, target)
    <3>1. Addresses(refs)' = Addresses(refs) /\ (UnknownAddr(refs)' <=> UnknownAddr(refs))
      BY <1>5, <1>6
    <3>2. QED
      BY <3>1 DEF _addr_dim, Match
  <2>2. QED
    BY <2>1
<1>8. \A refs, wanted : _svc_dim(refs, wanted)' = _svc_dim(refs, wanted)
  <2>1. ASSUME NEW refs, NEW wanted
        PROVE  _svc_dim(refs, wanted)' = _svc_dim(refs, wanted)
    <3>1. Ranges(refs)' = Ranges(refs) /\ (UnknownSvc(refs)' <=> UnknownSvc(refs))
      BY <1>4, <1>6
    <3>2. QED
      BY <3>1 DEF _svc_dim, Match
  <2>2. QED
    BY <2>1
<1>9. \A pol, s, d, wanted : matcher_evaluate(pol, s, d, wanted)' = matcher_evaluate(pol, s, d, wanted)
  BY <1>7, <1>8 DEF matcher_evaluate
<1>10. \A pol, req, p : Result(pol, req, p)' = Result(pol, req, p)
  BY <1>9 DEF Result
<1>11. \A pol : unknown_refs(pol)' <=> unknown_refs(pol)
  BY <1>6 DEF unknown_refs
<1>12. \A pol, req : conditions_ok(pol, req)' <=> conditions_ok(pol, req)
  BY <1>0, <1>11, SameInterfaces DEF conditions_ok
<1>13. QED
  BY <1>4, <1>6, <1>7, <1>8, <1>10, <1>11, <1>12

LEMMA SamePlan ==
    ASSUME UNCHANGED <<policies, appended, snapshot>>, NEW req
    PROVE  _plan_firewall(req)' = _plan_firewall(req)
<1>0. policies' = policies /\ appended' = appended /\ snapshot' = snapshot
  OBVIOUS
<1>1. \A i, p : Covers(i, req, p)' <=> Covers(i, req, p)
  BY <1>0, SameMatches DEF Covers
<1>1a. \A p : pair_covered(req, p)' <=> pair_covered(req, p)
  BY <1>0, <1>1 DEF pair_covered
<1>1b. covering_rules(req)' = covering_rules(req)
  BY <1>0, <1>1 DEF covering_rules
<1>2. ScopedEnabled(req)' = ScopedEnabled(req)
  BY <1>0, SameInterfaces DEF ScopedEnabled
<1>3. Frontier(req)' = Frontier(req)
  <2> DEFINE Hit == {i \in ScopedEnabled(req) : \E p \in Pairs(req) : Result(policies[i], req, p).matched}
  <2>1. \A i : \A p : Result(policies[i], req, p)' = Result(policies[i], req, p)
    BY <1>0, SameMatches
  <2>2. Hit' = Hit
    BY <1>2, <2>1
  <2>3. Frontier(req) = IF Hit = {} THEN End ELSE CHOOSE i \in Hit : \A j \in Hit : i <= j
    BY DEF Frontier
  <2>4. Frontier(req)' = IF Hit' = {} THEN End ELSE CHOOSE i \in Hit' : \A j \in Hit' : i <= j
    BY DEF Frontier, End
  <2> HIDE DEF Hit
  <2>5. QED
    BY <2>2, <2>3, <2>4
<1>4. LastCatchAll(req)' = LastCatchAll(req)
  <2> DEFINE Deny == {i \in DOMAIN policies : Scoped(policies[i], req) /\ _is_catchall_deny(policies[i])}
  <2>1. Deny' = Deny
    BY <1>0, SameInterfaces
  <2>2. LastCatchAll(req) = IF Deny = {} THEN End ELSE CHOOSE i \in Deny : \A j \in Deny : j <= i
    BY DEF LastCatchAll
  <2>3. LastCatchAll(req)' = IF Deny' = {} THEN End ELSE CHOOSE i \in Deny' : \A j \in Deny' : j <= i
    BY DEF LastCatchAll, End
  <2> HIDE DEF Deny
  <2>4. QED
    BY <2>1, <2>2, <2>3
<1>5. insert_before(req)' = insert_before(req)
  BY <1>3, <1>4 DEF insert_before
<1>6. \A pol : _policy_within_candidate(pol, req)' <=> _policy_within_candidate(pol, req)
  BY <1>0, SameMatches DEF _policy_within_candidate
<1>7. would_shadow(req)' = would_shadow(req)
  BY <1>0, <1>2, <1>3, <1>6 DEF would_shadow
<1>8. \A pol, side, targets : Missing(pol, side, targets)' = Missing(pol, side, targets)
  BY <1>0, SameMatches DEF Missing
<1>9. \A pol, s : Extends(pol, req, s)' <=> Extends(pol, req, s)
  BY <1>0, <1>8, SameMatches DEF Extends
<1>10. \A pol, s : Alternative(pol, req, s)' = Alternative(pol, req, s)
  <2>1. \A group, id : _group_blast_radius(group, id)' = _group_blast_radius(group, id)
    BY <1>0 DEF _group_blast_radius
  <2>2. QED
    BY <1>8, <2>1 DEF Alternative
<1>11. _group_append_alternative(req)' = _group_append_alternative(req)
  <2> DEFINE Found    == {c \in (DOMAIN policies) \X Sides(req) : Extends(policies[c[1]], req, c[2])}
             R(c)     == Rank(policies[c[1]], c[2])
             Place(c) == 2 * c[1] + (IF c[2].side = "src" THEN 1 ELSE 0)
             Best(F)  == CHOOSE c \in F : \A o \in F : R(c) < R(o) \/ (R(c) = R(o) /\ Place(c) <= Place(o))
             Chosen(F) == IF F = {} THEN NoAlternative ELSE Alternative(policies[Best(F)[1]], req, Best(F)[2])
  <2>1. Found' = Found
    BY <1>0, <1>9
  <2>2. \A c : R(c)' = R(c)
    BY <1>0
  <2>3. \A F : Best(F)' = Best(F)
    <3> HIDE DEF R, Place
    <3>1. QED
      BY <2>2
  <2>4. \A F : Chosen(F)' = Chosen(F)
    <3> HIDE DEF Best
    <3>1. QED
      BY <1>0, <1>10, <2>3
  <2>5. _group_append_alternative(req) = Chosen(Found) /\ _group_append_alternative(req)' = Chosen(Found)'
    BY DEF _group_append_alternative
  <2> HIDE DEF Found, Chosen
  <2>6. QED
    BY <2>1, <2>4, <2>5
<1>12. policy_cli(req)' = policy_cli(req)
  <2>1. PICK s : snapshot = s /\ snapshot' = s
    BY <1>0
  <2>2. \A t : _address_object_plan(t)' = _address_object_plan(t)
    <3>1. ASSUME NEW t
          PROVE  _address_object_plan(t)' = _address_object_plan(t)
      <4> DEFINE Same(x) == {a \in AddrName \ AddrGroup : x.nets[a] = {t}}
                 Chosen(x) == IF Same(x) = {} THEN t ELSE CHOOSE a \in Same(x) : TRUE
      <4>1. _address_object_plan(t) = Chosen(snapshot) /\ _address_object_plan(t)' = Chosen(snapshot')
        BY DEF _address_object_plan
      <4> HIDE DEF Chosen
      <4>2. QED
        BY <2>1, <4>1
    <3>2. QED
      BY <3>1
  <2>3. \A t : _service_object_plan(t)' = _service_object_plan(t)
    <3>1. ASSUME NEW t
          PROVE  _service_object_plan(t)' = _service_object_plan(t)
      <4> DEFINE Same(x) == {a \in SvcName : x.ranges[a] = TokenRanges(t)}
                 Chosen(x) == IF Port \in TokenRanges(t) THEN AllSvc
                              ELSE IF Same(x) = {} THEN t[1] ELSE CHOOSE a \in Same(x) : TRUE
      <4>1. _service_object_plan(t) = Chosen(snapshot) /\ _service_object_plan(t)' = Chosen(snapshot')
        BY DEF _service_object_plan, TokenRanges
      <4> HIDE DEF Chosen
      <4>2. QED
        BY <2>1, <4>1
    <3>2. QED
      BY <3>1
  <2>4. srcintf(req)' = srcintf(req) /\ dstintf(req)' = dstintf(req)
    BY <1>0, SameInterfaces
  <2>5. /\ {_address_object_plan(t) : t \in req.srcs}' = {_address_object_plan(t) : t \in req.srcs}
        /\ {_address_object_plan(t) : t \in req.dsts}' = {_address_object_plan(t) : t \in req.dsts}
        /\ {_service_object_plan(t) : t \in req.tokens}' = {_service_object_plan(t) : t \in req.tokens}
    BY <2>2, <2>3
  <2>6. QED
    BY <2>4, <2>5 DEF policy_cli, End
<1>13. NoRules' <=> NoRules
  BY <1>0 DEF NoRules
<1>14. QED
  BY <1>0, <1>1a, <1>1b, <1>5, <1>7, <1>11, <1>12, <1>13 DEF _plan_firewall, End

-----------------------------------------------------------------------------
(* What a plan contains.                                                   *)
LEMMA MostSpecificIsIn ==
    ASSUME NEW table \in SUBSET (Connected \cup Routes), NEW target, MostSpecific(table, target) # NoIface
    PROVE  MostSpecific(table, target) \in Interfaces
<1> DEFINE hit == {e \in table : e.net \cap target # {}}
           Size(e) == Cardinality(e.net)
<1>1. hit # {}
  BY DEF MostSpecific
<1>2. \A e \in hit : Size(e) \in Nat
  <2>1. ASSUME NEW e \in hit
        PROVE  Size(e) \in Nat
    <3>1. e.net \subseteq Host
      BY PlannerAssumption
    <3>2. QED
      BY <3>1, PlannerAssumption, FS_Subset, FS_CardinalityType
  <2>2. QED
    BY <2>1
<1>3. PICK e \in hit : \A f \in hit : Size(e) <= Size(f)
  <2> DEFINE sizes == {Size(e) : e \in hit}
  <2>1. sizes \in SUBSET Nat /\ sizes # {}
    BY <1>1, <1>2
  <2>2. PICK m \in sizes : \A k \in sizes : m <= k
    <3> HIDE DEF sizes
    <3>1. QED
      BY <2>1, Minimum
  <2>3. QED
    BY <2>2
<1> DEFINE best == CHOOSE c \in hit : \A f \in hit : Cardinality(c.net) <= Cardinality(f.net)
<1>4. best \in hit
  <2>1. \E c \in hit : \A f \in hit : Cardinality(c.net) <= Cardinality(f.net)
    BY <1>3
  <2> HIDE DEF hit
  <2>2. QED
    BY <2>1
<1>5. MostSpecific(table, target) = best.name
  BY <1>1 DEF MostSpecific
<1> HIDE DEF best
<1>6. QED
  BY <1>4, <1>5 DEF Interfaces

LEMMA SideInterface ==
    ASSUME PlannerTypes, NEW targets, _resolve_side_interface(targets) # NoIface
    PROVE  _resolve_side_interface(targets) \in Interfaces
<1> DEFINE distinct == {_resolve_one(t) : t \in targets} \ {NoIface}
           it       == CHOOSE i \in distinct : TRUE
<1>1. Cardinality(distinct) = 1 /\ _resolve_side_interface(targets) = it
  BY DEF _resolve_side_interface
<1>2. distinct # {}
  BY <1>1, FS_EmptySet
<1>3. it \in distinct
  <2> HIDE DEF distinct
  <2>1. QED
    BY <1>2
<1> HIDE DEF it
<1>4. PICK t \in targets : it = _resolve_one(t) /\ it # NoIface
  BY <1>3
<1>5. _resolve_one(t) \in Interfaces
  <2>1. snapshot.connected \in SUBSET (Connected \cup Routes) /\ snapshot.routes \in SUBSET (Connected \cup Routes)
    BY SnapshotAssumption DEF PlannerTypes
  <2>2. QED
    BY <1>4, <2>1, MostSpecificIsIn DEF _resolve_one
<1>6. QED
  BY <1>1, <1>4, <1>5

LEMMA PlannedObject ==
    ASSUME PlannerTypes, NEW t \in SUBSET Host
    PROVE  /\ _address_object_plan(t) \in AddrRef
           /\ \A a \in t : a \in AddrPoints(_address_object_plan(t))
<1> DEFINE same == {a \in AddrName \ AddrGroup : snapshot.nets[a] = {t}}
           it   == CHOOSE a \in same : TRUE
<1>1. CASE same = {}
  <2>1. _address_object_plan(t) = t /\ t \notin AddrName
    BY <1>1, PlannerAssumption DEF _address_object_plan
  <2>2. QED
    BY <2>1 DEF AddrRef, AddrPoints
<1>2. CASE same # {}
  <2>1. it \in same
    <3> HIDE DEF same
    <3>1. QED
      BY <1>2
  <2>2. _address_object_plan(t) = it
    BY <1>2 DEF _address_object_plan
  <2> HIDE DEF it
  <2>3. it \in AddrName /\ snapshot.nets[it] = {t}
    BY <2>1
  <2>4. t \subseteq AddrMeans[it]
    <3>1. {t} # Unknown
      BY PlannerAssumption
    <3>2. UNION snapshot.nets[it] \subseteq AddrMeans[it]
      BY <2>3, <3>1, SnapshotAssumption DEF PlannerTypes
    <3>3. QED
      BY <2>3, <3>2
  <2>5. QED
    BY <2>2, <2>3, <2>4 DEF AddrRef, AddrPoints
<1>3. QED
  BY <1>1, <1>2

LEMMA NewRuleIsTyped ==
    ASSUME PlannerTypes, NEW req \in Request
    PROVE  policy_cli(req) \in PolicyRule
<1>1. ASSUME NEW targets \in SUBSET SUBSET Host
      PROVE  {_address_object_plan(t) : t \in targets} \subseteq AddrRef
  BY PlannedObject
<1>2. ASSUME NEW t \in req.tokens
      PROVE  _service_object_plan(t) \in SvcRef
  <2> DEFINE same == {s \in SvcName : snapshot.ranges[s] = TokenRanges(t)}
  <2>1. t[1] \in SvcRef
    BY RequestTypes DEF SvcRef
  <2>2. AllSvc \in SvcRef
    BY PlannerAssumption DEF SvcRef
  <2>3. same # {} => (CHOOSE s \in same : TRUE) \in SvcRef
    BY DEF SvcRef
  <2>4. QED
    BY <2>1, <2>2, <2>3 DEF _service_object_plan
<1>3. {_service_object_plan(t) : t \in req.tokens} \subseteq SvcRef
  BY <1>2
<1>4. /\ (IF srcintf(req) = NoIface THEN {} ELSE {srcintf(req)}) \subseteq Interfaces
      /\ (IF dstintf(req) = NoIface THEN {} ELSE {dstintf(req)}) \subseteq Interfaces
  BY SideInterface DEF srcintf, dstintf
<1>5. {_address_object_plan(t) : t \in req.srcs} \subseteq AddrRef /\ {_address_object_plan(t) : t \in req.dsts} \subseteq AddrRef
  BY <1>1, RequestTypes
<1>6. QED
  BY <1>3, <1>4, <1>5 DEF policy_cli, PolicyRule, End

(* The first rule that matches any of the traffic is not passed.           *)
LEMMA InsertBeforeMatches ==
    ASSUME PlannerTypes, NEW req
    PROVE  /\ insert_before(req) \in {End} \cup DOMAIN policies
           /\ Frontier(req) \in {End} \cup DOMAIN policies
           /\ \A i \in ScopedEnabled(req), p \in Pairs(req) :
                Result(policies[i], req, p).matched => insert_before(req) # End /\ insert_before(req) <= i
<1> DEFINE hit  == {i \in ScopedEnabled(req) : \E p \in Pairs(req) : Result(policies[i], req, p).matched}
           deny == {i \in DOMAIN policies : Scoped(policies[i], req) /\ _is_catchall_deny(policies[i])}
           n    == Len(policies)
<1>1. DOMAIN policies = 1..n /\ n \in Nat
  BY RulesAreTyped
<1>2. hit \subseteq 1..n /\ deny \subseteq 1..n
  BY <1>1 DEF ScopedEnabled
<1>3. Frontier(req) = IF hit = {} THEN End ELSE CHOOSE i \in hit : \A j \in hit : i <= j
  BY DEF Frontier
<1>4. LastCatchAll(req) = IF deny = {} THEN End ELSE CHOOSE i \in deny : \A j \in deny : j <= i
  BY DEF LastCatchAll
<1>5. ASSUME NEW i \in ScopedEnabled(req), NEW p \in Pairs(req), Result(policies[i], req, p).matched
      PROVE  i \in hit
  BY <1>5
<1> HIDE DEF hit, deny, n
<1>6. hit # {} => Frontier(req) \in hit /\ \A j \in hit : Frontier(req) <= j
  <2>1. ASSUME hit # {}
        PROVE  \E i \in hit : \A j \in hit : i <= j
    <3>1. hit \in SUBSET Nat
      BY <1>1, <1>2
    <3>2. QED
      BY <2>1, <3>1, Minimum
  <2>2. QED
    BY <1>3, <2>1
<1>7. deny # {} => LastCatchAll(req) \in deny
  <2>1. ASSUME deny # {}
        PROVE  \E i \in deny : \A j \in deny : j <= i
    <3> DEFINE after == {n - i : i \in deny}
    <3>1. after \in SUBSET Nat /\ after # {}
      <4>1. \A i \in deny : n - i \in Nat
        BY <1>1, <1>2
      <4>2. QED
        BY <2>1, <4>1
    <3>2. PICK m \in after : \A k \in after : m <= k
      <4> HIDE DEF after
      <4>1. QED
        BY <3>1, Minimum
    <3>3. PICK i \in deny : m = n - i
      OBVIOUS
    <3>4. \A j \in deny : n - i <= n - j
      BY <3>2, <3>3
    <3>5. QED
      BY <1>1, <1>2, <3>4
  <2>2. QED
    BY <1>4, <2>1
<1>8. Frontier(req) \in {End} \cup hit /\ LastCatchAll(req) \in {End} \cup deny
  BY <1>3, <1>4, <1>6, <1>7
<1>9. insert_before(req) = IF Frontier(req) # End THEN Frontier(req) ELSE LastCatchAll(req)
  BY DEF insert_before
<1>10. \A i \in hit : insert_before(req) # End /\ insert_before(req) <= i
  <2>1. hit # {} => Frontier(req) # End
    BY <1>1, <1>2, <1>6 DEF End
  <2>2. QED
    BY <1>6, <1>9, <2>1
<1>11. QED
  BY <1>1, <1>2, <1>5, <1>8, <1>9, <1>10

(* The alternative is the best of the candidates that were found.          *)
LEMMA Lexicographic ==
    ASSUME NEW S, S # {}, NEW F \in [S -> Nat], NEW G \in [S -> Nat]
    PROVE  \E c \in S : \A o \in S : F[c] < F[o] \/ (F[c] = F[o] /\ G[c] <= G[o])
<1> DEFINE firsts == {F[c] : c \in S}
<1>1. PICK m \in firsts : \A k \in firsts : m <= k
  <2>1. firsts \in SUBSET Nat /\ firsts # {}
    OBVIOUS
  <2> HIDE DEF firsts
  <2>2. QED
    BY <2>1, Minimum
<1> DEFINE seconds == {G[c] : c \in {d \in S : F[d] = m}}
<1>2. PICK g \in seconds : \A k \in seconds : g <= k
  <2>1. seconds \in SUBSET Nat /\ seconds # {}
    OBVIOUS
  <2> HIDE DEF seconds
  <2>2. QED
    BY <2>1, Minimum
<1>3. PICK c \in S : F[c] = m /\ G[c] = g
  OBVIOUS
<1>4. ASSUME NEW o \in S
      PROVE  F[c] < F[o] \/ (F[c] = F[o] /\ G[c] <= G[o])
  <2>1. m <= F[o] /\ F[o] \in Nat /\ m \in Nat
    BY <1>1
  <2>2. CASE F[o] = m
    <3>1. g <= G[o]
      BY <1>2, <2>2
    <3>2. QED
      BY <1>3, <2>2, <3>1
  <2>3. QED
    BY <1>3, <2>1, <2>2
<1>5. QED
  BY <1>4

LEMMA RanksAreNumbers ==
    ASSUME NEW pol \in PolicyRule, NEW req, NEW s \in Sides(req)
    PROVE  Rank(pol, s) \in Nat
<1>1. pol[s.other] \subseteq AddrRef
  BY DEF Sides, PolicyRule
<1>2. IsFiniteSet(AddrRef)
  BY PlannerAssumption, FS_SUBSET, FS_Union DEF AddrRef
<1>3. IsFiniteSet(pol[s.other] \ {AllAddr})
  BY <1>1, <1>2, FS_Subset
<1>4. Specific(pol, s) \in Nat
  BY <1>3, FS_CardinalityType DEF Specific
<1>5. QED
  BY <1>4 DEF Rank

LEMMA AlternativeIsFound ==
    ASSUME PlannerTypes, NEW req, _group_append_alternative(req) # NoAlternative
    PROVE  \E i \in DOMAIN policies, s \in Sides(req) :
             Extends(policies[i], req, s) /\ _group_append_alternative(req) = Alternative(policies[i], req, s)
<1> DEFINE found    == {c \in (DOMAIN policies) \X Sides(req) : Extends(policies[c[1]], req, c[2])}
           R(c)     == Rank(policies[c[1]], c[2])
           Place(c) == 2 * c[1] + (IF c[2].side = "src" THEN 1 ELSE 0)
           best     == CHOOSE c \in found : \A o \in found : R(c) < R(o) \/ (R(c) = R(o) /\ Place(c) <= Place(o))
<1>1. found # {} /\ _group_append_alternative(req) = Alternative(policies[best[1]], req, best[2])
  BY DEF _group_append_alternative
<1>2. \A c \in found : R(c) \in Nat /\ Place(c) \in Nat
  BY RulesAreTyped, RanksAreNumbers
<1>3. best \in found
  <2> HIDE DEF found, R, Place
  <2>1. \E c \in found : \A o \in found : R(c) < R(o) \/ (R(c) = R(o) /\ Place(c) <= Place(o))
    <3> DEFINE F == [c \in found |-> R(c)]
               G == [c \in found |-> Place(c)]
    <3>1. F \in [found -> Nat] /\ G \in [found -> Nat]
      BY <1>2
    <3>2. \A c \in found : F[c] = R(c) /\ G[c] = Place(c)
      OBVIOUS
    <3> HIDE DEF F, G
    <3>3. \E c \in found : \A o \in found : F[c] < F[o] \/ (F[c] = F[o] /\ G[c] <= G[o])
      BY <1>1, <3>1, Lexicographic
    <3>4. QED
      BY <3>2, <3>3
  <2>2. QED
    BY <2>1
<1> HIDE DEF best
<1>4. QED
  BY <1>1, <1>3

-----------------------------------------------------------------------------
(* The invariant of the planner: rules have numbers of their own, what a   *)
(* plan names is there, and a fresh plan is what the planner would answer. *)
PlanIds == {policies[i].id : i \in DOMAIN policies}

UniqueIds ==
    /\ \A i \in DOMAIN policies : policies[i].id \in 1..Len(policies)
    /\ \A i, j \in DOMAIN policies : policies[i].id = policies[j].id => i = j

AlternativeIsThere(alt) ==
    alt.id # End => /\ alt.id \in PlanIds /\ alt.side \in {"src", "dst"} /\ alt.members \subseteq SUBSET Host

PlanIsThere ==
    plan.status = "new_rule" => /\ plan.pol \in PolicyRule /\ ~plan.pol.src_negate /\ ~plan.pol.dst_negate
                                /\ plan.before \in {End} \cup PlanIds
                                /\ AlternativeIsThere(plan.alternative)

FreshPlan ==
    fresh => \/ plan.status = "unknown_no_action"
             \/ \E req \in Request : plan = _plan_firewall(req)

PlannerIInv == PlannerTypes /\ UniqueIds /\ PlanIsThere /\ FreshPlan

(* Where the rules are after one is inserted.                              *)
LEMMA InsertedBefore ==
    ASSUME PlannerTypes, UniqueIds, NEW pol \in PolicyRule, NEW b \in {End} \cup DOMAIN policies,
           Insert(pol, b)
    PROVE  LET n    == Len(policies)
               at   == IF b = End THEN n + 1 ELSE b
               new  == [pol EXCEPT !.id = n + 1]
           IN  /\ policies' \in Seq(PolicyRule) /\ Len(policies') = n + 1 /\ DOMAIN policies' = 1..(n + 1)
               /\ at \in 1..(n + 1) /\ new \in PolicyRule /\ new.id = n + 1
               /\ \A j \in 1..(n + 1) : policies'[j] = InsertedAt(policies, at, new, j)
<1> DEFINE n   == Len(policies)
           at  == IF b = End THEN n + 1 ELSE b
           new == [pol EXCEPT !.id = n + 1]
<1>1. policies \in Seq(PolicyRule) /\ n \in Nat /\ DOMAIN policies = 1..n
  BY RulesAreTyped DEF PlannerTypes
<1>2. new \in PolicyRule /\ new.id = n + 1
  BY <1>1 DEF PolicyRule
<1>3. at \in 1..(n + 1)
  BY <1>1
<1>4. policies' = IF b = End THEN Append(policies, new) ELSE Inserted(policies, b, new)
  BY DEF Insert, Inserted
<1> HIDE DEF new, n
<1>5. CASE b = End
  <2>1. /\ Append(policies, new) \in Seq(PolicyRule) /\ Len(Append(policies, new)) = n + 1
        /\ \A j \in 1..n : Append(policies, new)[j] = policies[j]
        /\ Append(policies, new)[n + 1] = new
    BY <1>1, <1>2 DEF n
  <2>2. \A j \in 1..(n + 1) : policies'[j] = InsertedAt(policies, at, new, j)
    BY <1>1, <1>4, <1>5, <2>1 DEF InsertedAt
  <2>3. QED
    BY <1>1, <1>2, <1>3, <1>4, <1>5, <2>1, <2>2 DEF n, new
<1>6. CASE b # End
  <2>1. b \in 1..Len(policies) + 1
    BY <1>1, <1>6 DEF n
  <2>2. /\ Inserted(policies, b, new) \in Seq(PolicyRule)
        /\ Len(Inserted(policies, b, new)) = Len(policies) + 1
        /\ \A j \in 1..Len(policies) + 1 : Inserted(policies, b, new)[j] = InsertedAt(policies, b, new, j)
    BY <1>1, <1>2, <2>1, InsertedOne, Zenon
  <2>3. policies' = Inserted(policies, b, new) /\ at = b
    BY <1>4, <1>6
  <2>4. /\ policies' \in Seq(PolicyRule) /\ Len(policies') = n + 1
        /\ \A j \in 1..(n + 1) : policies'[j] = InsertedAt(policies, b, new, j)
    BY <2>2, <2>3, Zenon DEF n
  <2>5. DOMAIN policies' = 1..(n + 1)
    BY <2>4, LenProperties
  <2>6. QED
    BY <1>2, <1>3, <2>3, <2>4, <2>5 DEF n, new
<1>7. QED
  BY <1>5, <1>6

LEMMA InsertKeeps ==
    ASSUME PlannerTypes, UniqueIds, NEW pol \in PolicyRule, NEW b \in {End} \cup DOMAIN policies,
           Insert(pol, b), UNCHANGED <<appended, snapshot>>
    PROVE  PlannerTypes' /\ UniqueIds' /\ PlanIds \subseteq PlanIds'
<1> DEFINE n   == Len(policies)
           at  == IF b = End THEN n + 1 ELSE b
           new == [pol EXCEPT !.id = n + 1]
<1>1. /\ policies' \in Seq(PolicyRule) /\ Len(policies') = n + 1 /\ DOMAIN policies' = 1..(n + 1)
      /\ at \in 1..(n + 1) /\ new.id = n + 1
      /\ \A j \in 1..(n + 1) : policies'[j] = InsertedAt(policies, at, new, j)
  BY InsertedBefore
<1>2. n \in Nat /\ DOMAIN policies = 1..n
  BY RulesAreTyped
<1>3. PlannerTypes'
  BY <1>1 DEF PlannerTypes
<1> HIDE DEF new, at, n
<1>4. \A j \in 1..(n + 1) : \/ j < at /\ j \in 1..n /\ policies'[j] = policies[j]
                            \/ j = at /\ policies'[j].id = n + 1
                            \/ j > at /\ j - 1 \in 1..n /\ policies'[j] = policies[j - 1]
  BY <1>1, <1>2 DEF InsertedAt
<1>5. \A i \in 1..n : policies[i].id \in 1..n
  BY <1>2 DEF UniqueIds, n
<1>6. \A j \in 1..(n + 1) : policies'[j].id \in 1..(n + 1)
  <2>1. 1..n \subseteq 1..(n + 1) /\ n + 1 \in 1..(n + 1)
    BY <1>2
  <2>2. QED
    BY <1>4, <1>5, <2>1
<1>7. ASSUME NEW i \in 1..(n + 1), NEW j \in 1..(n + 1), policies'[i].id = policies'[j].id
      PROVE  i = j
  <2>1. n + 1 \notin 1..n
    BY <1>2
  <2>2. i = at <=> j = at
    BY <1>2, <1>4, <1>5, <1>7, <2>1
  <2> DEFINE Old(x) == IF x < at THEN x ELSE x - 1
  <2>3. CASE i # at /\ j # at
    <3>1. /\ Old(i) \in 1..n /\ policies'[i] = policies[Old(i)]
          /\ Old(j) \in 1..n /\ policies'[j] = policies[Old(j)]
      BY <1>1, <1>2, <1>4, <2>3
    <3>2. Old(i) = Old(j)
      BY <1>2, <1>7, <3>1 DEF UniqueIds
    <3>3. QED
      BY <1>1, <1>2, <1>4, <2>3, <3>2
  <2>4. QED
    BY <2>2, <2>3
<1>8. UniqueIds'
  BY <1>1, <1>6, <1>7 DEF UniqueIds
<1>9. ASSUME NEW i \in 1..n
      PROVE  policies[i].id \in PlanIds'
  <2> DEFINE j == IF i < at THEN i ELSE i + 1
  <2>1. j \in 1..(n + 1) /\ policies'[j] = policies[i]
    BY <1>1, <1>2 DEF InsertedAt
  <2>2. QED
    BY <1>1, <2>1 DEF PlanIds
<1>10. QED
  BY <1>2, <1>3, <1>8, <1>9 DEF PlanIds

LEMMA ExtendedIsThere ==
    ASSUME PlannerTypes, UniqueIds, NEW req \in Request, NEW i \in DOMAIN policies, NEW s \in Sides(req),
           Extends(policies[i], req, s)
    PROVE  AlternativeIsThere(Alternative(policies[i], req, s))
<1> DEFINE pol    == policies[i]
           named == pol[s.side] \cap AddrGroup
           group  == IF named = {} THEN NoIface ELSE CHOOSE g \in named : TRUE
           alt    == Alternative(pol, req, s)
<1>1. /\ alt.id = pol.id /\ alt.side = s.side /\ alt.group = group
      /\ alt.members = Missing(pol, s.side, s.targets)
  BY DEF Alternative
<1>2. /\ s.side \in {"src", "dst"} /\ s.targets \subseteq SUBSET Host
      /\ pol[s.side] \subseteq pol.src \cup pol.dst
  BY RequestTypes DEF Sides
<1>3. alt.members \subseteq SUBSET Host
  BY <1>1, <1>2 DEF Missing
<1>5. pol.id \in PlanIds
  BY DEF PlanIds
<1> HIDE DEF pol, alt, group
<1>6. AlternativeIsThere(alt)
  BY <1>1, <1>2, <1>3, <1>5 DEF AlternativeIsThere
<1>7. QED
  BY <1>6 DEF alt, pol

LEMMA PlansAreThere ==
    ASSUME PlannerTypes, UniqueIds, NEW req \in Request, _plan_firewall(req).status = "new_rule"
    PROVE  LET p == _plan_firewall(req)
           IN  /\ p.req = req /\ p.pol = policy_cli(req)
               /\ p.before = IF NoRules \/ insert_before(req) = End THEN End ELSE policies[insert_before(req)].id
               /\ p.shadows = IF NoRules THEN {} ELSE would_shadow(req)
               /\ p.alternative = IF NoRules THEN NoAlternative ELSE _group_append_alternative(req)
               /\ p.pol \in PolicyRule /\ ~p.pol.src_negate /\ ~p.pol.dst_negate /\ p.before \in {End} \cup PlanIds
               /\ AlternativeIsThere(p.alternative)
<1> DEFINE p == _plan_firewall(req)
<1>1. /\ p.req = req /\ p.pol = policy_cli(req)
      /\ p.before = IF NoRules \/ insert_before(req) = End THEN End ELSE policies[insert_before(req)].id
      /\ p.shadows = IF NoRules THEN {} ELSE would_shadow(req)
      /\ p.alternative = IF NoRules THEN NoAlternative ELSE _group_append_alternative(req)
  BY DEF _plan_firewall
<1> HIDE DEF p
<1>2. p.pol \in PolicyRule /\ ~p.pol.src_negate /\ ~p.pol.dst_negate
  <2>1. ~policy_cli(req).src_negate /\ ~policy_cli(req).dst_negate
    BY DEF policy_cli
  <2>2. QED
    BY <1>1, <2>1, NewRuleIsTyped
<1>3. p.before \in {End} \cup PlanIds
  BY <1>1, InsertBeforeMatches DEF PlanIds
<1>4. AlternativeIsThere(p.alternative)
  <2>1. CASE p.alternative = NoAlternative
    BY <2>1 DEF AlternativeIsThere, NoAlternative
  <2>2. CASE p.alternative # NoAlternative
    <3>1. p.alternative = _group_append_alternative(req) /\ _group_append_alternative(req) # NoAlternative
      BY <1>1, <2>2
    <3>2. PICK i \in DOMAIN policies, s \in Sides(req) :
            Extends(policies[i], req, s) /\ p.alternative = Alternative(policies[i], req, s)
      BY <3>1, AlternativeIsFound
    <3>3. QED
      BY <3>2, ExtendedIsThere
  <2>3. QED
    BY <2>1, <2>2
<1>5. QED
  BY <1>1, <1>2, <1>3, <1>4 DEF p

(* So it is of a plan that is made on what is read now.                    *)
AllPlansAreThere ==
    \A req \in Request :
      LET p == _plan_firewall(req)
      IN  p.status = "new_rule" =>
            /\ p.pol \in PolicyRule /\ ~p.pol.src_negate /\ ~p.pol.dst_negate /\ p.before \in {End} \cup PlanIds
            /\ AlternativeIsThere(p.alternative)

LEMMA NextPlansAreThere == PlannerTypes' /\ UniqueIds' => AllPlansAreThere'
<1>1. PlannerTypes /\ UniqueIds => AllPlansAreThere
  BY PlansAreThere DEF AllPlansAreThere
<1>2. QED
  BY <1>1, PTL

LEMMA PosOfRule ==
    ASSUME PlannerTypes, UniqueIds, NEW i \in DOMAIN policies
    PROVE  PosOf(policies[i].id) = i
<1>1. \A j \in DOMAIN policies : policies[j].id = policies[i].id <=> j = i
  BY DEF UniqueIds
<1>2. QED
  BY <1>1 DEF PosOf

LEMMA StaysThere ==
    ASSUME PlanIsThere, PlanIds \subseteq PlanIds', UNCHANGED plan
    PROVE  PlanIsThere'
BY DEF PlanIsThere, AlternativeIsThere

LEMMA NoPlanIsThere ==
    ASSUME plan' = NoPlan
    PROVE  PlanIsThere'
BY DEF PlanIsThere, NoPlan

LEMMA PlanChangeKeeps ==
    ASSUME PlannerIInv, NEW req \in Request, NEW v, NEW read \in Snapshot, plan_change(req, v, read)
    PROVE  PlannerIInv'
<1>1. policies' = policies /\ appended' = appended /\ snapshot' \in Snapshot
  BY DEF plan_change, PlannerIInv, PlannerTypes
<1>2. PlannerTypes' /\ UniqueIds'
  BY <1>1 DEF PlannerIInv, PlannerTypes, UniqueIds
<1>3. CASE v = "UNKNOWN"
  <2>1. plan'.status = "unknown_no_action"
    BY <1>3 DEF plan_change
  <2>2. PlanIsThere' /\ FreshPlan'
    BY <2>1 DEF PlanIsThere, FreshPlan
  <2>3. QED
    BY <1>2, <2>2 DEF PlannerIInv
<1>4. CASE v # "UNKNOWN"
  <2>1. plan' = _plan_firewall(req)'
    BY <1>4 DEF plan_change
  <2>2. FreshPlan'
    BY <2>1 DEF FreshPlan
  <2>3. AllPlansAreThere'
    BY <1>2, NextPlansAreThere
  <2>4. PlanIsThere'
    BY <2>1, <2>3 DEF PlanIsThere, AllPlansAreThere
  <2>5. QED
    BY <1>2, <2>2, <2>4 DEF PlannerIInv
<1>5. QED
  BY <1>3, <1>4

LEMMA AdminKeeps ==
    ASSUME PlannerIInv, NEW pol \in PlanShape, AdminAdds(pol)
    PROVE  PlannerIInv'
<1>1. /\ pol \in PolicyRule /\ Insert(pol, End) /\ appended' = appended /\ snapshot' = snapshot
      /\ plan' = plan /\ fresh' = FALSE
  BY PlannerAssumption DEF AdminAdds
<1>2. PlannerTypes' /\ UniqueIds' /\ PlanIds \subseteq PlanIds'
  BY <1>1, InsertKeeps DEF PlannerIInv
<1>3. PlanIsThere' /\ FreshPlan'
  BY <1>1, <1>2, StaysThere DEF PlannerIInv, FreshPlan
<1>4. QED
  BY <1>2, <1>3 DEF PlannerIInv

LEMMA ImplementKeeps ==
    ASSUME PlannerIInv, Implement
    PROVE  PlannerIInv'
<1> DEFINE b == IF plan.before = End THEN End ELSE PosOf(plan.before)
<1>1. /\ plan.status = "new_rule" /\ Insert(plan.pol, b) /\ plan' = NoPlan /\ fresh' = FALSE
      /\ appended' = appended /\ snapshot' = snapshot
  BY DEF Implement
<1>2. plan.pol \in PolicyRule /\ b \in {End} \cup DOMAIN policies
  BY <1>1, PosOfRule DEF PlannerIInv, PlanIsThere, PlanIds
<1> HIDE DEF b
<1>3. PlannerTypes' /\ UniqueIds'
  BY <1>1, <1>2, InsertKeeps DEF PlannerIInv
<1>4. QED
  BY <1>1, <1>3, NoPlanIsThere DEF PlannerIInv, FreshPlan

LEMMA ExtendKeeps ==
    ASSUME PlannerIInv, ImplementAlternative
    PROVE  PlannerIInv'
<1> DEFINE alt == plan.alternative
           i   == PosOf(alt.id)
<1>1. plan.status = "new_rule" /\ alt.id # End /\ plan' = NoPlan /\ fresh' = FALSE /\ snapshot' = snapshot
  BY DEF ImplementAlternative
<1>2. alt.id \in PlanIds /\ alt.side \in {"src", "dst"} /\ alt.members \subseteq SUBSET Host
  BY <1>1 DEF PlannerIInv, PlanIsThere, AlternativeIsThere
<1>3. PlannerTypes /\ UniqueIds
  BY DEF PlannerIInv
<1>4. CASE alt.group \in AddrGroup
  <2>1. appended' = [appended EXCEPT ![alt.group] = @ \cup alt.members] /\ policies' = policies
    BY <1>4 DEF ImplementAlternative
  <2> HIDE DEF alt
  <2>2. PlannerTypes' /\ UniqueIds'
    BY <1>1, <1>2, <1>3, <1>4, <2>1 DEF PlannerTypes, UniqueIds
  <2>3. QED
    BY <1>1, <2>2, NoPlanIsThere DEF PlannerIInv, FreshPlan
<1>5. CASE alt.group \notin AddrGroup
  <2> DEFINE new == [policies[i] EXCEPT ![alt.side] = @ \cup alt.members]
  <2>1. policies' = [policies EXCEPT ![i] = new] /\ appended' = appended
    BY <1>5 DEF ImplementAlternative
  <2>2. i \in DOMAIN policies
    BY <1>2, <1>3, PosOfRule DEF PlanIds
  <2> HIDE DEF i, alt
  <2>3. policies[i] \in PolicyRule
    BY <1>3, <2>2, RulesAreTyped
  <2>4. new \in PolicyRule /\ new.id = policies[i].id
    <3>1. alt.members \subseteq AddrRef
      BY <1>2 DEF AddrRef
    <3>2. CASE alt.side = "src"
      BY <2>3, <3>1, <3>2 DEF PolicyRule
    <3>3. CASE alt.side = "dst"
      BY <2>3, <3>1, <3>3 DEF PolicyRule
    <3>4. QED
      BY <1>2, <3>2, <3>3
  <2> HIDE DEF new
  <2>5. policies' \in Seq(PolicyRule) /\ DOMAIN policies' = DOMAIN policies /\ Len(policies') = Len(policies)
    BY <1>3, <2>1, <2>2, <2>4 DEF PlannerTypes
  <2>6. \A j \in DOMAIN policies : policies'[j].id = policies[j].id
    BY <2>1, <2>4
  <2>7. PlannerTypes'
    BY <1>1, <1>3, <2>1, <2>5 DEF PlannerTypes
  <2>8. UniqueIds'
    BY <1>3, <2>5, <2>6 DEF UniqueIds
  <2>9. QED
    BY <1>1, <2>7, <2>8, NoPlanIsThere DEF PlannerIInv, FreshPlan
<1>6. QED
  BY <1>4, <1>5

LEMMA PlannerInvariant == PlannerSpec => []PlannerIInv
<1>1. ASSUME PlannerInit
      PROVE  PlannerIInv
  <2>1. PlannerTypes /\ UniqueIds
    BY <1>1, SnapshotAssumption DEF PlannerInit, PlannerTypes, UniqueIds
  <2>2. PlanIsThere /\ FreshPlan
    BY <1>1 DEF PlannerInit, PlanIsThere, FreshPlan, NoPlan
  <2>3. QED
    BY <2>1, <2>2 DEF PlannerIInv
<1>2. ASSUME PlannerIInv, PlannerNext
      PROVE  PlannerIInv'
  BY <1>2, AdminKeeps, PlanChangeKeeps, ImplementKeeps, ExtendKeeps DEF PlannerNext
<1>3. ASSUME PlannerIInv, UNCHANGED plannerVars
      PROVE  PlannerIInv'
  <2>1. policies' = policies /\ appended' = appended /\ plan' = plan /\ fresh' = fresh /\ snapshot' = snapshot
    BY <1>3 DEF plannerVars
  <2>2. PlannerTypes' /\ UniqueIds' /\ PlanIds' = PlanIds
    BY <1>3, <2>1 DEF PlannerIInv, PlannerTypes, UniqueIds, PlanIds
  <2>3. PlanIsThere'
    BY <1>3, <2>1, <2>2, StaysThere DEF PlannerIInv
  <2>4. FreshPlan'
    <3>1. \A req : _plan_firewall(req)' = _plan_firewall(req)
      BY <2>1, SamePlan
    <3>2. QED
      BY <1>3, <2>1, <3>1 DEF PlannerIInv, FreshPlan
  <2>5. QED
    BY <2>2, <2>3, <2>4 DEF PlannerIInv
<1>4. QED
  BY <1>1, <1>2, <1>3, PTL DEF PlannerSpec

-----------------------------------------------------------------------------
(* Whatever rules and groups there are, and whatever was lost when they    *)
(* were read, a request that is reported as covered is covered, on the     *)
(* interfaces that were found, if the rules that the plan names exclude no *)
(* group that is known in part and have no source ports: _plan_firewall    *)
(* and PolicyMatcher.evaluate.                                             *)
THEOREM CoverageHolds == PlannerSpec => []CoverageIsReal
<1>1. ASSUME PlannerIInv
      PROVE  CoverageIsReal
  <2>1. SUFFICES ASSUME plan.status = "already_covered", fresh, CoverageAsRead, NEW k \in PacketsOf(plan.req)
                 PROVE  \E i \in DOMAIN policies :
                          /\ policies[i].id \in plan.covering /\ policies[i].action = "accept" /\ policies[i].always
                          /\ PolicyHits(OnResolved(policies[i], plan.req), k, TRUE)
    BY DEF CoverageIsReal
  <2>2. PICK req \in Request : plan = _plan_firewall(req)
    BY <1>1, <2>1 DEF PlannerIInv, FreshPlan
  <2>3. /\ plan.req = req /\ plan.covering = covering_rules(req)
        /\ \A p \in Pairs(req) : pair_covered(req, p)
    BY <2>1, <2>2 DEF _plan_firewall
  <2>4. OnInterfaces(req, k) /\ k \in FlowPacket
    BY <2>1, <2>3, PacketsMeet
  <2>5. PICK p \in Pairs(req) : PacketMeets(req, p, k)
    BY <2>1, <2>3, PacketsMeet
  <2>6. PICK i \in DOMAIN policies : Covers(i, req, p)
    BY <2>3, <2>5 DEF pair_covered
  <2>7. PlannerTypes /\ policies[i] \in PolicyRule
    BY <1>1, RulesAreTyped DEF PlannerIInv
  <2>8. policies[i].id \in plan.covering
    BY <2>3, <2>5, <2>6 DEF covering_rules
  <2>9. CoversAsRead(policies[i])
    BY <2>1, <2>8 DEF CoverageAsRead
  <2>10. /\ InField(k.src, policies[i].src, policies[i].src_negate)
         /\ InField(k.dst, policies[i].dst, policies[i].dst_negate)
         /\ InService(k, policies[i].svc)
    BY <2>5, <2>6, <2>7, <2>9, FullIsHit DEF Covers
  <2>11. /\ policies[i].action = "accept" /\ policies[i].enabled /\ policies[i].always
         /\ Scoped(policies[i], req)
    BY <2>6 DEF conditions_ok, Covers
  <2>12. PolicyHits(OnResolved(policies[i], req), k, TRUE)
    BY <2>4, <2>7, <2>10, <2>11, ScopedIsHit DEF PolicyHits
  <2>13. QED
    BY <2>3, <2>8, <2>11, <2>12
<1>2. QED
  BY <1>1, PlannerInvariant, PTL

-----------------------------------------------------------------------------
(* The implementation of a fresh plan inserts its rule where it says.      *)
LEMMA FreshImplement ==
    ASSUME PlannerIInv, Implement, fresh
    PROVE  \E req \in Request, b \in {End} \cup DOMAIN policies :
             /\ plan.req = req /\ plan.pol = policy_cli(req) /\ policy_cli(req) \in PolicyRule
             /\ Insert(policy_cli(req), b)
             /\ snapshot.rules = "fetched" => b = insert_before(req)
             /\ plan.shadows # {} => b = insert_before(req)
             /\ plan.shadows \subseteq would_shadow(req)
<1>1. plan.status = "new_rule"
  BY DEF Implement
<1>2. PICK req \in Request : plan = _plan_firewall(req)
  BY <1>1 DEF PlannerIInv, FreshPlan
<1>3. /\ plan.req = req /\ plan.pol = policy_cli(req)
      /\ plan.before = IF NoRules \/ insert_before(req) = End THEN End ELSE policies[insert_before(req)].id
      /\ plan.shadows = IF NoRules THEN {} ELSE would_shadow(req)
      /\ plan.pol \in PolicyRule /\ plan.before \in {End} \cup PlanIds
  BY <1>1, <1>2, PlansAreThere DEF PlannerIInv
<1> DEFINE b == IF plan.before = End THEN End ELSE PosOf(plan.before)
<1>4. Insert(plan.pol, b)
  BY DEF Implement
<1>5. b \in {End} \cup DOMAIN policies
  BY <1>3, PosOfRule DEF PlannerIInv, PlanIds
<1>6. ~NoRules => b = insert_before(req)
  <2>1. ASSUME ~NoRules, insert_before(req) # End
        PROVE  b = insert_before(req)
    <3>1. insert_before(req) \in DOMAIN policies
      BY <2>1, InsertBeforeMatches DEF PlannerIInv
    <3>2. policies[insert_before(req)].id # End
      BY <3>1, RulesAreTyped DEF PlannerIInv, UniqueIds, End
    <3>3. QED
      BY <1>3, <2>1, <3>1, <3>2, PosOfRule DEF PlannerIInv
  <2>2. QED
    BY <1>3, <2>1
<1> HIDE DEF b
<1>7. QED
  BY <1>3, <1>4, <1>5, <1>6 DEF NoRules

(* The new rule hits all that was asked for, as far as its ports go.       *)
LEMMA NewRuleHits ==
    ASSUME PlannerTypes, NEW req \in Request, NEW id, NEW k, OnInterfaces(req, k), NEW when,
           k.src \in UNION req.srcs, k.dst \in UNION req.dsts,
           <<k.port, k.sport>> \in PortsPlanned(policy_cli(req))
    PROVE  PolicyHits([policy_cli(req) EXCEPT !.id = id], k, when)
<1> DEFINE pol == [policy_cli(req) EXCEPT !.id = id]
<1>1. /\ pol.enabled = TRUE /\ pol.always = TRUE
      /\ pol.src_negate = FALSE /\ pol.dst_negate = FALSE
      /\ pol.src = {_address_object_plan(t) : t \in req.srcs}
      /\ pol.dst = {_address_object_plan(t) : t \in req.dsts}
      /\ pol.svc = policy_cli(req).svc
      /\ pol.srcintf = (IF srcintf(req) = NoIface THEN {} ELSE {srcintf(req)})
      /\ pol.dstintf = (IF dstintf(req) = NoIface THEN {} ELSE {dstintf(req)})
  BY DEF policy_cli
<1> HIDE DEF pol
<1>2. \E r \in pol.src : k.src \in AddrPoints(r)
  BY <1>1, PlannedObject, RequestTypes
<1>3. \E r \in pol.dst : k.dst \in AddrPoints(r)
  BY <1>1, PlannedObject, RequestTypes
<1>4. InService(k, pol.svc)
  BY <1>1 DEF PortsPlanned, InService
<1>5. /\ pol.srcintf = {} \/ InterfaceOf(k.src) \in pol.srcintf
      /\ pol.dstintf = {} \/ InterfaceOf(k.dst) \in pol.dstintf
  BY <1>1 DEF OnInterfaces
<1>6. InField(k.src, pol.src, pol.src_negate) /\ InField(k.dst, pol.dst, pol.dst_negate)
  BY <1>1, <1>2, <1>3 DEF InField
<1>7. PolicyHits(pol, k, when)
  BY <1>1, <1>4, <1>5, <1>6 DEF PolicyHits
<1>8. QED
  BY <1>7 DEF pol

LEMMA SameHits ==
    ASSUME UNCHANGED appended
    PROVE  \A pol, k, when : PolicyHits(pol, k, when)' <=> PolicyHits(pol, k, when)
<1>1. \A r : AddrPoints(r)' = AddrPoints(r)
  BY SamePoints
<1>2. \A a, refs, negate : InField(a, refs, negate)' <=> InField(a, refs, negate)
  BY <1>1 DEF InField
<1>3. QED
  BY <1>2 DEF PolicyHits

(* A rule that is planned on rules that were read takes effect, whatever   *)
(* rules are there: unknown, negated, disabled, scheduled or of other      *)
(* interfaces, and whatever else was lost.  Before it are only rules that  *)
(* do not hit the packet, or that accept it, if no deny names a group that *)
(* is known in part (plan_insertion).                                      *)
THEOREM PlannedRulesWork == PlannerSpec => PlanTakesEffect
<1>1. ASSUME PlannerIInv, Implement, fresh, snapshot.rules = "fetched", DeniesAreSeen, NEW k \in PacketsOf(plan.req),
             <<k.port, k.sport>> \in PortsPlanned(plan.pol)
      PROVE  Permitted(k)'
  <2>1. PICK req \in Request, b \in {End} \cup DOMAIN policies :
          /\ plan.req = req /\ plan.pol = policy_cli(req) /\ policy_cli(req) \in PolicyRule
          /\ Insert(policy_cli(req), b) /\ b = insert_before(req)
    BY <1>1, FreshImplement
  <2> DEFINE n   == Len(policies)
             new == [policy_cli(req) EXCEPT !.id = n + 1]
  <2>2. PICK at \in 1..(n + 1) :
          /\ at = (IF b = End THEN n + 1 ELSE b) /\ DOMAIN policies' = 1..(n + 1)
          /\ \A j \in 1..(n + 1) : policies'[j] = InsertedAt(policies, at, new, j)
    BY <1>1, <2>1, InsertedBefore DEF PlannerIInv
  <2>3. /\ OnInterfaces(req, k) /\ k.src \in UNION req.srcs /\ k.dst \in UNION req.dsts
        /\ <<k.port, k.sport>> \in PortsPlanned(policy_cli(req))
    BY <1>1, <2>1 DEF PacketsOf, Asked
  <2>4. PICK p \in Pairs(req) : PacketMeets(req, p, k)
    BY <1>1, <2>1, PacketsMeet
  <2>5. appended' = appended
    BY <1>1 DEF Implement
  <2>6. n \in Nat /\ DOMAIN policies = 1..n /\ \A j \in 1..n : policies[j] \in PolicyRule
    BY <1>1, RulesAreTyped DEF PlannerIInv
  <2>7. ASSUME NEW when \in BOOLEAN, NEW j \in 1..(at - 1), PolicyHits(policies[j], k, when)
        PROVE  policies[j].action = "accept"
    <3>1. j \in 1..n /\ j < at /\ policies[j].action \in {"accept", "deny"}
      BY <2>2, <2>6, <2>7 DEF PolicyRule
    <3>2. SUFFICES ASSUME policies[j].action = "deny"
                   PROVE  FALSE
      BY <3>1
    <3>3. Scoped(policies[j], req) /\ policies[j].enabled
      BY <2>3, <2>7, HitsAreScoped DEF PolicyHits
    <3>4. j \in ScopedEnabled(req) /\ SeenInFull(policies[j])
      BY <1>1, <2>6, <3>1, <3>2, <3>3 DEF ScopedEnabled, DeniesAreSeen
    <3>5. Result(policies[j], req, p).matched
      BY <1>1, <2>4, <2>6, <2>7, <3>1, <3>4, HitsAreMatched DEF PlannerIInv
    <3>6. b # End /\ b <= j
      BY <1>1, <2>1, <3>4, <3>5, InsertBeforeMatches DEF PlannerIInv
    <3>7. QED
      BY <2>2, <2>6, <3>1, <3>6
  <2>8. \A when : PolicyHits(new, k, when)
    BY <1>1, <2>3, NewRuleHits DEF PlannerIInv
  <2>9. new.action = "accept"
    BY DEF policy_cli
  <2> HIDE DEF new
  <2>10. policies'[at] = new /\ \A j \in 1..(at - 1) : j \in 1..(n + 1) /\ policies'[j] = policies[j]
    BY <2>2, <2>6 DEF InsertedAt
  <2>11. ASSUME NEW when \in BOOLEAN
         PROVE  \E i \in 1..(n + 1) : FirstHit(k, when, i)' /\ policies'[i].action = "accept"
    <3> DEFINE hits == {i \in 1..at : PolicyHits(policies[i], k, when)'}
    <3>1. PolicyHits(policies[at], k, when)'
      BY <2>5, <2>8, <2>10, SameHits
    <3>2. at \in hits /\ hits \in SUBSET Nat
      BY <3>1
    <3> HIDE DEF hits
    <3>3. PICK i \in hits : \A j \in hits : i <= j
      BY <3>2, Minimum
    <3>4. i \in 1..at /\ PolicyHits(policies[i], k, when)'
      BY <3>3 DEF hits
    <3>5. \A j \in 1..(i - 1) : j \notin hits /\ j \in 1..at
      BY <3>2, <3>3, <3>4
    <3>6. FirstHit(k, when, i)'
      BY <2>2, <2>6, <3>4, <3>5 DEF FirstHit, hits
    <3>7. policies'[i].action = "accept"
      <4>1. CASE i = at
        BY <2>9, <2>10, <4>1
      <4>2. CASE i # at
        <5>1. i \in 1..(at - 1) /\ policies'[i] = policies[i]
          BY <2>10, <3>4, <4>2
        <5>2. PolicyHits(policies[i], k, when)
          BY <2>5, <3>4, <5>1, SameHits
        <5>3. QED
          BY <2>7, <5>1, <5>2
      <4>3. QED
        BY <4>1, <4>2
    <3>8. QED
      BY <2>2, <2>6, <3>4, <3>6, <3>7
  <2>12. QED
    BY <2>2, <2>11 DEF Permitted
<1>2. ASSUME PlannerIInv, [PlannerNext]_plannerVars
      PROVE  [Implement /\ fresh /\ snapshot.rules = "fetched" /\ DeniesAreSeen =>
               \A k \in PacketsOf(plan.req) :
                 <<k.port, k.sport>> \in PortsPlanned(plan.pol) => Permitted(k)']_plannerVars
  BY <1>1, <1>2
<1>3. QED
  BY <1>2, PlannerInvariant, PTL DEF PlannerSpec, PlanTakesEffect

(* What lies within the request is hit by the new rule.                    *)
LEMMA WithinIsPlanned ==
    ASSUME PlannerTypes, NEW pol \in PolicyRule, SeenInFull(pol), NEW req \in Request, _policy_within_candidate(pol, req),
           NEW k, NEW when, PolicyHits(pol, k, when)
    PROVE  /\ k.src \in UNION req.srcs /\ k.dst \in UNION req.dsts
           /\ <<k.port, k.sport>> \in (UNION service_ranges(req)) \X SrcPort
<1>1. ASSUME NEW refs \in SUBSET AddrRef, ~UnknownAddr(refs), KnownInFull(refs), NEW targets,
             \A n \in Nets(refs) : \E t \in targets : n \subseteq t, NEW a, InField(a, refs, FALSE)
      PROVE  a \in UNION targets
  <2>1. PICK r \in refs : a \in AddrPoints(r)
    BY <1>1 DEF InField
  <2>2. catalog_networks(r) # Unknown
    BY <1>1 DEF UnknownAddr
  <2>3. PICK n \in catalog_networks(r) : a \in n
    BY <1>1, <2>1, <2>2 DEF KnownInFull
  <2>4. n \in Nets(refs)
    BY <2>2, <2>3 DEF Nets
  <2>5. QED
    BY <1>1, <2>3, <2>4
<1>2. /\ pol.src_negate = FALSE /\ pol.dst_negate = FALSE
      /\ ~UnknownAddr(pol.src) /\ ~UnknownAddr(pol.dst) /\ ~UnknownSvc(pol.svc)
      /\ \A n \in Nets(pol.src) : \E t \in req.srcs : n \subseteq t
      /\ \A n \in Nets(pol.dst) : \E t \in req.dsts : n \subseteq t
      /\ \A r \in Ranges(pol.svc) : \E w \in service_ranges(req) : r \subseteq w
      /\ KnownInFull(pol.src) /\ KnownInFull(pol.dst) /\ NoLessThanMeant(pol.svc)
  BY DEF _policy_within_candidate, unknown_refs, PolicyRule, SeenInFull
<1>3. pol.src \in SUBSET AddrRef /\ pol.dst \in SUBSET AddrRef
  BY DEF PolicyRule
<1>4. InField(k.src, pol.src, FALSE) /\ InField(k.dst, pol.dst, FALSE)
  BY <1>2 DEF PolicyHits
<1>5. k.src \in UNION req.srcs
  BY <1>1, <1>2, <1>3, <1>4
<1>6. k.dst \in UNION req.dsts
  BY <1>1, <1>2, <1>3, <1>4
<1>7. PICK r \in pol.svc : <<k.port, k.sport>> \in SvcPoints(r)
  BY DEF PolicyHits, InService
<1>8. ranges_for_ref(r) # Unknown
  BY <1>2, <1>7 DEF UnknownSvc
<1>9. <<k.port, k.sport>> \in (UNION ranges_for_ref(r)) \X SrcPort
  BY <1>2, <1>7, <1>8 DEF NoLessThanMeant
<1>10. PICK n \in ranges_for_ref(r) : k.port \in n /\ k.sport \in SrcPort
  BY <1>9
<1>11. n \in Ranges(pol.svc)
  BY <1>7, <1>8, <1>10 DEF Ranges
<1>12. QED
  BY <1>2, <1>5, <1>6, <1>10, <1>11

(* A rule that the plan reports as shadowed is indeed never hit again, by  *)
(* no packet on the interfaces of the plan, if it names no group that is   *)
(* known in part (_policy_within_candidate).                               *)
THEOREM ShadowsAreTrue == PlannerSpec => ShadowWarningsTrue
<1>1. ASSUME PlannerIInv, Implement, fresh, AllPortsPlanned(plan.req, plan.pol),
             NEW i \in DOMAIN policies', NEW k \in FlowPacket, NEW when \in BOOLEAN,
             policies'[i].id \in plan.shadows, SeenInFull(policies'[i]), OnInterfaces(plan.req, k), FirstHit(k, when, i)'
      PROVE  FALSE
  <2>1. PICK req \in Request, b \in {End} \cup DOMAIN policies :
          /\ plan.req = req /\ plan.pol = policy_cli(req) /\ policy_cli(req) \in PolicyRule
          /\ Insert(policy_cli(req), b) /\ b = insert_before(req) /\ plan.shadows \subseteq would_shadow(req)
    BY <1>1, FreshImplement
  <2> DEFINE n   == Len(policies)
             new == [policy_cli(req) EXCEPT !.id = n + 1]
  <2>2. PICK at \in 1..(n + 1) :
          /\ at = (IF b = End THEN n + 1 ELSE b) /\ DOMAIN policies' = 1..(n + 1) /\ new.id = n + 1
          /\ \A j \in 1..(n + 1) : policies'[j] = InsertedAt(policies, at, new, j)
    BY <1>1, <2>1, InsertedBefore DEF PlannerIInv
  <2>3. PICK j \in ScopedEnabled(req) :
          /\ Frontier(req) # End /\ j >= Frontier(req) /\ _policy_within_candidate(policies[j], req)
          /\ policies[j].id = policies'[i].id
    BY <1>1, <2>1 DEF would_shadow
  <2>4. n \in Nat /\ DOMAIN policies = 1..n /\ j \in 1..n /\ policies[j] \in PolicyRule
    BY <1>1, RulesAreTyped DEF PlannerIInv, ScopedEnabled
  <2>5. at = Frontier(req) /\ at <= j
    BY <2>1, <2>2, <2>3 DEF insert_before
  <2>6. at < i /\ policies'[i] = policies[j]
    <3>1. CASE i = at
      <4>0. policies'[at] = new
        BY <2>2 DEF InsertedAt
      <4> HIDE DEF new
      <4>1. policies[j].id = n + 1
        BY <2>2, <2>3, <3>1, <4>0
      <4>2. policies[j].id \in 1..n
        BY <1>1, <2>4 DEF PlannerIInv, UniqueIds
      <4>3. QED
        BY <2>4, <4>1, <4>2
    <3>2. CASE i < at
      <4>1. policies'[i] = policies[i] /\ i \in 1..n
        BY <1>1, <2>2, <2>4, <2>5, <3>2 DEF InsertedAt
      <4>2. i = j
        BY <1>1, <2>3, <2>4, <4>1 DEF PlannerIInv, UniqueIds
      <4>3. QED
        BY <2>2, <2>4, <2>5, <3>2, <4>2
    <3>3. CASE at < i
      <4>1. policies'[i] = policies[i - 1] /\ i - 1 \in 1..n
        BY <1>1, <2>2, <2>4, <3>3 DEF InsertedAt
      <4>2. i - 1 = j
        BY <1>1, <2>3, <2>4, <4>1 DEF PlannerIInv, UniqueIds
      <4>3. QED
        BY <3>3, <4>1, <4>2
    <3>4. QED
      BY <1>1, <2>2, <2>4, <3>1, <3>2, <3>3
  <2>7. appended' = appended
    BY <1>1 DEF Implement
  <2>8. PolicyHits(policies[i], k, when)' /\ \A x \in 1..(i - 1) : ~PolicyHits(policies[x], k, when)'
    BY <1>1 DEF FirstHit
  <2>9. PolicyHits(policies[j], k, when)
    BY <2>6, <2>7, <2>8, SameHits
  <2>10a. /\ k.src \in UNION req.srcs /\ k.dst \in UNION req.dsts
          /\ <<k.port, k.sport>> \in (UNION service_ranges(req)) \X SrcPort
    <3>1. PICK q : q = policies[j] /\ q = policies'[i]
      BY <2>6
    <3>2. SeenInFull(q)
      BY <1>1, <3>1
    <3>3. q \in PolicyRule /\ _policy_within_candidate(q, req) /\ PolicyHits(q, k, when)
      BY <2>3, <2>4, <2>9, <3>1
    <3>4. QED
      BY <1>1, <3>2, <3>3, WithinIsPlanned DEF PlannerIInv
  <2>10. <<k.port, k.sport>> \in PortsPlanned(policy_cli(req))
    BY <1>1, <2>1, <2>10a DEF AllPortsPlanned
  <2>11. PolicyHits(new, k, when)
    BY <1>1, <2>1, <2>10, <2>10a, NewRuleHits DEF PlannerIInv
  <2> HIDE DEF new
  <2>12. policies'[at] = new /\ at \in 1..(i - 1)
    BY <1>1, <2>2, <2>4, <2>6 DEF InsertedAt
  <2>13. PolicyHits(policies[at], k, when)'
    BY <2>7, <2>11, <2>12, SameHits
  <2>14. QED
    BY <2>8, <2>12, <2>13
<1>2. ASSUME PlannerIInv, [PlannerNext]_plannerVars
      PROVE  [Implement /\ fresh /\ AllPortsPlanned(plan.req, plan.pol) =>
                \A i \in DOMAIN policies', k \in FlowPacket, when \in BOOLEAN :
                  policies'[i].id \in plan.shadows /\ SeenInFull(policies'[i]) /\ OnInterfaces(plan.req, k) =>
                    ~FirstHit(k, when, i)']_plannerVars
  BY <1>1, <1>2
<1>3. QED
  BY <1>2, PlannerInvariant, PTL DEF PlannerSpec, ShadowWarningsTrue

-----------------------------------------------------------------------------
(* The alternative.  Networks are appended, and no other content of a      *)
(* group changes than that of the group and those that contain it.         *)
Grows == \A r : AddrPoints(r) \subseteq AddrPoints(r)'
Keeps(refs) == \A r \in refs : AddrPoints(r)' = AddrPoints(r)

LEMMA AppendedGrow ==
    ASSUME PlannerTypes, NEW group \in AddrGroup, NEW members,
           appended' = [appended EXCEPT ![group] = @ \cup members]
    PROVE  /\ Grows
           /\ \A refs : refs \cap ({group} \cup Inside[group]) = {} => Keeps(refs)
           /\ \A t \in members : t \subseteq AddrPoints(group)'
<1>1. /\ appended'[group] = appended[group] \cup members
      /\ \A g \in AddrGroup : appended[g] \subseteq appended'[g]
      /\ \A g \in AddrGroup : g # group => appended'[g] = appended[g]
  BY DEF PlannerTypes
<1>2. \A r : AddedTo(r) \subseteq AddedTo(r)'
  BY <1>1 DEF AddedTo
<1>3. \A r : r \notin {group} \cup Inside[group] => AddedTo(r)' = AddedTo(r)
  <2>1. ASSUME NEW r, r \notin {group} \cup Inside[group]
        PROVE  AddedTo(r)' = AddedTo(r)
    <3>1. \A g \in AddrGroup : r = g \/ r \in Inside[g] => appended'[g] = appended[g]
      BY <1>1, <2>1
    <3>2. QED
      BY <3>1 DEF AddedTo
  <2>2. QED
    BY <2>1
<1>4. members \subseteq AddedTo(group)'
  BY <1>1 DEF AddedTo
<1>5. Grows
  BY <1>2 DEF Grows, AddrPoints
<1>6. \A refs : refs \cap ({group} \cup Inside[group]) = {} => Keeps(refs)
  BY <1>3 DEF Keeps, AddrPoints
<1>7. group \in AddrName
  BY PlannerAssumption
<1>8. \A t \in members : t \subseteq AddrPoints(group)'
  BY <1>4, <1>7 DEF AddrPoints
<1>9. QED
  BY <1>5, <1>6, <1>8

LEMMA CoveredStays ==
    ASSUME PlannerTypes, Grows, NEW refs \in SUBSET AddrRef, NEW negate \in BOOLEAN, negate => Keeps(refs),
           negate => KnownInFull(refs), NEW t \in SUBSET Host, NEW a \in t, _addr_dim(refs, negate, t).full, NEW later, refs \subseteq later,
           negate => later = refs
    PROVE  InField(a, later, negate)'
<1>1. InField(a, refs, negate)
  BY FieldMatches
<1>2. CASE negate
  BY <1>1, <1>2 DEF InField, Keeps
<1>3. CASE ~negate
  <2>1. PICK r \in refs : a \in AddrPoints(r)
    BY <1>1, <1>3 DEF InField
  <2>2. r \in later /\ a \in AddrPoints(r)'
    BY <2>1 DEF Grows
  <2>3. QED
    BY <1>3, <2>2 DEF InField
<1>4. QED
  BY <1>2, <1>3

(* A rule and what it becomes: the side that is extended has the addresses *)
(* it lacked.                                                              *)
OtherNegate(pol, s) == IF s.other = "src" THEN pol.src_negate ELSE pol.dst_negate

LEMMA ExtendedRuleHits ==
    ASSUME PlannerTypes, Grows, UNCHANGED snapshot,
           NEW pol \in PolicyRule, CoversAsRead(pol), NEW req \in Request, NEW s \in Sides(req),
           Extends(pol, req, s), OtherNegate(pol, s) => Keeps(pol[s.other]), NEW later \in PolicyRule,
           later.enabled = pol.enabled, later.always = pol.always, later.svc = pol.svc,
           later.src_negate = pol.src_negate, later.dst_negate = pol.dst_negate,
           later.srcintf = pol.srcintf, later.dstintf = pol.dstintf,
           pol[s.side] \subseteq later[s.side], later[s.other] = pol[s.other],
           \A t \in Missing(pol, s.side, s.targets) : \A a \in t : \E r \in later[s.side] : a \in AddrPoints(r)',
           NEW k \in PacketsOf(req)
    PROVE  PolicyHits(OnResolved(later, req), k, TRUE)'
<1>1. OnInterfaces(req, k) /\ k \in FlowPacket
  BY PacketsMeet
<1>2. PICK p \in Pairs(req) : PacketMeets(req, p, k)
  BY PacketsMeet
<1>3. /\ p[1] \in req.srcs /\ p[2] \in req.dsts /\ p[1] \in SUBSET Host /\ p[2] \in SUBSET Host
      /\ k.src \in p[1] /\ k.dst \in p[2] /\ k.port \in UNION service_ranges(req) /\ k.sport \in SrcPort
  BY <1>2, RequestTypes DEF PacketMeets, Pairs
<1>4. /\ pol.src \in SUBSET AddrRef /\ pol.dst \in SUBSET AddrRef /\ pol.svc \in SUBSET SvcRef
      /\ pol.src_negate \in BOOLEAN /\ pol.dst_negate \in BOOLEAN
      /\ pol.src_negate => KnownInFull(pol.src)
      /\ pol.dst_negate => KnownInFull(pol.dst)
      /\ NoMoreThanMeant(pol.svc)
  BY DEF PolicyRule, CoversAsRead
<1>5. pol.enabled /\ pol.always /\ Scoped(pol, req)
  BY DEF Extends, conditions_ok
<1>6. InService(k, pol.svc)
  BY <1>3, <1>4, ServiceMatches DEF Extends
<1>7. /\ Missing(pol, s.other, s.others) = {} /\ pol[s.negate] = FALSE
  BY <1>4 DEF Extends, Sides
<1>8. InField(k.src, later.src, later.src_negate)' /\ InField(k.dst, later.dst, later.dst_negate)'
  <2>1. CASE s.side = "src"
    <3>1. /\ s.other = "dst" /\ s.targets = req.srcs /\ s.others = req.dsts /\ s.negate = "src_negate"
      BY <2>1 DEF Sides
    <3>2. _addr_dim(pol.dst, pol.dst_negate, p[2]).full
      BY <1>3, <1>7, <3>1 DEF Missing
    <3>3. InField(k.dst, later.dst, later.dst_negate)'
      <4>1. later.dst = pol.dst /\ later.dst_negate = pol.dst_negate /\ (pol.dst_negate => Keeps(pol.dst))
        BY <3>1 DEF OtherNegate
      <4>2. InField(k.dst, pol.dst, pol.dst_negate)'
        BY <1>3, <1>4, <3>2, <4>1, CoveredStays
      <4>3. QED
        BY <4>1, <4>2
    <3>4. pol.src_negate = FALSE /\ later.src_negate = FALSE /\ pol.src \subseteq later.src
      BY <1>7, <2>1, <3>1
    <3>5. CASE p[1] \in Missing(pol, s.side, s.targets)
      <4>1. \E r \in later.src : k.src \in AddrPoints(r)'
        BY <1>3, <2>1, <3>5
      <4>2. QED
        BY <3>3, <3>4, <4>1 DEF InField
    <3>6. CASE p[1] \notin Missing(pol, s.side, s.targets)
      <4>1. _addr_dim(pol.src, FALSE, p[1]).full
        BY <1>3, <2>1, <3>1, <3>4, <3>6 DEF Missing
      <4>2. InField(k.src, later.src, FALSE)'
        BY <1>3, <1>4, <3>4, <4>1, CoveredStays
      <4>3. QED
        BY <3>3, <3>4, <4>2
    <3>7. QED
      BY <3>5, <3>6
  <2>2. CASE s.side = "dst"
    <3>1. /\ s.other = "src" /\ s.targets = req.dsts /\ s.others = req.srcs /\ s.negate = "dst_negate"
      BY <2>2 DEF Sides
    <3>2. _addr_dim(pol.src, pol.src_negate, p[1]).full
      BY <1>3, <1>7, <3>1 DEF Missing
    <3>3. InField(k.src, later.src, later.src_negate)'
      <4>1. later.src = pol.src /\ later.src_negate = pol.src_negate /\ (pol.src_negate => Keeps(pol.src))
        BY <3>1 DEF OtherNegate
      <4>2. InField(k.src, pol.src, pol.src_negate)'
        BY <1>3, <1>4, <3>2, <4>1, CoveredStays
      <4>3. QED
        BY <4>1, <4>2
    <3>4. pol.dst_negate = FALSE /\ later.dst_negate = FALSE /\ pol.dst \subseteq later.dst
      BY <1>7, <2>2, <3>1
    <3>5. CASE p[2] \in Missing(pol, s.side, s.targets)
      <4>1. \E r \in later.dst : k.dst \in AddrPoints(r)'
        BY <1>3, <2>2, <3>5
      <4>2. QED
        BY <3>3, <3>4, <4>1 DEF InField
    <3>6. CASE p[2] \notin Missing(pol, s.side, s.targets)
      <4>1. _addr_dim(pol.dst, FALSE, p[2]).full
        BY <1>3, <2>2, <3>1, <3>4, <3>6 DEF Missing
      <4>2. InField(k.dst, later.dst, FALSE)'
        BY <1>3, <1>4, <3>4, <4>1, CoveredStays
      <4>3. QED
        BY <3>3, <3>4, <4>2
    <3>7. QED
      BY <3>5, <3>6
  <2>3. QED
    BY <2>1, <2>2 DEF Sides
<1>9. Scoped(later, req)
  BY <1>5 DEF Scoped, _intf_scoped
<1>10. /\ OnResolved(later, req).srcintf = {} \/ InterfaceOf(k.src) \in OnResolved(later, req).srcintf
       /\ OnResolved(later, req).dstintf = {} \/ InterfaceOf(k.dst) \in OnResolved(later, req).dstintf
  BY <1>1, <1>5, <1>9, ScopedIsHit
<1>11. PICK q : q = OnResolved(later, req) /\ q = OnResolved(later, req)'
  <2>1. srcintf(req)' = srcintf(req) /\ dstintf(req)' = dstintf(req)
    BY SameInterfaces
  <2>2. OnResolved(later, req)' = OnResolved(later, req)
    BY <2>1 DEF OnResolved
  <2>3. QED
    BY <2>2
<1>12. /\ q.srcintf = {} \/ InterfaceOf(k.src) \in q.srcintf
       /\ q.dstintf = {} \/ InterfaceOf(k.dst) \in q.dstintf
       /\ q.enabled /\ q.always
       /\ q.src = later.src /\ q.src_negate = later.src_negate
       /\ q.dst = later.dst /\ q.dst_negate = later.dst_negate /\ q.svc = pol.svc
  <2>1. /\ OnResolved(later, req).enabled = later.enabled /\ OnResolved(later, req).always = later.always
        /\ OnResolved(later, req).src = later.src /\ OnResolved(later, req).src_negate = later.src_negate
        /\ OnResolved(later, req).dst = later.dst /\ OnResolved(later, req).dst_negate = later.dst_negate
        /\ OnResolved(later, req).svc = later.svc
    BY DEF OnResolved, PolicyRule
  <2>2. QED
    BY <1>5, <1>10, <1>11, <2>1
<1>13. PolicyHits(q, k, TRUE)'
  BY <1>6, <1>8, <1>12 DEF PolicyHits
<1>14. QED
  BY <1>11, <1>13 DEF PolicyHits, InField, InService

(* Rules stay apart from the groups they exclude: plans exclude nothing,   *)
(* and what is added to a rule is no group.                                *)
RulesStayApart ==
    /\ \A i \in DOMAIN policies : Apart(policies[i])
    /\ plan.status = "new_rule" => Apart(plan.pol)

LEMMA SameFieldsApart ==
    ASSUME NEW pol, NEW q, Apart(pol), q.src = pol.src, q.dst = pol.dst,
           q.src_negate = pol.src_negate, q.dst_negate = pol.dst_negate
    PROVE  Apart(q)
BY DEF Apart

LEMMA InsertedApart ==
    ASSUME PlannerTypes, UniqueIds, RulesStayApart, NEW pol \in PolicyRule, Apart(pol),
           NEW b \in {End} \cup DOMAIN policies, Insert(pol, b)
    PROVE  \A i \in DOMAIN policies' : Apart(policies'[i])
<1> DEFINE n   == Len(policies)
           new == [pol EXCEPT !.id = n + 1]
<1>1. Apart(new)
  BY SameFieldsApart DEF PolicyRule
<1>2. PICK at \in 1..(n + 1) :
        /\ DOMAIN policies' = 1..(n + 1)
        /\ \A j \in 1..(n + 1) : policies'[j] = InsertedAt(policies, at, new, j)
  BY InsertedBefore
<1>3. n \in Nat /\ DOMAIN policies = 1..n
  BY RulesAreTyped
<1> HIDE DEF new, n
<1>4. \A j \in 1..(n + 1) : \/ j \in 1..n /\ policies'[j] = policies[j]
                            \/ policies'[j] = new
                            \/ j - 1 \in 1..n /\ policies'[j] = policies[j - 1]
  BY <1>2, <1>3 DEF InsertedAt
<1>5. QED
  BY <1>1, <1>2, <1>3, <1>4 DEF RulesStayApart

LEMMA ApartInvariant == RulesApart => (PlannerSpec => []RulesStayApart)
<1> SUFFICES ASSUME RulesApart
             PROVE  PlannerSpec => []RulesStayApart
  OBVIOUS
<1>1. ASSUME PlannerInit
      PROVE  RulesStayApart
  BY <1>1 DEF PlannerInit, RulesStayApart, NoPlan
<1>2. ASSUME PlannerIInv, RulesStayApart, [PlannerNext]_plannerVars
      PROVE  RulesStayApart'
  <2>1. ASSUME NEW pol \in PlanShape, AdminAdds(pol)
        PROVE  RulesStayApart'
    <3>1. pol \in PolicyRule /\ Apart(pol) /\ Insert(pol, End) /\ plan' = plan
      BY <2>1, PlannerAssumption DEF AdminAdds, RulesApart
    <3>2. \A i \in DOMAIN policies' : Apart(policies'[i])
      BY <1>2, <3>1, InsertedApart DEF PlannerIInv
    <3>3. QED
      BY <1>2, <3>1, <3>2 DEF RulesStayApart
  <2>2. ASSUME NEW req \in Request, NEW v, NEW read \in Snapshot, plan_change(req, v, read)
        PROVE  RulesStayApart'
    <3>1. policies' = policies
      BY <2>2 DEF plan_change
    <3>2. plan'.status = "new_rule" => ~plan'.pol.src_negate /\ ~plan'.pol.dst_negate
      BY <1>2, <2>2, PlanChangeKeeps DEF PlannerIInv, PlanIsThere
    <3>3. QED
      BY <1>2, <3>1, <3>2 DEF RulesStayApart, Apart
  <2>3. ASSUME Implement
        PROVE  RulesStayApart'
    <3> DEFINE b == IF plan.before = End THEN End ELSE PosOf(plan.before)
    <3>1. plan.status = "new_rule" /\ Insert(plan.pol, b) /\ plan' = NoPlan
      BY <2>3 DEF Implement
    <3>2. plan.pol \in PolicyRule /\ b \in {End} \cup DOMAIN policies /\ Apart(plan.pol)
      BY <1>2, <3>1, PosOfRule DEF PlannerIInv, PlanIsThere, PlanIds, RulesStayApart
    <3> HIDE DEF b
    <3>3. \A i \in DOMAIN policies' : Apart(policies'[i])
      BY <1>2, <3>1, <3>2, InsertedApart DEF PlannerIInv
    <3>4. QED
      BY <3>1, <3>3 DEF RulesStayApart, NoPlan
  <2>4. ASSUME ImplementAlternative
        PROVE  RulesStayApart'
    <3>1. plan' = NoPlan
      BY <2>4 DEF ImplementAlternative
    <3>2. \A i \in DOMAIN policies' : Apart(policies'[i])
      <4>1. CASE plan.alternative.group \in AddrGroup
        BY <1>2, <2>4, <4>1 DEF ImplementAlternative, RulesStayApart
      <4>2. CASE plan.alternative.group \notin AddrGroup
        <5> DEFINE alt == plan.alternative
                   i   == PosOf(alt.id)
        <5>1. policies' = [policies EXCEPT ![i][alt.side] = @ \cup alt.members]
          BY <2>4, <4>2 DEF ImplementAlternative
        <5>2. alt.id \in PlanIds /\ alt.side \in {"src", "dst"} /\ alt.members \subseteq SUBSET Host
          BY <1>2, <2>4 DEF ImplementAlternative, PlannerIInv, PlanIsThere, AlternativeIsThere
        <5>3. i \in DOMAIN policies
          BY <1>2, <5>2, PosOfRule DEF PlannerIInv, PlanIds
        <5> HIDE DEF alt, i
        <5>4. policies[i] \in PolicyRule /\ Apart(policies[i])
          BY <1>2, <5>3, RulesAreTyped DEF PlannerIInv, RulesStayApart
        <5>5. \A m \in alt.members : m \notin AddrName
          BY <5>2, PlannerAssumption
        <5>6. \A j \in DOMAIN policies' : j \in DOMAIN policies /\ (j # i => policies'[j] = policies[j])
          BY <5>1
        <5>7. Apart(policies'[i])
          <6>1. CASE alt.side = "src"
            <7>1. policies'[i] = [policies[i] EXCEPT !.src = policies[i].src \cup alt.members]
              BY <5>1, <5>3, <6>1
            <7>2. QED
              BY <5>4, <5>5, <7>1, PlannerAssumption DEF Apart, PolicyRule
          <6>2. CASE alt.side = "dst"
            <7>1. policies'[i] = [policies[i] EXCEPT !.dst = policies[i].dst \cup alt.members]
              BY <5>1, <5>3, <6>2
            <7>2. QED
              BY <5>4, <5>5, <7>1, PlannerAssumption DEF Apart, PolicyRule
          <6>3. QED
            BY <5>2, <6>1, <6>2
        <5>8. QED
          BY <1>2, <5>6, <5>7 DEF RulesStayApart
      <4>3. QED
        BY <4>1, <4>2
    <3>3. QED
      BY <3>1, <3>2 DEF RulesStayApart, NoPlan
  <2>5. CASE UNCHANGED plannerVars
    BY <1>2, <2>5 DEF plannerVars, RulesStayApart
  <2>6. QED
    BY <1>2, <2>1, <2>2, <2>3, <2>4, <2>5 DEF PlannerNext
<1>3. QED
  BY <1>1, <1>2, PlannerInvariant, PTL DEF PlannerSpec

(* The alternative that a fresh plan offers is one of those it considered. *)
LEMMA FreshAlternative ==
    ASSUME PlannerIInv, ImplementAlternative, fresh
    PROVE  \E req \in Request, i \in DOMAIN policies : \E s \in Sides(req) :
             /\ plan.req = req /\ Extends(policies[i], req, s)
             /\ plan.alternative = Alternative(policies[i], req, s)
<1>1. plan.status = "new_rule" /\ plan.alternative.id # End
  BY DEF ImplementAlternative
<1>2. PICK req \in Request : plan = _plan_firewall(req)
  BY <1>1 DEF PlannerIInv, FreshPlan
<1>3. /\ plan.req = req
      /\ plan.alternative = IF NoRules THEN NoAlternative ELSE _group_append_alternative(req)
  BY <1>1, <1>2, PlansAreThere DEF PlannerIInv
<1>4. NoAlternative.id = End
  BY DEF NoAlternative
<1>5. plan.alternative = _group_append_alternative(req) /\ _group_append_alternative(req) # NoAlternative
  BY <1>1, <1>3, <1>4
<1>6. QED
  BY <1>3, <1>5, AlternativeIsFound DEF PlannerIInv

LEMMA ExtendedSides ==
    ASSUME NEW pol \in PolicyRule, NEW req, NEW s \in Sides(req)
    PROVE  /\ s.side \in {"src", "dst"} /\ s.other \in {"src", "dst"} /\ s.side # s.other
           /\ pol[s.side] \subseteq pol.src \cup pol.dst /\ pol[s.other] \subseteq pol.src \cup pol.dst
           /\ s.targets \in {req.srcs, req.dsts}
BY DEF Sides

(* Where a rule excludes addresses, no appended group is among them.       *)
LEMMA ExcludedAreKept ==
    ASSUME NEW pol \in PolicyRule, Apart(pol), NEW req, NEW s \in Sides(req), NEW group \in AddrGroup,
           group \in pol[s.side], OtherNegate(pol, s)
    PROVE  pol[s.other] \cap ({group} \cup Inside[group]) = {}
BY DEF Apart, OtherNegate, Sides

(* A rule all of whose names keep their addresses hits what it did.        *)
LEMMA KeptHits ==
    ASSUME NEW pol, Keeps(pol.src), Keeps(pol.dst), NEW k
    PROVE  PolicyHits(pol, k, TRUE)' <=> PolicyHits(pol, k, TRUE)
<1>1. \A a, negate : InField(a, pol.src, negate)' <=> InField(a, pol.src, negate)
  BY DEF InField, Keeps
<1>2. \A a, negate : InField(a, pol.dst, negate)' <=> InField(a, pol.dst, negate)
  BY DEF InField, Keeps
<1>3. QED
  BY <1>1, <1>2 DEF PolicyHits

(* The alternative has the effect it promises, and no other than those it  *)
(* warns of: the rule that lacked addresses of one side hits all of the    *)
(* request, whether they are appended to it or to a group of it, if it     *)
(* covers what it is read to cover, and no other changes if the groups and *)
(* packages were read (_group_append_alternative, _group_blast_radius).    *)
THEOREM AlternativesAreExact == RulesApart => (PlannerSpec => AlternativeExact)
<1> SUFFICES ASSUME RulesApart
             PROVE  PlannerSpec => AlternativeExact
  OBVIOUS
<1>1. ASSUME PlannerIInv, RulesStayApart, ImplementAlternative, fresh, NEW j \in DOMAIN policies,
             NEW req \in {plan.req}
      PROVE  /\ policies[j].id = plan.alternative.id /\ CoversAsRead(policies[j]) =>
                  \A k \in PacketsOf(req) : PolicyHits(OnResolved(policies[j], req), k, TRUE)'
             /\ ReadForBlast /\ policies[j].id \notin {plan.alternative.id} \cup plan.alternative.affected =>
                  \A k \in FlowPacket : PolicyHits(policies[j], k, TRUE) <=> PolicyHits(policies[j], k, TRUE)'
  <2>1. PICK i \in DOMAIN policies, s \in Sides(req) :
          req \in Request /\ Extends(policies[i], req, s) /\ plan.alternative = Alternative(policies[i], req, s)
    BY <1>1, FreshAlternative
  <2>2. PICK pol \in PolicyRule : pol = policies[i]
    BY <1>1, <2>1, RulesAreTyped DEF PlannerIInv
  <2>3. PICK alt : alt = plan.alternative
    OBVIOUS
  <2> DEFINE named   == pol[s.side] \cap AddrGroup
             members == Missing(pol, s.side, s.targets)
  <2>4. /\ alt.id = pol.id /\ alt.side = s.side /\ alt.members = members
        /\ alt.group = (IF named = {} THEN NoIface ELSE CHOOSE g \in named : TRUE)
        /\ named # {} => alt.affected = _group_blast_radius(alt.group, pol.id)
    BY <2>1, <2>2, <2>3 DEF Alternative
  <2>5. policies[j].id = alt.id <=> j = i
    BY <1>1, <2>1, <2>2, <2>4 DEF PlannerIInv, UniqueIds
  <2>6. Extends(pol, req, s) /\ Apart(pol) /\ policies[j] \in PolicyRule
    BY <1>1, <2>1, <2>2, RulesAreTyped DEF PlannerIInv, RulesStayApart
  <2>7. members \subseteq s.targets /\ s.targets \subseteq SUBSET Host
    BY <2>1, RequestTypes DEF Missing, Sides
  <2>7a. snapshot' = snapshot
    BY <1>1 DEF ImplementAlternative
  <2>8. CASE named # {}
    <3>1. PICK group \in named : alt.group = group
      <4>1. (CHOOSE g \in named : TRUE) \in named
        <5> HIDE DEF named
        <5>1. QED
          BY <2>8
      <4>2. QED
        BY <2>4, <2>8, <4>1
    <3>2. group \in AddrGroup /\ group \in pol[s.side]
      OBVIOUS
    <3> HIDE DEF named
    <3>3. policies' = policies /\ appended' = [appended EXCEPT ![group] = @ \cup alt.members]
      BY <1>1, <2>3, <3>1, <3>2 DEF ImplementAlternative
    <3>4. /\ Grows /\ \A t \in alt.members : t \subseteq AddrPoints(group)'
          /\ \A refs : refs \cap ({group} \cup Inside[group]) = {} => Keeps(refs)
      BY <1>1, <3>2, <3>3, AppendedGrow DEF PlannerIInv
    <3>5. OtherNegate(pol, s) => Keeps(pol[s.other])
      BY <2>6, <3>2, <3>4, ExcludedAreKept
    <3>6. \A t \in members : \A a \in t : \E r \in pol[s.side] : a \in AddrPoints(r)'
      BY <2>4, <3>2, <3>4
    <3>7. CoversAsRead(pol) => \A k \in PacketsOf(req) : PolicyHits(OnResolved(pol, req), k, TRUE)'
      BY <1>1, <2>1, <2>6, <2>7a, <3>4, <3>5, <3>6, ExtendedRuleHits DEF PlannerIInv
    <3>8. ASSUME j = i, CoversAsRead(policies[j])
          PROVE  \A k \in PacketsOf(req) : PolicyHits(OnResolved(policies[j], req), k, TRUE)'
      <4>1. policies'[j] = pol /\ policies[j] = pol
        BY <2>2, <3>3, <3>8
      <4>2. CoversAsRead(pol)
        BY <3>8, <4>1
      <4>3. QED
        BY <3>7, <4>1, <4>2
    <3>9. ASSUME ReadForBlast, policies[j].id \notin {alt.id} \cup alt.affected
          PROVE  \A k : PolicyHits(policies[j], k, TRUE)' <=> PolicyHits(policies[j], k, TRUE)
      <4>1. alt.affected = _group_blast_radius(group, pol.id)
        BY <2>4, <2>8, <3>1
      <4>2. (policies[j].src \cup policies[j].dst) \cap ({group} \cup Inside[group]) = {}
        BY <2>4, <3>9, <4>1 DEF _group_blast_radius, ReadForBlast
      <4>3. Keeps(policies[j].src) /\ Keeps(policies[j].dst)
        BY <3>4, <4>2
      <4>4. PICK q : q = policies[j]
        OBVIOUS
      <4>5. \A k : PolicyHits(q, k, TRUE)' <=> PolicyHits(q, k, TRUE)
        BY <4>3, <4>4, KeptHits
      <4>6. q = policies'[j]
        BY <3>3, <4>4
      <4>7. QED
        BY <4>4, <4>5, <4>6
    <3>10. QED
      BY <2>3, <2>5, <3>8, <3>9
  <2>9. CASE named = {}
    <3>1. alt.group \notin AddrGroup
      BY <2>4, <2>9, PlannerAssumption
    <3>2. PosOf(alt.id) = i
      BY <1>1, <2>1, <2>2, <2>4, PosOfRule DEF PlannerIInv
    <3>3. policies' = [policies EXCEPT ![i][alt.side] = @ \cup alt.members] /\ appended' = appended
      BY <1>1, <2>3, <3>1, <3>2 DEF ImplementAlternative
    <3>0. PICK later : later = [pol EXCEPT ![s.side] = @ \cup members]
      OBVIOUS
    <3>4. policies'[i] = later
      BY <2>1, <2>2, <2>4, <3>0, <3>3
    <3>5. members \subseteq AddrRef
      BY <2>7 DEF AddrRef
    <3> HIDE DEF members
    <3>6. /\ later \in PolicyRule /\ later.enabled = pol.enabled /\ later.always = pol.always /\ later.svc = pol.svc
          /\ later.src_negate = pol.src_negate /\ later.dst_negate = pol.dst_negate
          /\ later.srcintf = pol.srcintf /\ later.dstintf = pol.dstintf
          /\ later[s.side] = pol[s.side] \cup members /\ later[s.other] = pol[s.other]
      <4>1. CASE s.side = "src" /\ s.other = "dst"
        <5>1. later = [pol EXCEPT !.src = pol.src \cup members]
          BY <3>0, <4>1
        <5>2. QED
          BY <3>5, <4>1, <5>1 DEF PolicyRule
      <4>2. CASE s.side = "dst" /\ s.other = "src"
        <5>1. later = [pol EXCEPT !.dst = pol.dst \cup members]
          BY <3>0, <4>2
        <5>2. QED
          BY <3>5, <4>2, <5>1 DEF PolicyRule
      <4>3. QED
        BY <4>1, <4>2 DEF Sides
    <3>7. Grows /\ \A refs : Keeps(refs)
      BY <3>3, SamePoints DEF Grows, Keeps
    <3>8. \A t \in members : t \in later[s.side] /\ t \subseteq AddrPoints(t)'
      <4>1. \A t \in members : t \notin AddrName
        BY <2>7, PlannerAssumption DEF members
      <4>2. QED
        BY <3>6, <4>1 DEF AddrPoints
    <3>9. \A t \in members : \A a \in t : \E r \in later[s.side] : a \in AddrPoints(r)'
      BY <3>8
    <3>10. CoversAsRead(pol) => \A k \in PacketsOf(req) : PolicyHits(OnResolved(later, req), k, TRUE)'
      BY <1>1, <2>1, <2>6, <2>7a, <3>6, <3>7, <3>9, ExtendedRuleHits DEF PlannerIInv, members
    <3>11. ASSUME j = i, CoversAsRead(policies[j])
           PROVE  \A k \in PacketsOf(req) : PolicyHits(OnResolved(policies[j], req), k, TRUE)'
      <4>1. CoversAsRead(pol) /\ policies'[j] = later
        BY <2>2, <3>4, <3>11
      <4>2. QED
        BY <3>10, <4>1
    <3>12. ASSUME j # i
           PROVE  \A k : PolicyHits(policies[j], k, TRUE)' <=> PolicyHits(policies[j], k, TRUE)
      <4>1. policies'[j] = policies[j]
        BY <3>3, <3>12
      <4>2. QED
        BY <3>3, <4>1, SameHits
    <3>13. QED
      BY <2>3, <2>5, <3>11, <3>12
  <2>10. QED
    BY <2>8, <2>9
<1>2. ASSUME PlannerIInv, RulesStayApart, [PlannerNext]_plannerVars
      PROVE  [ImplementAlternative /\ fresh =>
               \A i \in DOMAIN policies, req \in {plan.req} :
                 LET id == policies[i].id
                 IN  /\ id = plan.alternative.id /\ CoversAsRead(policies[i]) =>
                          \A k \in PacketsOf(req) : PolicyHits(OnResolved(policies[i], req), k, TRUE)'
                     /\ ReadForBlast /\ id \notin {plan.alternative.id} \cup plan.alternative.affected =>
                          \A k \in FlowPacket : PolicyHits(policies[i], k, TRUE) <=> PolicyHits(policies[i], k, TRUE)']_plannerVars
  BY <1>1, <1>2
<1>3. QED
  BY <1>2, PlannerInvariant, ApartInvariant, PTL DEF PlannerSpec, AlternativeExact

-----------------------------------------------------------------------------
(* Rule review.  An analysis is about the rules as they are: everything    *)
(* that changes them throws its results away.                              *)
Analysed(r) ==
    /\ r.package \in ReviewPkg /\ r.flow \in ReviewFlow
    /\ LET advice == analyze_flows(r.adoms, IF r.lost THEN <<>> ELSE package[r.package], r.flow)
       IN  r.verdict = advice.verdict /\ r.at = advice.at
    /\ r.path = check_path_relevance(r.flow, DataRead(DeviceOf[r.package], r.unread))

ReviewIInv ==
    /\ package \in [ReviewPkg -> Seq(WrittenRule)]
    /\ \A r \in results : Analysed(r)

LEMMA FirstInIsFirst ==
    ASSUME NEW S \in SUBSET Nat, S # {}
    PROVE  FirstIn(S) \in S /\ \A i \in S : FirstIn(S) <= i
BY Minimum DEF FirstIn

(* Which rules an analysis names.                                          *)
LEMMA AdviceOf ==
    ASSUME NEW adoms, NEW pols \in Seq(WrittenRule), NEW flow
    PROVE  LET advice == analyze_flows(adoms, pols, flow)
           IN  /\ advice.verdict = "MODIFIABLE" =>
                    /\ Matching(adoms, pols, flow) = {}
                    /\ advice.at \in Modifiable(adoms, pols, flow)
                    /\ \A i \in Modifiable(adoms, pols, flow) : advice.at <= i
               /\ advice.verdict = "NEW_RULE_NEEDED" =>
                    Matching(adoms, pols, flow) = {} /\ Modifiable(adoms, pols, flow) = {}
               /\ advice.verdict \in {"NEW_RULE_NEEDED", "EXPLICITLY_DENIED"} => advice.at \in 0..Len(pols)
<1> DEFINE matching   == Matching(adoms, pols, flow)
           modifiable == Modifiable(adoms, pols, flow)
           permit     == {i \in matching : pols[i].accept}
           advice     == analyze_flows(adoms, pols, flow)
<1>1. Len(pols) \in Nat /\ DOMAIN pols = 1..Len(pols)
  OBVIOUS
<1>2. matching \subseteq 1..Len(pols) /\ modifiable \subseteq 1..Len(pols)
  BY <1>1 DEF Matching, Modifiable
<1>3. last_permit_seq(pols) \in 0..Len(pols)
  <2> DEFINE accept == {i \in DOMAIN pols : pols[i].enabled /\ pols[i].accept}
  <2>1. last_permit_seq(pols) = IF accept = {} THEN 0 ELSE CHOOSE i \in accept : \A j \in accept : j <= i
    BY DEF last_permit_seq
  <2>2. accept \subseteq 1..Len(pols)
    BY <1>1
  <2> HIDE DEF accept
  <2>3. ASSUME accept # {}
        PROVE  \E i \in accept : \A j \in accept : j <= i
    <3> DEFINE after == {Len(pols) - i : i \in accept}
    <3>1. after \in SUBSET Nat /\ after # {}
      <4>1. \A i \in accept : Len(pols) - i \in Nat
        BY <1>1, <2>2
      <4>2. QED
        BY <2>3, <4>1
    <3>2. PICK m \in after : \A k \in after : m <= k
      <4> HIDE DEF after
      <4>1. QED
        BY <3>1, Minimum
    <3>3. PICK i \in accept : m = Len(pols) - i
      OBVIOUS
    <3>4. \A j \in accept : Len(pols) - i <= Len(pols) - j
      BY <3>2, <3>3
    <3>5. QED
      BY <1>1, <2>2, <3>4
  <2>4. accept # {} => (CHOOSE i \in accept : \A j \in accept : j <= i) \in accept
    BY <2>3
  <2>5. accept # {} => last_permit_seq(pols) \in accept
    BY <2>1, <2>4
  <2>6. accept = {} => last_permit_seq(pols) = 0
    BY <2>1
  <2>7. last_permit_seq(pols) \in {0} \cup 1..Len(pols)
    BY <2>2, <2>5, <2>6
  <2>8. QED
    BY <1>1, <2>7
<1>4. CASE permit # {}
  <2>1. advice = [verdict |-> "PERMITTED", at |-> FirstIn(permit)]
    BY <1>4, Zenon DEF analyze_flows
  <2>2. QED
    BY <2>1
<1>5. CASE permit = {} /\ matching # {}
  <2>1. advice = [verdict |-> "EXPLICITLY_DENIED", at |-> Len(pols)]
    BY <1>5, Zenon DEF analyze_flows
  <2>2. QED
    BY <1>1, <2>1
<1>6. CASE matching = {} /\ modifiable # {}
  <2>1. advice = [verdict |-> "MODIFIABLE", at |-> FirstIn(modifiable)]
    BY <1>6, Zenon DEF analyze_flows
  <2> HIDE DEF modifiable
  <2>2. FirstIn(modifiable) \in modifiable /\ \A i \in modifiable : FirstIn(modifiable) <= i
    BY <1>2, <1>6, FirstInIsFirst
  <2>3. QED
    BY <1>6, <2>1, <2>2 DEF modifiable
<1>7. CASE matching = {} /\ modifiable = {}
  <2>1. advice = [verdict |-> "NEW_RULE_NEEDED", at |-> last_permit_seq(pols)]
    BY <1>7, Zenon DEF analyze_flows
  <2>2. QED
    BY <1>3, <1>7, <2>1
<1>8. QED
  BY <1>4, <1>5, <1>6, <1>7

LEMMA PastedIsWritten ==
    ASSUME NEW flow \in ReviewFlow
    PROVE  _fortios_cli(flow) \in WrittenRule
<1>1. /\ flow.src \in ReviewAddr /\ flow.dst \in ReviewAddr /\ AskedPorts(flow) \subseteq ReviewSvc
  BY ReviewAssumption DEF ReviewAddr, ReviewSvc, AskedPorts
<1>2. QED
  BY <1>1 DEF _fortios_cli, WrittenRule

(* The rules and places that results name are there.                       *)
LEMMA AdvisedRule ==
    ASSUME ReviewIInv, NEW r \in results, r.verdict = "MODIFIABLE"
    PROVE  LET pols == package[r.package]
           IN  /\ r.at \in DOMAIN pols /\ pols[r.at].enabled /\ pols[r.at].accept
               /\ Matching(r.adoms, pols, r.flow) = {}
               /\ \A i \in Modifiable(r.adoms, pols, r.flow) : r.at <= i
<1> DEFINE pols == IF r.lost THEN <<>> ELSE package[r.package]
<1>1. pols \in Seq(WrittenRule) /\ package[r.package] \in Seq(WrittenRule)
  BY DEF ReviewIInv, Analysed
<1>2. r.verdict = analyze_flows(r.adoms, pols, r.flow).verdict /\ r.at = analyze_flows(r.adoms, pols, r.flow).at
  BY DEF ReviewIInv, Analysed
<1> HIDE DEF pols
<1>3. /\ Matching(r.adoms, pols, r.flow) = {} /\ r.at \in Modifiable(r.adoms, pols, r.flow)
      /\ \A i \in Modifiable(r.adoms, pols, r.flow) : r.at <= i
  BY <1>1, <1>2, AdviceOf
<1>4. r.at \in DOMAIN pols /\ pols[r.at].enabled /\ pols[r.at].accept
  BY <1>3 DEF Modifiable, CoversAddresses
<1>5. pols = package[r.package]
  BY <1>4 DEF pols
<1>6. QED
  BY <1>3, <1>4, <1>5

LEMMA AdvisedPlace ==
    ASSUME ReviewIInv, NEW r \in results, r.verdict \in {"NEW_RULE_NEEDED", "EXPLICITLY_DENIED"}
    PROVE  /\ r.at \in Nat /\ r.at + 1 \in 1..Len(package[r.package]) + 1
           /\ r.verdict = "NEW_RULE_NEEDED" /\ ~r.lost =>
                /\ Matching(r.adoms, package[r.package], r.flow) = {}
                /\ Modifiable(r.adoms, package[r.package], r.flow) = {}
<1> DEFINE pols == IF r.lost THEN <<>> ELSE package[r.package]
<1>1. pols \in Seq(WrittenRule) /\ package[r.package] \in Seq(WrittenRule)
  BY DEF ReviewIInv, Analysed
<1>2. r.verdict = analyze_flows(r.adoms, pols, r.flow).verdict /\ r.at = analyze_flows(r.adoms, pols, r.flow).at
  BY DEF ReviewIInv, Analysed
<1>3. Len(pols) \in 0..Len(package[r.package]) /\ (~r.lost => pols = package[r.package])
  BY <1>1
<1> HIDE DEF pols
<1>4. /\ r.at \in 0..Len(pols)
      /\ r.verdict = "NEW_RULE_NEEDED" =>
           Matching(r.adoms, pols, r.flow) = {} /\ Modifiable(r.adoms, pols, r.flow) = {}
  BY <1>1, <1>2, AdviceOf
<1>5. r.at \in Nat /\ r.at + 1 \in 1..Len(package[r.package]) + 1
  BY <1>1, <1>3, <1>4
<1>6. QED
  BY <1>3, <1>4, <1>5

LEMMA ReviewInvariant == ReviewSpec => []ReviewIInv
<1>1. ASSUME ReviewInit
      PROVE  ReviewIInv
  BY <1>1 DEF ReviewInit, ReviewIInv
<1>2. ASSUME ReviewIInv, ReviewNext
      PROVE  ReviewIInv'
  <2>1. ASSUME NEW p \in ReviewPkg, NEW rule \in ReviewRule[p], AdminWrites(p, rule)
        PROVE  ReviewIInv'
    <3>1. rule \in WrittenRule /\ package[p] \in Seq(WrittenRule)
      BY <1>2, ReviewAssumption DEF ReviewIInv
    <3>2. <<rule>> \o package[p] \in Seq(WrittenRule) /\ Append(package[p], rule) \in Seq(WrittenRule)
      BY <3>1, ConcatProperties
    <3>3. results' = {} /\ package' \in {[package EXCEPT ![p] = <<rule>> \o @], [package EXCEPT ![p] = Append(@, rule)]}
      BY <2>1 DEF AdminWrites
    <3>4. package' \in [ReviewPkg -> Seq(WrittenRule)]
      BY <1>2, <3>2, <3>3 DEF ReviewIInv
    <3>5. QED
      BY <3>3, <3>4 DEF ReviewIInv
  <2>2. ASSUME NEW f \in ReviewFlow, NEW sel \in SUBSET ReviewPkg, NEW lost, NEW failing,
               rr_analyze(f, sel, lost, failing)
        PROVE  ReviewIInv'
    <3>1. package' = package
      BY <2>2 DEF rr_analyze
    <3>2. ASSUME NEW r \in results'
          PROVE  Analysed(r)
      <4>1. PICK p \in sel : 
              LET adoms  == {AdomOf[q] : q \in sel}
                  advice == analyze_flows(adoms, IF p \in lost THEN <<>> ELSE package[p], f)
                  unread == {t \in Table : <<DeviceOf[p], t>> \in failing}
              IN  r = [package |-> p, flow |-> f, adoms |-> adoms, lost |-> p \in lost, unread |-> unread,
                       verdict |-> advice.verdict, at |-> advice.at,
                       path |-> check_path_relevance(f, DataRead(DeviceOf[p], unread))]
        BY <2>2, <3>2 DEF rr_analyze
      <4> DEFINE adoms  == {AdomOf[q] : q \in sel}
                 advice == analyze_flows(adoms, IF p \in lost THEN <<>> ELSE package[p], f)
                 unread == {t \in Table : <<DeviceOf[p], t>> \in failing}
      <4>2. /\ r.package = p /\ r.flow = f /\ r.adoms = adoms /\ r.lost = (p \in lost) /\ r.unread = unread
            /\ r.verdict = advice.verdict /\ r.at = advice.at
            /\ r.path = check_path_relevance(f, DataRead(DeviceOf[p], unread))
        BY <4>1
      <4>3. QED
        BY <4>2 DEF Analysed
    <3>3. \A r : Analysed(r) => Analysed(r)'
      BY <3>1 DEF Analysed
    <3>4. QED
      BY <1>2, <3>1, <3>2, <3>3 DEF ReviewIInv
  <2>3. ASSUME NEW r \in results, AddService(r)
        PROVE  ReviewIInv'
    <3>1. r.verdict = "MODIFIABLE" /\ results' = {}
          /\ package' = [package EXCEPT ![r.package][r.at].svc = @ \cup AskedPorts(r.flow)]
      BY <2>3 DEF AddService
    <3>2. /\ r.package \in ReviewPkg /\ r.flow \in ReviewFlow
      BY <1>2 DEF ReviewIInv, Analysed
    <3>3. PICK pols : pols = package[r.package] /\ pols \in Seq(WrittenRule)
      BY <1>2, <3>2 DEF ReviewIInv
    <3>4. r.at \in DOMAIN pols
      BY <1>2, <3>1, <3>3, AdvisedRule
    <3>5. [pols[r.at] EXCEPT !.svc = @ \cup AskedPorts(r.flow)] \in WrittenRule
      <4>1. AskedPorts(r.flow) \subseteq ReviewSvc
        BY <3>2, ReviewAssumption DEF AskedPorts, ReviewSvc
      <4>2. pols[r.at] \in WrittenRule
        BY <3>3, <3>4
      <4>3. QED
        BY <4>1, <4>2 DEF WrittenRule
    <3>6. [pols EXCEPT ![r.at] = [pols[r.at] EXCEPT !.svc = @ \cup AskedPorts(r.flow)]] \in Seq(WrittenRule)
      BY <3>3, <3>4, <3>5
    <3>7. package' \in [ReviewPkg -> Seq(WrittenRule)]
      BY <1>2, <3>1, <3>2, <3>3, <3>6 DEF ReviewIInv
    <3>8. QED
      BY <3>1, <3>7 DEF ReviewIInv
  <2>4. ASSUME NEW r \in results, PasteRule(r)
        PROVE  ReviewIInv'
    <3>1. /\ r.verdict \in {"NEW_RULE_NEEDED", "EXPLICITLY_DENIED"} /\ results' = {}
          /\ package' = [package EXCEPT ![r.package] = Inserted(package[r.package], r.at + 1, _fortios_cli(r.flow))]
      <4>1. r.at \in Nat
        BY <1>2, <2>4, AdvisedPlace DEF PasteRule
      <4>2. (r.at + 1) - 1 = r.at
        BY <4>1
      <4>3. QED
        BY <2>4, <4>2 DEF PasteRule, Inserted
    <3>2. /\ r.package \in ReviewPkg /\ r.flow \in ReviewFlow
      BY <1>2 DEF ReviewIInv, Analysed
    <3>3. _fortios_cli(r.flow) \in WrittenRule
      BY <3>2, PastedIsWritten
    <3>4. package[r.package] \in Seq(WrittenRule) /\ r.at + 1 \in 1..Len(package[r.package]) + 1
      BY <1>2, <2>4, <3>2, AdvisedPlace DEF PasteRule, ReviewIInv
    <3>5. Inserted(package[r.package], r.at + 1, _fortios_cli(r.flow)) \in Seq(WrittenRule)
      BY <3>3, <3>4, InsertedOne, Zenon
    <3>6. package' \in [ReviewPkg -> Seq(WrittenRule)]
      BY <1>2, <3>1, <3>5 DEF ReviewIInv
    <3>7. QED
      BY <3>1, <3>6 DEF ReviewIInv
  <2>5. QED
    BY <1>2, <2>1, <2>2, <2>3, <2>4 DEF ReviewNext
<1>3. ASSUME ReviewIInv, UNCHANGED reviewVars
      PROVE  ReviewIInv'
  <2>1. package' = package /\ results' = results
    BY <1>3 DEF reviewVars
  <2>2. \A r : Analysed(r) => Analysed(r)'
    BY <2>1 DEF Analysed
  <2>3. QED
    BY <1>3, <2>1, <2>2 DEF ReviewIInv
<1>4. QED
  BY <1>1, <1>2, <1>3, PTL DEF ReviewSpec

-----------------------------------------------------------------------------
(* Blocks that share an address and do not differ in size are the same, so *)
(* that connected subnets and routes can be looked up one after the other. *)
LEMMA MostSpecificHit ==
    ASSUME NEW table, \A e \in table : IsFiniteSet(e.net), NEW a, \E e \in table : a \in e.net
    PROVE  \E e \in table : /\ a \in e.net /\ MostSpecificOf(table, a) = e.name
                            /\ \A f \in table : a \in f.net => Cardinality(e.net) <= Cardinality(f.net)
<1> DEFINE hit     == {e \in table : a \in e.net}
           Size(e) == Cardinality(e.net)
           best    == CHOOSE e \in hit : \A f \in hit : Size(e) <= Size(f)
<1>1. \A e \in hit : Size(e) \in Nat
  BY FS_CardinalityType
<1>2. \E e \in hit : \A f \in hit : Size(e) <= Size(f)
  <2> DEFINE sizes == {Size(e) : e \in hit}
  <2>1. sizes \in SUBSET Nat /\ sizes # {}
    BY <1>1
  <2>2. PICK m \in sizes : \A k \in sizes : m <= k
    <3> HIDE DEF sizes
    <3>1. QED
      BY <2>1, Minimum
  <2>3. QED
    BY <2>2
<1>3. best \in hit /\ \A f \in hit : Size(best) <= Size(f)
  <2> HIDE DEF hit, Size
  <2>1. QED
    BY <1>2
<1>4. MostSpecificOf(table, a) = best.name
  BY <1>2 DEF MostSpecificOf
<1> HIDE DEF best
<1>5. QED
  BY <1>3, <1>4

LEMMA SameBlock ==
    ASSUME NEW b, NEW c, IsFiniteSet(b), IsFiniteSet(c), b \subseteq c \/ c \subseteq b,
           Cardinality(b) <= Cardinality(c), Cardinality(c) <= Cardinality(b)
    PROVE  b = c
<1>1. Cardinality(b) \in Nat /\ Cardinality(c) \in Nat
  BY FS_CardinalityType
<1>2. Cardinality(b) = Cardinality(c)
  BY <1>1
<1>3. QED
  BY <1>2, FS_Subset

LEMMA WaysAreBlocks ==
    ASSUME NEW data, IsRouting(data)
    PROVE  /\ \A e \in Ways(data) : IsFiniteSet(e.net) /\ e.name # NoInterface
           /\ \A e, f \in Ways(data) : e.net \cap f.net = {} \/ e.net \subseteq f.net \/ f.net \subseteq e.net
           /\ \A e \in data.interfaces \cup data.routes : e \in data.routes \/ e.up =>
                 \E w \in Ways(data) : w.net = e.net /\ w.name = e.name
           /\ \A w \in Ways(data) : \E e \in {i \in data.interfaces : i.up} \cup data.routes :
                 w.net = e.net /\ w.name = e.name
<1> DEFINE Used == {i \in data.interfaces : i.up} \cup data.routes
<1>1. Used \subseteq data.interfaces \cup data.routes
      /\ \A e \in data.interfaces \cup data.routes : e \in data.routes \/ e.up => e \in Used
  OBVIOUS
<1>2. Ways(data) = {[net |-> e.net, name |-> e.name] : e \in Used}
  BY Zenon DEF Ways
<1> HIDE DEF Used
<1>3. \A w \in Ways(data) : \E e \in Used : w.net = e.net /\ w.name = e.name
  BY <1>2
<1>4. \A e \in Used : \E w \in Ways(data) : w.net = e.net /\ w.name = e.name
  <2>1. ASSUME NEW e \in Used
        PROVE  \E w \in Ways(data) : w.net = e.net /\ w.name = e.name
    <3>1. [net |-> e.net, name |-> e.name] \in Ways(data)
      BY <1>2, Zenon
    <3>2. QED
      BY <3>1
  <2>2. QED
    BY <2>1
<1>5. /\ \A e \in Used : IsFiniteSet(e.net) /\ e.name # NoInterface
      /\ \A e, f \in Used : e.net \cap f.net = {} \/ e.net \subseteq f.net \/ f.net \subseteq e.net
  BY <1>1 DEF IsRouting
<1>6. \A e \in Ways(data) : IsFiniteSet(e.net) /\ e.name # NoInterface
  BY <1>3, <1>5
<1>7. \A e, f \in Ways(data) : e.net \cap f.net = {} \/ e.net \subseteq f.net \/ f.net \subseteq e.net
  BY <1>3, <1>5
<1>8. QED
  BY <1>1, <1>3, <1>4, <1>6, <1>7 DEF Used

(* The most specific entry of a table is the most specific way, when no    *)
(* way is more specific.                                                   *)
LEMMA BestIsEgress ==
    ASSUME NEW data, IsRouting(data), ConnectedFirst(data), NEW a, NEW e \in Ways(data), a \in e.net,
           \A w \in Ways(data) : a \in w.net => w.name = e.name \/ Cardinality(e.net) <= Cardinality(w.net)
    PROVE  Egress(data, a) = e.name
<1>1. PICK w \in Ways(data) : /\ a \in w.net /\ MostSpecificOf(Ways(data), a) = w.name
                              /\ \A f \in Ways(data) : a \in f.net => Cardinality(w.net) <= Cardinality(f.net)
  BY MostSpecificHit, WaysAreBlocks
<1>2. CASE w.name = e.name
  BY <1>1, <1>2 DEF Egress
<1>3. CASE w.name # e.name
  <2>1. Cardinality(e.net) <= Cardinality(w.net) /\ Cardinality(w.net) <= Cardinality(e.net)
    BY <1>1, <1>3
  <2>2. IsFiniteSet(e.net) /\ IsFiniteSet(w.net) /\ (e.net \subseteq w.net \/ w.net \subseteq e.net)
    BY <1>1, WaysAreBlocks
  <2>3. e.net = w.net
    BY <2>1, <2>2, SameBlock
  <2>4. QED
    BY <1>3, <2>3 DEF ConnectedFirst
<1>4. QED
  BY <1>2, <1>3

LEMMA EgressIsFound ==
    ASSUME NEW data, IsRouting(data), ConnectedFirst(data), NEW a
    PROVE  PathInterface(data, a) = Egress(data, a)
<1> DEFINE up == {e \in data.interfaces : e.up}
<1>1. PathInterface(data, a) = IF MostSpecificOf(up, a) # NoInterface THEN MostSpecificOf(up, a)
                               ELSE MostSpecificOf(data.routes, a)
  BY DEF PathInterface
<1>2. \A e \in up \cup data.routes : IsFiniteSet(e.net) /\ e.name # NoInterface
  BY DEF IsRouting
<1>3. CASE \A e \in up \cup data.routes : a \notin e.net
  <2>1. \A w \in Ways(data) : a \notin w.net
    BY <1>3, WaysAreBlocks
  <2>2. Egress(data, a) = NoInterface
    BY <2>1 DEF Egress, MostSpecificOf
  <2>3. MostSpecificOf(up, a) = NoInterface /\ MostSpecificOf(data.routes, a) = NoInterface
    BY <1>3 DEF MostSpecificOf
  <2>4. QED
    BY <1>1, <2>2, <2>3
<1>4. CASE (\A e \in up : a \notin e.net) /\ \E e \in data.routes : a \in e.net
  <2>1. MostSpecificOf(up, a) = NoInterface
    BY <1>4 DEF MostSpecificOf
  <2>2. PICK e \in data.routes : /\ a \in e.net /\ MostSpecificOf(data.routes, a) = e.name
                                 /\ \A f \in data.routes : a \in f.net => Cardinality(e.net) <= Cardinality(f.net)
    BY <1>2, <1>4, MostSpecificHit
  <2>3. PICK v \in Ways(data) : v.net = e.net /\ v.name = e.name
    BY WaysAreBlocks
  <2>4. ASSUME NEW w \in Ways(data), a \in w.net
        PROVE  Cardinality(v.net) <= Cardinality(w.net)
    <3>1. PICK f \in up \cup data.routes : w.net = f.net /\ w.name = f.name
      BY WaysAreBlocks
    <3>2. f \in data.routes
      BY <1>4, <2>4, <3>1
    <3>3. QED
      BY <2>2, <2>3, <2>4, <3>1, <3>2
  <2>5. Egress(data, a) = v.name
    BY <2>2, <2>3, <2>4, BestIsEgress
  <2>6. QED
    BY <1>1, <2>1, <2>2, <2>3, <2>5
<1>5. CASE \E e \in up : a \in e.net
  <2>1. PICK u \in up : /\ a \in u.net /\ MostSpecificOf(up, a) = u.name
                        /\ \A f \in up : a \in f.net => Cardinality(u.net) <= Cardinality(f.net)
    BY <1>2, <1>5, MostSpecificHit
  <2>2. PICK v \in Ways(data) : v.net = u.net /\ v.name = u.name
    BY WaysAreBlocks
  <2>3. ASSUME NEW w \in Ways(data), a \in w.net
        PROVE  w.name = v.name \/ Cardinality(v.net) <= Cardinality(w.net)
    <3>1. PICK f \in up \cup data.routes : w.net = f.net /\ w.name = f.name
      BY WaysAreBlocks
    <3>2. CASE f \in up
      BY <2>1, <2>2, <2>3, <3>1, <3>2
    <3>3. CASE f \in data.routes /\ w.net \subseteq v.net
      BY <2>2, <3>1, <3>3 DEF ConnectedFirst
    <3>4. CASE ~ w.net \subseteq v.net
      <4>1. v.net \subseteq w.net /\ IsFiniteSet(w.net)
        BY <2>1, <2>2, <2>3, <3>4, WaysAreBlocks
      <4>2. QED
        BY <4>1, FS_Subset
    <3>5. QED
      BY <3>1, <3>2, <3>3, <3>4
  <2>4. Egress(data, a) = v.name
    BY <2>1, <2>2, <2>3, BestIsEgress
  <2>5. QED
    BY <1>1, <1>2, <2>1, <2>2, <2>4
<1>6. QED
  BY <1>3, <1>4, <1>5

(* What is lost takes ways away and nothing else.                          *)
LEMMA ReadIsRouting ==
    ASSUME NEW d, d # NoDevice, NEW unread, IsRouting(Routing[d]), ConnectedFirst(Routing[d])
    PROVE  IsRouting(DataRead(d, unread)) /\ ConnectedFirst(DataRead(d, unread))
<1> DEFINE all  == Routing[d]
           read == DataRead(d, unread)
<1>1. read.interfaces \subseteq all.interfaces /\ read.routes \subseteq all.routes
  BY DEF DataRead
<1>2. Ways(read) \subseteq Ways(all)
  BY <1>1 DEF Ways
<1> HIDE DEF all, read
<1>3. IsRouting(all) => IsRouting(read)
  BY <1>1 DEF IsRouting
<1>4. ConnectedFirst(all) => ConnectedFirst(read)
  BY <1>1, <1>2 DEF ConnectedFirst
<1>5. QED
  BY <1>3, <1>4 DEF all, read

(* A firewall is reported as in the path of two hosts when it forwards     *)
(* packets from one to the other, and as out of it when it does not, for   *)
(* all routing tables that lead nothing two ways, whichever of them could  *)
(* be read, as long as that loses no way (check_path_relevance).           *)
THEOREM PathsAreForwarding == ReviewSpec => []PathIsForwarding
<1>1. ASSUME ReviewIInv
      PROVE  PathIsForwarding
  <2>1. SUFFICES ASSUME NEW r \in results, DeviceOf[r.package] # NoDevice, r.path # "unknown",
                        ConnectedFirst(Routing[DeviceOf[r.package]]), NothingMissing(r)
                 PROVE  LET data == Routing[DeviceOf[r.package]]
                            from == Egress(data, FirstOf(r.flow.src))
                            to   == Egress(data, FirstOf(r.flow.dst))
                        IN  r.path = "in_path" <=> NoInterface \notin {from, to} /\ from # to
    BY DEF PathIsForwarding
  <2> DEFINE data == Routing[DeviceOf[r.package]]
             read == DataRead(DeviceOf[r.package], r.unread)
  <2>2. r.package \in ReviewPkg /\ r.path = check_path_relevance(r.flow, read)
    BY <1>1, <2>1 DEF ReviewIInv, Analysed
  <2>3. IsRouting(read) /\ ConnectedFirst(read)
    BY <2>1, <2>2, ReviewAssumption, ReadIsRouting
  <2>4. \A a : Egress(read, a) = Egress(data, a)
    BY <2>1 DEF Egress, NothingMissing
  <2> HIDE DEF data, read
  <2>5. \A a : PathInterface(read, a) = Egress(data, a)
    BY <2>3, <2>4, EgressIsFound
  <2>6. r.path = "in_path" <=>
          LET from == PathInterface(read, FirstOf(r.flow.src))
              to   == PathInterface(read, FirstOf(r.flow.dst))
          IN  from # NoInterface /\ to # NoInterface /\ from # to
    BY <2>1, <2>2 DEF check_path_relevance
  <2>7. QED
    BY <2>5, <2>6 DEF data
<1>2. QED
  BY <1>1, ReviewInvariant, PTL

-----------------------------------------------------------------------------
(* A rule that is read right and hits a packet of the flow has been found. *)
Within(flow, k) == k.src \in flow.src /\ k.dst \in flow.dst /\ (flow.svc = {} \/ k.svc \in flow.svc)

LEMMA HitIsMatched ==
    ASSUME NEW p, NEW adoms, NEW pols, NEW flow \in ReviewFlow, NEW i \in DOMAIN pols,
           ReadRight(p, adoms, pols[i]), NEW k, RuleHits(p, pols[i], k), Within(flow, k)
    PROVE  i \in Matching(adoms, pols, flow)
<1>1. pols[i].enabled /\ pols[i].negate = FALSE
  BY DEF RuleHits, ReadRight
<1>2. /\ k.src \in UNION _resolve_addrs(adoms, pols[i].src) /\ k.dst \in UNION _resolve_addrs(adoms, pols[i].dst)
      /\ k.svc \in _resolve_services(adoms, pols[i].svc)
  <2>1. k.src \in AddrPointsIn(p, pols[i].src)
    <3>1. (k.src \in AddrPointsIn(p, pols[i].src)) # pols[i].negate
      BY DEF RuleHits
    <3>2. k.src \notin AddrPointsIn(p, pols[i].src) => (k.src \in AddrPointsIn(p, pols[i].src)) = FALSE
      OBVIOUS
    <3>3. QED
      BY <1>1, <3>1, <3>2, Zenon
  <2>2. k.dst \in AddrPointsIn(p, pols[i].dst) /\ k.svc \in SvcPointsIn(p, pols[i].svc)
    BY DEF RuleHits
  <2>3. QED
    BY <1>1, <2>1, <2>2 DEF ReadRight
<1>3. CoversAddresses(adoms, pols[i], flow)
  BY <1>1, <1>2 DEF CoversAddresses, AddrHit, _addr_matches, Within
<1>4. flow.svc = {} \/ flow.svc = {k.svc}
  BY ReviewAssumption DEF Within
<1>5. _port_covered(flow.svc, _resolve_services(adoms, pols[i].svc))
  BY <1>2, <1>4 DEF _port_covered
<1>6. QED
  BY <1>3, <1>5 DEF Matching

LEMMA AskedPortsAreMeant ==
    ASSUME NEW p, NEW flow \in ReviewFlow, NEW names, AskedPorts(flow) \subseteq names, NEW k \in ReviewPacket,
           Within(flow, k)
    PROVE  k.svc \in SvcPointsIn(p, names)
<1> DEFINE PortsNamed(n) == CASE n = AnySvc -> PortProto [] n \in PortProto -> {n} [] OTHER -> SvcTrue[AdomOf[p]][n]
<1>1. k.svc \in PortProto
  BY DEF ReviewPacket
<1>2. CASE flow.svc = {}
  <2>1. AnySvc \in names
    BY <1>2 DEF AskedPorts
  <2>2. PortsNamed(AnySvc) = PortProto
    BY ReviewAssumption
  <2>3. QED
    BY <1>1, <2>1, <2>2 DEF SvcPointsIn
<1>3. CASE flow.svc # {}
  <2>1. k.svc \in names /\ k.svc # AnySvc
    BY <1>1, <1>3, ReviewAssumption DEF AskedPorts, Within
  <2>2. PortsNamed(k.svc) = {k.svc}
    BY <1>1, <2>1
  <2>3. QED
    BY <2>1, <2>2 DEF SvcPointsIn
<1>4. QED
  BY <1>2, <1>3

LEMMA PastedRuleHits ==
    ASSUME NEW p, NEW flow \in ReviewFlow, NEW k \in ReviewPacket, Within(flow, k)
    PROVE  RuleHits(p, _fortios_cli(flow), k) /\ _fortios_cli(flow).accept
<1> DEFINE pol == _fortios_cli(flow)
<1>1. /\ pol.enabled = TRUE /\ pol.accept = TRUE /\ pol.negate = FALSE
      /\ pol.src = {flow.src} /\ pol.dst = {flow.dst} /\ pol.svc = AskedPorts(flow)
  BY DEF _fortios_cli
<1>2. ASSUME NEW n \in AddrLiteral
      PROVE  AddrPointsIn(p, {n}) = n
  <2> DEFINE Points(m) == CASE m = AnyAddr -> FlowAddr [] m \in AddrLiteral -> m [] OTHER -> AddrTrue[AdomOf[p]][m]
  <2>1. n # AnyAddr
    BY ReviewAssumption
  <2>2. Points(n) = n
    BY <2>1
  <2>3. QED
    BY <2>2 DEF AddrPointsIn
<1>3. AddrPointsIn(p, pol.src) = flow.src /\ AddrPointsIn(p, pol.dst) = flow.dst
  BY <1>1, <1>2, ReviewAssumption
<1>4. k.svc \in SvcPointsIn(p, pol.svc)
  BY <1>1, AskedPortsAreMeant
<1> HIDE DEF pol
<1>5. RuleHits(p, pol, k)
  BY <1>1, <1>3, <1>4 DEF RuleHits, Within
<1>6. QED
  BY <1>1, <1>5 DEF pol

(* The rule that is given the service, or the new one in the place that is *)
(* named for it, lets the flow through, whatever rules surround it, if all *)
(* of them are read right (analyze_flows).                                 *)
THEOREM AdviceWorks == ReviewSpec => AdviceTakesEffect
<1>1. ASSUME ReviewIInv, NEW r \in results, AddService(r), AllReadRight(r), NEW k \in ReviewPacket, Advised(r, k)
      PROVE  LetThrough(r.package, k)'
  <2>1. PICK p, pols : p = r.package /\ pols = package[p]
    OBVIOUS
  <2>2. p \in ReviewPkg /\ pols \in Seq(WrittenRule) /\ r.flow \in ReviewFlow
    BY <1>1, <2>1 DEF ReviewIInv, Analysed
  <2>3. /\ r.verdict = "MODIFIABLE"
        /\ r.at \in DOMAIN pols /\ pols[r.at].enabled /\ pols[r.at].accept /\ Matching(r.adoms, pols, r.flow) = {}
    BY <1>1, <2>1, AdvisedRule DEF AddService
  <2>4. PICK pol \in WrittenRule : pol = pols[r.at]
    BY <2>2, <2>3
  <2>5. PICK new : new = [pol EXCEPT !.svc = @ \cup AskedPorts(r.flow)]
    OBVIOUS
  <2>6. package'[p] = [pols EXCEPT ![r.at] = new]
    BY <1>1, <2>1, <2>2, <2>4, <2>5 DEF AddService, ReviewIInv
  <2>7. \A i \in DOMAIN pols : ReadRight(p, r.adoms, pols[i])
    BY <1>1, <2>1 DEF AllReadRight
  <2>8. /\ Within(r.flow, k) /\ k.src \in AddrPointsIn(p, pol.src) /\ k.dst \in AddrPointsIn(p, pol.dst)
    BY <1>1, <2>1, <2>3, <2>4 DEF Advised, Within
  <2>9. /\ new.enabled = pol.enabled /\ new.accept = pol.accept /\ new.negate = pol.negate
        /\ new.src = pol.src /\ new.dst = pol.dst /\ new.svc = pol.svc \cup AskedPorts(r.flow)
    BY <2>5 DEF WrittenRule
  <2>10. pol.enabled /\ pol.accept /\ pol.negate = FALSE
    BY <2>3, <2>4, <2>7 DEF ReadRight
  <2>11. k.svc \in SvcPointsIn(p, new.svc)
    BY <2>2, <2>8, <2>9, AskedPortsAreMeant
  <2>12. RuleHits(p, new, k) /\ new.accept
    BY <2>8, <2>9, <2>10, <2>11 DEF RuleHits
  <2>13. DOMAIN package'[p] = DOMAIN pols /\ package'[p][r.at] = new
    BY <2>3, <2>6
  <2>14. ASSUME NEW j \in 1..(r.at - 1)
         PROVE  ~RuleHits(p, package'[p][j], k)
    <3>1. j \in DOMAIN pols /\ j # r.at
      BY <2>2, <2>3
    <3>2. package'[p][j] = pols[j]
      BY <2>6, <3>1
    <3>3. ~RuleHits(p, pols[j], k)
      BY <2>2, <2>3, <2>7, <2>8, <3>1, HitIsMatched
    <3>4. QED
      BY <3>2, <3>3
  <2>15. QED
    BY <2>1, <2>3, <2>12, <2>13, <2>14 DEF LetThrough
<1>2. ASSUME ReviewIInv, NEW r \in results, PasteRule(r), r.verdict # "EXPLICITLY_DENIED", AllReadRight(r),
             NEW k \in ReviewPacket, Advised(r, k)
      PROVE  LetThrough(r.package, k)'
  <2>1. PICK p, pols : p = r.package /\ pols = package[p]
    OBVIOUS
  <2>2. p \in ReviewPkg /\ pols \in Seq(WrittenRule) /\ r.flow \in ReviewFlow
    BY <1>2, <2>1 DEF ReviewIInv, Analysed
  <2>3. r.verdict = "NEW_RULE_NEEDED" /\ ~r.lost
    BY <1>2 DEF PasteRule, AllReadRight
  <2>4. PICK at : at = r.at + 1
    OBVIOUS
  <2>5. r.at \in Nat /\ at \in 1..Len(pols) + 1 /\ Matching(r.adoms, pols, r.flow) = {}
    BY <1>2, <2>1, <2>3, <2>4, AdvisedPlace
  <2>6. PICK new : new = _fortios_cli(r.flow)
    OBVIOUS
  <2>7. package'[p] = Inserted(pols, at, new)
    <3>1. at - 1 = r.at
      BY <2>4, <2>5
    <3>2. QED
      BY <1>2, <2>1, <2>2, <2>4, <2>6, <3>1 DEF PasteRule, Inserted, ReviewIInv
  <2>8. new \in WrittenRule
    BY <2>2, <2>6, PastedIsWritten
  <2>9. /\ Inserted(pols, at, new) \in Seq(WrittenRule) /\ Len(Inserted(pols, at, new)) = Len(pols) + 1
        /\ \A j \in 1..Len(pols) + 1 : Inserted(pols, at, new)[j] = InsertedAt(pols, at, new, j)
    BY <2>2, <2>5, <2>8, InsertedOne, Zenon
  <2>10. Within(r.flow, k)
    BY <1>2 DEF Advised, Within
  <2>11. RuleHits(p, new, k) /\ new.accept
    BY <2>2, <2>6, <2>10, PastedRuleHits
  <2>12. \A i \in DOMAIN pols : ReadRight(p, r.adoms, pols[i])
    BY <1>2, <2>1 DEF AllReadRight
  <2>13. Len(pols) \in Nat /\ DOMAIN pols = 1..Len(pols)
    BY <2>2
  <2>14. at \in DOMAIN package'[p] /\ package'[p][at] = new
    <3>1. Inserted(pols, at, new)[at] = new
      BY <2>5, <2>9 DEF InsertedAt
    <3>2. DOMAIN Inserted(pols, at, new) = 1..Len(pols) + 1
      BY <2>9, LenProperties
    <3>3. QED
      BY <2>5, <2>7, <3>1, <3>2
  <2>15. ASSUME NEW j \in 1..(at - 1)
         PROVE  ~RuleHits(p, package'[p][j], k)
    <3>1. j \in 1..Len(pols) /\ j < at /\ j \in 1..Len(pols) + 1
      BY <2>5, <2>13
    <3>2. package'[p][j] = pols[j]
      BY <2>7, <2>9, <3>1 DEF InsertedAt
    <3>3. ~RuleHits(p, pols[j], k)
      BY <2>2, <2>5, <2>10, <2>12, <2>13, <3>1, HitIsMatched
    <3>4. QED
      BY <3>2, <3>3
  <2>16. QED
    BY <2>1, <2>11, <2>14, <2>15 DEF LetThrough
<1>3. ASSUME ReviewIInv, [ReviewNext]_reviewVars
      PROVE  [\A r \in results :
                (AddService(r) \/ PasteRule(r)) /\ r.verdict # "EXPLICITLY_DENIED" /\ AllReadRight(r) =>
                  \A k \in ReviewPacket : Advised(r, k) => LetThrough(r.package, k)']_reviewVars
  BY <1>1, <1>2, <1>3
<1>4. QED
  BY <1>3, ReviewInvariant, PTL DEF ReviewSpec, AdviceTakesEffect
-----------------------------------------------------------------------------
(* The rule lookup.  Blocks of addresses: what is inside a union of blocks *)
(* is inside one of the largest ones.                                      *)
LEMMA BlocksAreFinite ==
    /\ IsFiniteSet(Address)
    /\ \A b \in Block : b # {} /\ b \subseteq Address /\ IsFiniteSet(b)
<1>1. IsFiniteSet(Address)
  <2>1. 2^Bits - 1 \in Int
    BY LookupAssumption
  <2>2. QED
    BY <2>1, FS_Interval DEF Address
<1>2. \A b \in Block : b # {} /\ b \subseteq Address
  BY DEF Block
<1>3. QED
  BY <1>1, <1>2, FS_Subset

LEMMA LargestAbove ==
    ASSUME NEW nets \in SUBSET Block, NEW x \in Block, x \subseteq UNION nets
    PROVE  \E y \in collapse_addresses(nets) : x \subseteq y
<1> DEFINE InUnion == {b \in Block : b \subseteq UNION nets}
           Room(b) == Cardinality(Address) - Cardinality(b)
           Rooms == {Room(b) : b \in {c \in InUnion : x \subseteq c}}
<1>1. \A b \in Block : Cardinality(b) \in Nat /\ Room(b) \in Nat
  BY BlocksAreFinite, FS_CardinalityType, FS_Subset
<1>2. Rooms \in SUBSET Nat /\ Rooms # {}
  BY <1>1
<1> HIDE DEF Rooms
<1>3. PICK n \in Rooms : \A m \in Rooms : n <= m
  BY <1>2, Minimum
<1>4. PICK y \in InUnion : x \subseteq y /\ n = Room(y)
  BY <1>3 DEF Rooms
<1>5. ASSUME NEW c \in InUnion, y \subseteq c PROVE y = c
  <2>1. Room(c) \in Rooms
    BY <1>4, <1>5 DEF Rooms
  <2>2. Cardinality(c) <= Cardinality(y)
    BY <1>1, <1>3, <1>4, <2>1, BlocksAreFinite, FS_CardinalityType
  <2>3. QED
    BY <1>5, <2>2, <1>1, BlocksAreFinite, FS_Subset
<1>6. QED
  BY <1>4, <1>5 DEF collapse_addresses

LEMMA CollapseKeeps ==
    ASSUME NEW nets \in SUBSET Block
    PROVE  /\ UNION collapse_addresses(nets) = UNION nets
           /\ collapse_addresses(nets) \subseteq Block
           /\ \A y \in collapse_addresses(nets) : y \subseteq UNION nets
<1>1. /\ collapse_addresses(nets) \subseteq Block
      /\ \A y \in collapse_addresses(nets) : y \subseteq UNION nets
  BY DEF collapse_addresses
<1>2. \A b \in nets : \E y \in collapse_addresses(nets) : b \subseteq y
  BY LargestAbove
<1>3. QED
  BY <1>1, <1>2

LEMMA LabelOf ==
    ASSUME NEW e \in BOOLEAN, NEW b \in BOOLEAN, NEW n \in BOOLEAN, NEW o \in BOOLEAN
    PROVE  Label(e, b, n, o) = IF e THEN "exact" ELSE IF b THEN "broader"
                               ELSE IF n THEN "narrower" ELSE IF o THEN "overlap" ELSE NoLabel
BY DEF Label

(* The comparisons of blocks are comparisons of the sets of addresses.     *)
LEMMA BlocksAreTheirUnion ==
    ASSUME NEW s \in SUBSET Block, NEW r \in SUBSET Block
    PROVE  LET cs == collapse_addresses(s)
               cr == collapse_addresses(r)
           IN  /\ (cs = cr) <=> (UNION s = UNION r)
               /\ (\A x \in cs : \E y \in cr : x \subseteq y) <=> (UNION s \subseteq UNION r)
               /\ (\E x \in cs, y \in cr : x \cap y # {}) <=> ((UNION s) \cap (UNION r) # {})
<1> DEFINE cs == collapse_addresses(s)
           cr == collapse_addresses(r)
<1>1. /\ UNION cs = UNION s /\ UNION cr = UNION r
      /\ cs \subseteq Block /\ \A x \in cs : x \subseteq UNION s
  BY CollapseKeeps
<1>2. (UNION s = UNION r) => cs = cr
  BY DEF collapse_addresses
<1>3. (UNION s \subseteq UNION r) => \A x \in cs : \E y \in cr : x \subseteq y
  BY <1>1, LargestAbove
<1> HIDE DEF cs, cr
<1>4. (cs = cr) <=> (UNION s = UNION r)
  BY <1>1, <1>2
<1>5. (\A x \in cs : \E y \in cr : x \subseteq y) => (UNION s \subseteq UNION r)
  <2> SUFFICES ASSUME \A x \in cs : \E y \in cr : x \subseteq y, NEW a \in UNION s PROVE a \in UNION r
    OBVIOUS
  <2>1. PICK x \in cs : a \in x
    BY <1>1
  <2>2. QED
    BY <1>1, <2>1
<1>6. (\E x \in cs, y \in cr : x \cap y # {}) <=> ((UNION s) \cap (UNION r) # {})
  <2>1. ASSUME (UNION s) \cap (UNION r) # {} PROVE \E x \in cs, y \in cr : x \cap y # {}
    <3>1. PICK a : a \in UNION s /\ a \in UNION r
      BY <2>1
    <3>2. a \in UNION cs /\ a \in UNION cr
      BY <3>1, <1>1, Zenon
    <3>3. (\E x \in cs : a \in x) /\ (\E y \in cr : a \in y)
      BY <3>2
    <3>4. QED
      BY <3>3
  <2>2. ASSUME NEW x \in cs, NEW y \in cr, x \cap y # {} PROVE (UNION s) \cap (UNION r) # {}
    <3>1. PICK a : a \in x /\ a \in y
      BY <2>2
    <3>2. a \in UNION cs /\ a \in UNION cr
      BY <3>1
    <3>3. a \in UNION s /\ a \in UNION r
      BY <3>2, <1>1, Zenon
    <3>4. QED
      BY <3>3
  <2>3. QED
    BY <2>1, <2>2
<1>7. QED
  BY <1>3, <1>4, <1>5, <1>6 DEF cs, cr

LEMMA NetworkLabel ==
    ASSUME NEW s \in SUBSET Block, NEW r \in SUBSET Block
    PROVE  compare_networks(s, r) =
             IF r = {} THEN NoLabel
             ELSE IF UNION s = UNION r THEN "exact"
             ELSE IF UNION s \subseteq UNION r THEN "broader"
             ELSE IF UNION r \subseteq UNION s THEN "narrower"
             ELSE IF (UNION s) \cap (UNION r) # {} THEN "overlap" ELSE NoLabel
<1> DEFINE cs == collapse_addresses(s)
           cr == collapse_addresses(r)
           e == cs = cr
           b == \A x \in cs : \E y \in cr : x \subseteq y
           n == \A y \in cr : \E x \in cs : y \subseteq x
           o == \E x \in cs, y \in cr : x \cap y # {}
<1>1. compare_networks(s, r) = IF r = {} THEN NoLabel ELSE Label(e, b, n, o)
  BY DEF compare_networks
<1>2. /\ e <=> (UNION s = UNION r)
      /\ b <=> (UNION s \subseteq UNION r)
      /\ n <=> (UNION r \subseteq UNION s)
      /\ o <=> ((UNION s) \cap (UNION r) # {})
  BY BlocksAreTheirUnion
<1>3. e \in BOOLEAN /\ b \in BOOLEAN /\ n \in BOOLEAN /\ o \in BOOLEAN
  OBVIOUS
<1> HIDE DEF e, b, n, o
<1>4. QED
  BY <1>1, <1>2, <1>3, LabelOf

(* Ranges: containing and overlapping, said of the ports they contain.     *)
RangePorts(r) == {<<r.protocol, p>> : p \in r.start..r.end}

LEMMA PortsUnion ==
    ASSUME NEW rs \in SUBSET Searchable
    PROVE  PortsOf(rs) = UNION {RangePorts(r) : r \in rs}
BY DEF PortsOf, RangePorts, Searchable

LEMMA RangesAsPorts ==
    ASSUME NEW p \in Searchable, NEW q \in Searchable
    PROVE  /\ contains(p, q) => RangePorts(q) \subseteq RangePorts(p)
           /\ contains(p, q) => overlaps(p, q)
           /\ overlaps(p, q) <=> overlaps(q, p)
           /\ overlaps(p, p)
           /\ overlaps(p, q) <=> RangePorts(p) \cap RangePorts(q) # {}
<1>1. /\ p.protocol \in {"tcp", "udp"} /\ p.start \in Int /\ p.end \in Int /\ p.start <= p.end
      /\ q.protocol \in {"tcp", "udp"} /\ q.start \in Int /\ q.end \in Int /\ q.start <= q.end
  BY LookupAssumption DEF Searchable, HasPorts, PortRange
<1>2. contains(p, q) <=> p.protocol = q.protocol /\ p.start <= q.start /\ q.end <= p.end
  BY <1>1 DEF contains, _proto_compatible
<1>3. overlaps(p, q) <=> p.protocol = q.protocol /\ p.start <= q.end /\ q.start <= p.end
  BY <1>1 DEF overlaps, _proto_compatible
<1>4. /\ overlaps(q, p) <=> p.protocol = q.protocol /\ p.start <= q.end /\ q.start <= p.end
      /\ overlaps(p, p)
  BY <1>1 DEF overlaps, _proto_compatible
<1>5. ASSUME contains(p, q) PROVE RangePorts(q) \subseteq RangePorts(p)
  BY <1>1, <1>2, <1>5 DEF RangePorts
<1>6. ASSUME overlaps(p, q) PROVE RangePorts(p) \cap RangePorts(q) # {}
  <2> DEFINE i == IF p.start <= q.start THEN q.start ELSE p.start
  <2>1. i \in p.start..p.end /\ i \in q.start..q.end
    BY <1>1, <1>3, <1>6
  <2>2. <<p.protocol, i>> \in RangePorts(p) /\ <<p.protocol, i>> \in RangePorts(q)
    BY <2>1, <1>3, <1>6 DEF RangePorts
  <2>3. QED
    BY <2>2
<1>7. ASSUME RangePorts(p) \cap RangePorts(q) # {} PROVE overlaps(p, q)
  <2>1. PICK x : x \in RangePorts(p) /\ x \in RangePorts(q)
    BY <1>7
  <2>2. PICK i \in p.start..p.end : x = <<p.protocol, i>>
    BY <2>1 DEF RangePorts
  <2>3. PICK j \in q.start..q.end : x = <<q.protocol, j>>
    BY <2>1 DEF RangePorts
  <2>4. i = j /\ p.protocol = q.protocol
    BY <2>2, <2>3
  <2>5. QED
    BY <2>2, <2>3, <2>4, <1>1, <1>3
<1>8. QED
  BY <1>1, <1>2, <1>3, <1>4, <1>5, <1>6, <1>7

LEMMA RangeLabel ==
    ASSUME NEW s \in SUBSET Searchable, s # {}, NEW r \in SUBSET Searchable
    PROVE  LET label == compare_ranges(s, r)
           IN  /\ label \in {"exact", "broader", "narrower", "overlap", NoLabel}
               /\ (label = NoLabel) <=> (PortsOf(s) \cap PortsOf(r) = {})
               /\ label \in {"exact", "broader"} => PortsOf(s) \subseteq PortsOf(r)
               /\ label = "narrower" => PortsOf(r) \subseteq PortsOf(s)
<1> DEFINE e == s = r
           b == \A x \in s : \E y \in r : contains(y, x)
           n == \A y \in r : \E x \in s : contains(x, y)
           o == \E x \in s, y \in r : overlaps(x, y)
           label == compare_ranges(s, r)
<1>1. label = IF r = {} THEN NoLabel ELSE Label(e, b, n, o)
  BY DEF compare_ranges
<1>2. e \in BOOLEAN /\ b \in BOOLEAN /\ n \in BOOLEAN /\ o \in BOOLEAN
  OBVIOUS
<1>3. o <=> (PortsOf(s) \cap PortsOf(r) # {})
  <2>1. ASSUME NEW x \in s, NEW y \in r, overlaps(x, y) PROVE PortsOf(s) \cap PortsOf(r) # {}
    <3>1. RangePorts(x) \cap RangePorts(y) # {}
      BY <2>1, RangesAsPorts
    <3>2. PICK a : a \in RangePorts(x) /\ a \in RangePorts(y)
      BY <3>1
    <3>3. QED
      BY <3>2, PortsUnion
  <2>2. ASSUME PortsOf(s) \cap PortsOf(r) # {} PROVE o
    <3>1. PICK a : a \in PortsOf(s) /\ a \in PortsOf(r)
      BY <2>2
    <3>2. PICK x \in s : a \in RangePorts(x)
      BY <3>1, PortsUnion
    <3>3. PICK y \in r : a \in RangePorts(y)
      BY <3>1, PortsUnion
    <3>4. overlaps(x, y)
      BY <3>2, <3>3, RangesAsPorts
    <3>5. QED
      BY <3>4
  <2>3. QED
    BY <2>1, <2>2
<1>4. /\ e => b
      /\ b => PortsOf(s) \subseteq PortsOf(r)
      /\ n => PortsOf(r) \subseteq PortsOf(s)
  <2>1. \A x \in Searchable : contains(x, x)
    BY LookupAssumption DEF Searchable, PortRange, HasPorts, contains, _proto_compatible
  <2>2. ASSUME b PROVE PortsOf(s) \subseteq PortsOf(r)
    <3> SUFFICES ASSUME NEW a \in PortsOf(s) PROVE a \in PortsOf(r)
      OBVIOUS
    <3>1. PICK x \in s : a \in RangePorts(x)
      BY PortsUnion
    <3>2. PICK y \in r : contains(y, x)
      BY <2>2
    <3>3. a \in RangePorts(y)
      BY <3>1, <3>2, RangesAsPorts
    <3>4. QED
      BY <3>3, PortsUnion
  <2>3. ASSUME n PROVE PortsOf(r) \subseteq PortsOf(s)
    <3> SUFFICES ASSUME NEW a \in PortsOf(r) PROVE a \in PortsOf(s)
      OBVIOUS
    <3>1. PICK x \in r : a \in RangePorts(x)
      BY PortsUnion
    <3>2. PICK y \in s : contains(y, x)
      BY <2>3
    <3>3. a \in RangePorts(y)
      BY <3>1, <3>2, RangesAsPorts
    <3>4. QED
      BY <3>3, PortsUnion
  <2>4. QED
    BY <2>1, <2>2, <2>3
<1>5. r # {} /\ (b \/ n) => o
  <2>1. ASSUME b PROVE o
    <3>1. PICK x \in s, y \in r : contains(y, x)
      BY <2>1
    <3>2. overlaps(x, y)
      BY <3>1, RangesAsPorts
    <3>3. QED
      BY <3>2
  <2>2. ASSUME n, r # {} PROVE o
    <3>1. PICK y \in r, x \in s : contains(x, y)
      BY <2>2
    <3>2. overlaps(x, y)
      BY <3>1, RangesAsPorts
    <3>3. QED
      BY <3>2
  <2>3. QED
    BY <2>1, <2>2
<1>6. r = {} => PortsOf(r) = {}
  BY PortsUnion
<1> HIDE DEF e, b, n, o
<1>7. NoLabel \notin {"exact", "broader", "narrower", "overlap"}
  BY LookupAssumption DEF _RANK
<1>8. r # {} => label = IF e THEN "exact" ELSE IF b THEN "broader" ELSE IF n THEN "narrower"
                        ELSE IF o THEN "overlap" ELSE NoLabel
  BY <1>1, <1>2, LabelOf
<1>9. QED
  <2>1. CASE r = {}
    BY <2>1, <1>1, <1>6, <1>7
  <2>2. CASE r # {}
    BY <2>2, <1>3, <1>4, <1>5, <1>7, <1>8
  <2>3. QED
    BY <2>1, <2>2

(* The best of several labels is one of them, and none only of none.       *)
LEMMA BestIsOne ==
    ASSUME NEW labels \in SUBSET {"exact", "broader", "narrower", "overlap", NoLabel}
    PROVE  /\ _best(labels) # NoLabel => _best(labels) \in labels
           /\ _best(labels) = NoLabel <=> labels \subseteq {NoLabel}
<1> DEFINE found == labels \ {NoLabel}
<1>1. CASE found = {}
  BY <1>1 DEF _best
<1>2. CASE found # {}
  <2> DEFINE Ranks == {_RANK[l] : l \in found}
  <2>1. \A l \in found : _RANK[l] \in Nat
    BY DEF _RANK
  <2>2. Ranks \in SUBSET Nat /\ Ranks # {}
    BY <1>2, <2>1
  <2>3. PICK k \in Ranks : \A m \in Ranks : k <= m
    BY <2>2, Minimum
  <2>4. PICK l \in found : k = _RANK[l]
    BY <2>3
  <2>5. \A m \in found : _RANK[l] <= _RANK[m]
    BY <2>3, <2>4
  <2>6. _best(labels) \in found
    BY <1>2, <2>4, <2>5 DEF _best
  <2>7. QED
    BY <2>6
<1>3. QED
  BY <1>1, <1>2

(* The inductive invariant: what is searched and what values resolve to    *)
(* are blocks and ranges of the address and port space.                    *)
LookupIInv ==
    /\ \A wanted \in {src, dst} \ {NotSearched} : wanted \in SUBSET Block
    /\ port # NotSearched => \A alt \in port : alt \in SUBSET Searchable /\ alt # {}
    /\ rule_nets \in SUBSET Block
    /\ rule_ranges \in SUBSET PortRange

LEMMA LookupInitial == LookupInit => LookupIInv
BY DEF LookupInit, LookupIInv

LEMMA LookupStep == LookupIInv /\ [LookupNext]_lookupVars => LookupIInv'
<1> SUFFICES ASSUME LookupIInv, [LookupNext]_lookupVars PROVE LookupIInv'
  OBVIOUS
<1>1. CASE UNCHANGED lookupVars
  BY <1>1 DEF LookupIInv, lookupVars
<1>2. ASSUME NEW b \in Block, parse_ip_query(b) PROVE LookupIInv'
  BY <1>2 DEF LookupIInv, parse_ip_query
<1>3. ASSUME NEW text \in PortText, parse_port_query(text) PROVE LookupIInv'
  <2>1. CASE text \in Searchable
    <3>1. "protocol" \in DOMAIN text
      BY <2>1 DEF Searchable, PortRange
    <3>2. QED
      BY <2>1, <3>1, <1>3 DEF LookupIInv, parse_port_query
  <2>2. ASSUME NEW r \in Searchable, text = [start |-> r.start, end |-> r.end] PROVE LookupIInv'
    <3>1. "protocol" \notin DOMAIN text
      BY <2>2
    <3>2. \A p \in {"tcp", "udp"} : [protocol |-> p, start |-> text.start, end |-> text.end] \in Searchable
      BY <2>2 DEF Searchable, PortRange, HasPorts
    <3>3. QED
      BY <3>1, <3>2, <1>3 DEF LookupIInv, parse_port_query
  <2>3. QED
    BY <2>1, <2>2 DEF PortText
<1>4. CASE Resolve
  BY <1>4 DEF LookupIInv, Resolve
<1>5. QED
  BY <1>1, <1>2, <1>3, <1>4 DEF LookupNext

LEMMA NetworkLabels == LookupIInv => NetworkLabelsMeanSets
<1> SUFFICES ASSUME LookupIInv, NEW wanted \in {src, dst} \ {NotSearched}
             PROVE  LET s == UNION wanted
                        r == UNION rule_nets
                    IN  compare_networks(wanted, rule_nets) =
                          CASE rule_nets = {}                 -> NoLabel
                            [] rule_nets # {} /\ s = r        -> "exact"
                            [] rule_nets # {} /\ s \subseteq r /\ s # r -> "broader"
                            [] rule_nets # {} /\ r \subseteq s /\ s # r -> "narrower"
                            [] ~(s \subseteq r) /\ ~(r \subseteq s) /\ s \cap r # {} -> "overlap"
                            [] OTHER -> NoLabel
  BY DEF NetworkLabelsMeanSets
<1> DEFINE s == UNION wanted
           r == UNION rule_nets
<1>1. compare_networks(wanted, rule_nets) =
        IF rule_nets = {} THEN NoLabel
        ELSE IF s = r THEN "exact"
        ELSE IF s \subseteq r THEN "broader"
        ELSE IF r \subseteq s THEN "narrower"
        ELSE IF s \cap r # {} THEN "overlap" ELSE NoLabel
  BY NetworkLabel DEF LookupIInv
<1>2. rule_nets = {} => r = {}
  OBVIOUS
<1>3. r = {} => r \subseteq s
  OBVIOUS
<1> HIDE DEF s, r
<1>4. s = r => s \subseteq r /\ r \subseteq s
  OBVIOUS
<1>5. compare_networks(wanted, rule_nets) =
        CASE rule_nets = {}                 -> NoLabel
          [] rule_nets # {} /\ s = r        -> "exact"
          [] rule_nets # {} /\ s \subseteq r /\ s # r -> "broader"
          [] rule_nets # {} /\ r \subseteq s /\ s # r -> "narrower"
          [] ~(s \subseteq r) /\ ~(r \subseteq s) /\ s \cap r # {} -> "overlap"
          [] OTHER -> NoLabel
  <2>1. CASE rule_nets = {}
    BY <2>1, <1>1, <1>2, <1>3
  <2>2. CASE rule_nets # {} /\ s \subseteq r /\ r \subseteq s
    <3>1. s = r
      BY <2>2
    <3>2. QED
      BY <2>2, <3>1, <1>1, <1>4
  <2>3. CASE rule_nets # {} /\ s \subseteq r /\ ~(r \subseteq s)
    BY <2>3, <1>1, <1>4
  <2>4. CASE rule_nets # {} /\ ~(s \subseteq r) /\ r \subseteq s
    BY <2>4, <1>1, <1>4
  <2>5. CASE rule_nets # {} /\ ~(s \subseteq r) /\ ~(r \subseteq s)
    BY <2>5, <1>1, <1>4
  <2>6. QED
    BY <2>1, <2>2, <2>3, <2>4, <2>5
<1>6. QED
  BY <1>5 DEF s, r

LEMMA ServiceLabels == LookupIInv => PortLabelsSound
<1> SUFFICES ASSUME LookupIInv, port # NotSearched
             PROVE  LET label == _label_service(rule_ranges, port).label
                    IN  /\ (label = NoLabel) <=> \A alt \in port : PortsOf(alt) \cap PortsOf(rule_ranges) = {}
                        /\ label \in {"exact", "broader"} => \E alt \in port : PortsOf(alt) \subseteq PortsOf(rule_ranges)
                        /\ label = "narrower" => \E alt \in port : PortsOf(rule_ranges) \subseteq PortsOf(alt)
  BY DEF PortLabelsSound
<1> DEFINE rs == {r \in rule_ranges : HasPorts(r)}
           Of(alt) == compare_ranges(alt, rs)
           labels == {Of(alt) : alt \in port}
           label == _label_service(rule_ranges, port).label
<1>1. label = _best(labels)
  BY DEF _label_service
<1>2. rs \in SUBSET Searchable
  BY DEF LookupIInv, Searchable
<1>3. PortsOf(rs) = PortsOf(rule_ranges)
  <2>1. {x \in rs : HasPorts(x)} = {x \in rule_ranges : HasPorts(x)}
    OBVIOUS
  <2>2. QED
    BY <2>1 DEF PortsOf
<1> HIDE DEF rs
<1>4. \A alt \in port :
        /\ Of(alt) \in {"exact", "broader", "narrower", "overlap", NoLabel}
        /\ (Of(alt) = NoLabel) <=> (PortsOf(alt) \cap PortsOf(rule_ranges) = {})
        /\ Of(alt) \in {"exact", "broader"} => PortsOf(alt) \subseteq PortsOf(rule_ranges)
        /\ Of(alt) = "narrower" => PortsOf(rule_ranges) \subseteq PortsOf(alt)
  BY <1>2, <1>3, RangeLabel DEF LookupIInv
<1> HIDE DEF Of
<1>a. labels \in SUBSET {"exact", "broader", "narrower", "overlap", NoLabel}
  BY <1>4
<1>5. /\ label # NoLabel => \E alt \in port : label = Of(alt)
      /\ label = NoLabel <=> \A alt \in port : Of(alt) = NoLabel
  <2> HIDE DEF labels
  <2>1. /\ label # NoLabel => label \in labels
        /\ label = NoLabel <=> labels \subseteq {NoLabel}
    BY <1>1, <1>a, BestIsOne
  <2>2. QED
    BY <2>1 DEF labels
<1>6. NoLabel \notin {"exact", "broader", "narrower"}
  BY LookupAssumption DEF _RANK
<1> HIDE DEF label
<1>7. (label = NoLabel) <=> \A alt \in port : PortsOf(alt) \cap PortsOf(rule_ranges) = {}
  BY <1>4, <1>5
<1>8. label \in {"exact", "broader"} => \E alt \in port : PortsOf(alt) \subseteq PortsOf(rule_ranges)
  BY <1>4, <1>5, <1>6
<1>9. label = "narrower" => \E alt \in port : PortsOf(rule_ranges) \subseteq PortsOf(alt)
  BY <1>4, <1>5, <1>6
<1>10. QED
  BY <1>7, <1>8, <1>9 DEF label

(* The rows of a search.                                                   *)
Matched(i) == match_rule(LookupRule[i])

MainRules == {i \in DOMAIN LookupRule : MainRow(Matched(i))}

RowBefore(i, j) ==
    \/ _score(Matched(i)) > _score(Matched(j))
    \/ _score(Matched(i)) = _score(Matched(j)) /\ i < j

Earlier(i) == {j \in MainRules : RowBefore(j, i)}

RowOf(i) == <<1 + Cardinality(Earlier(i)), LookupRule[i]>>

LEMMA RowsAre ==
    /\ search(LookupRule).rows = {RowOf(i) : i \in MainRules}
    /\ search(LookupRule).port_only = {LookupRule[i] : i \in {j \in DOMAIN LookupRule : PortOnly(Matched(j))}}
    /\ search(LookupRule).skipped =
         {LookupRule[i] : i \in {j \in DOMAIN LookupRule : \E f \in {"src", "dst", "port"} : Matched(j)[f].skipped}}
BY DEF search, RowOf, Earlier, RowBefore, MainRules, Matched

LEMMA ScoresAreNumbers == \A m : _score(m) \in Nat
<1> SUFFICES ASSUME NEW m PROVE _score(m) \in Nat
  OBVIOUS
<1>1. IsFiniteSet({"src", "dst", "port"})
  <2>1. IsFiniteSet({} \cup {"src"})
    BY FS_EmptySet, FS_AddElement
  <2>2. IsFiniteSet(({} \cup {"src"}) \cup {"dst"})
    BY <2>1, FS_AddElement
  <2>3. IsFiniteSet((({} \cup {"src"}) \cup {"dst"}) \cup {"port"})
    BY <2>2, FS_AddElement
  <2>4. {"src", "dst", "port"} = (({} \cup {"src"}) \cup {"dst"}) \cup {"port"}
    OBVIOUS
  <2>5. QED
    BY <2>3, <2>4
<1>2. IsFiniteSet({f \in {"src", "dst", "port"} : Meets(m, f)})
  BY <1>1, FS_Subset
<1>3. QED
  BY <1>2, FS_CardinalityType DEF _score

LEMMA RulesAreFinite ==
    /\ DOMAIN LookupRule \subseteq Nat
    /\ IsFiniteSet(MainRules)
<1>1. DOMAIN LookupRule = 1..Len(LookupRule) /\ Len(LookupRule) \in Nat
  BY LookupAssumption
<1>2. IsFiniteSet(1..Len(LookupRule))
  BY <1>1, FS_Interval
<1>3. MainRules \subseteq 1..Len(LookupRule)
  BY <1>1 DEF MainRules
<1>4. IsFiniteSet(MainRules)
  BY <1>2, <1>3, FS_Subset
<1>5. QED
  BY <1>1, <1>4

LEMMA PlacesFollow ==
    ASSUME NEW i \in MainRules, NEW j \in MainRules, RowBefore(i, j)
    PROVE  /\ Cardinality(Earlier(i)) \in Nat /\ Cardinality(Earlier(j)) \in Nat
           /\ Cardinality(Earlier(i)) < Cardinality(Earlier(j))
<1>1. MainRules \subseteq Nat
  BY RulesAreFinite DEF MainRules
<1>2. ASSUME NEW k \in MainRules, RowBefore(k, i) PROVE RowBefore(k, j)
  <2>1. /\ _score(Matched(i)) \in Nat /\ _score(Matched(j)) \in Nat /\ _score(Matched(k)) \in Nat
        /\ i \in Nat /\ j \in Nat /\ k \in Nat
    BY <1>1, ScoresAreNumbers
  <2>2. QED
    BY <2>1, <1>2 DEF RowBefore
<1>3. i \in Earlier(j) /\ i \notin Earlier(i)
  <2>1. ~RowBefore(i, i)
    <3>1. _score(Matched(i)) \in Nat /\ i \in Nat
      BY <1>1, ScoresAreNumbers
    <3>2. QED
      BY <3>1 DEF RowBefore
  <2>2. QED
    BY <2>1 DEF Earlier
<1>a. Earlier(i) \subseteq Earlier(j)
  BY <1>2 DEF Earlier
<1>4. IsFiniteSet(Earlier(j)) /\ IsFiniteSet(Earlier(i))
  BY RulesAreFinite, FS_Subset DEF Earlier
<1>5. Cardinality(Earlier(i)) \in Nat /\ Cardinality(Earlier(j)) \in Nat
  BY <1>4, FS_CardinalityType
<1>6. QED
  BY <1>a, <1>3, <1>4, <1>5, FS_Subset

LEMMA PlacesDiffer ==
    ASSUME NEW i \in MainRules, NEW j \in MainRules, i # j
    PROVE  RowOf(i)[1] # RowOf(j)[1]
<1>1. MainRules \subseteq Nat
  BY RulesAreFinite DEF MainRules
<1>2. RowBefore(i, j) \/ RowBefore(j, i)
  BY <1>1, ScoresAreNumbers DEF RowBefore
<1>3. QED
  BY <1>2, PlacesFollow DEF RowOf

(* An address that a rule names and a search asks for is a label.          *)
LEMMA AddressesAreMet ==
    ASSUME LookupIInv, NEW names \in SUBSET LookupName, NEW wanted \in {src, dst} \ {NotSearched},
           AddressesOf(names) \cap UNION wanted # {}
    PROVE  _match_addr_field(names, FALSE, wanted).label # NoLabel
<1> DEFINE Of(n) == compare_networks(wanted, NetworksOf[n])
           labels == {Of(n) : n \in names \ LookupAll}
<1>1. _match_addr_field(names, FALSE, wanted).label = _best(labels)
  BY DEF _match_addr_field
<1>2. \A n \in names : NetworksOf[n] \in SUBSET Block
  BY LookupAssumption
<1>3. wanted \in SUBSET Block
  BY DEF LookupIInv
<1>c. \A r \in SUBSET Block :
        compare_networks(wanted, r) =
          IF r = {} THEN NoLabel
          ELSE IF UNION wanted = UNION r THEN "exact"
          ELSE IF UNION wanted \subseteq UNION r THEN "broader"
          ELSE IF UNION r \subseteq UNION wanted THEN "narrower"
          ELSE IF (UNION wanted) \cap (UNION r) # {} THEN "overlap" ELSE NoLabel
  BY <1>3, NetworkLabel
<1>4. \A n \in names : Of(n) \in {"exact", "broader", "narrower", "overlap", NoLabel}
  <2> SUFFICES ASSUME NEW n \in names PROVE Of(n) \in {"exact", "broader", "narrower", "overlap", NoLabel}
    OBVIOUS
  <2>1. NetworksOf[n] \in SUBSET Block
    BY <1>2
  <2>2. QED
    BY <2>1, <1>c
<1>5. PICK a : a \in AddressesOf(names) /\ a \in UNION wanted
  OBVIOUS
<1>6. PICK n \in names \ LookupAll : a \in UNION NetworksOf[n]
  BY <1>5 DEF AddressesOf
<1>7. NoLabel \notin {"exact", "broader", "narrower", "overlap"}
  BY LookupAssumption DEF _RANK
<1>8. Of(n) # NoLabel
  <2>1. NetworksOf[n] # {}
    BY <1>6
  <2>2. (UNION wanted) \cap (UNION NetworksOf[n]) # {}
    BY <1>5, <1>6
  <2>3. QED
    <3>1. NetworksOf[n] \in SUBSET Block
      BY <1>2
    <3>2. QED
      BY <3>1, <2>1, <2>2, <1>7, <1>c
<1> HIDE DEF Of
<1>a. labels \in SUBSET {"exact", "broader", "narrower", "overlap", NoLabel}
  BY <1>4
<1>b. Of(n) \in labels
  BY <1>6
<1> HIDE DEF labels
<1>9. QED
  BY <1>1, <1>a, <1>b, <1>8, BestIsOne

LEMMA NothingIsMissed == LookupIInv => SearchMissesNothing
<1> SUFFICES ASSUME LookupIInv PROVE SearchMissesNothing
  OBVIOUS
<1> DEFINE found == search(LookupRule)
<1>1. ASSUME NEW i \in DOMAIN LookupRule, NEW f \in {"src", "dst"}, Wanted(f) # NotSearched
      PROVE  LET rule == LookupRule[i]
             IN  /\ ~Negated(rule, f) /\ AddressesOf(RuleNames(rule, f)) \cap UNION Wanted(f) # {}
                      => \E row \in found.rows : row[2] = rule
                 /\ Negated(rule, f) \/ RuleNames(rule, f) \cap LookupAll # {} => rule \in found.skipped
  <2> DEFINE rule == LookupRule[i]
  <2>1. rule \in [src : SUBSET LookupName, dst : SUBSET LookupName, service : SUBSET DOMAIN RangesOf,
                  negate_src : BOOLEAN, negate_dst : BOOLEAN]
    BY LookupAssumption, ElementOfSeq, LenProperties
  <2>2. Matched(i)[f] = _match_addr_field(RuleNames(rule, f), Negated(rule, f), Wanted(f))
    BY DEF Matched, match_rule, RuleNames, Negated, Wanted
  <2>3. SearchedAddress /\ Wanted(f) \in {src, dst} \ {NotSearched}
    BY <1>1 DEF SearchedAddress, Wanted
  <2>4. RuleNames(rule, f) \in SUBSET LookupName /\ Negated(rule, f) \in BOOLEAN
    BY <2>1 DEF RuleNames, Negated
  <2>5. ASSUME ~Negated(rule, f), AddressesOf(RuleNames(rule, f)) \cap UNION Wanted(f) # {}
        PROVE  \E row \in found.rows : row[2] = rule
    <3>1. Matched(i)[f].label # NoLabel
      <4>1. Negated(rule, f) = FALSE
        BY <2>4, <2>5
      <4>2. QED
        BY <2>2, <2>3, <2>4, <2>5, <4>1, AddressesAreMet
    <3>2. i \in MainRules
      BY <3>1, <2>3 DEF MainRules, MainRow, Meets
    <3>3. RowOf(i) \in found.rows
      BY <3>2, RowsAre
    <3>4. QED
      BY <3>3 DEF RowOf
  <2>6. ASSUME Negated(rule, f) \/ RuleNames(rule, f) \cap LookupAll # {} PROVE rule \in found.skipped
    <3>1. Matched(i)[f].skipped = (Negated(rule, f) \/ RuleNames(rule, f) \cap LookupAll # {})
      BY <2>2, <1>1 DEF _match_addr_field
    <3>2. QED
      BY <2>6, <3>1, RowsAre
  <2>7. QED
    BY <2>5, <2>6
<1>2. ASSUME NEW x \in found.rows, NEW y \in found.rows
      PROVE  /\ _score(match_rule(x[2])) > _score(match_rule(y[2])) => x[1] < y[1]
             /\ x[1] = y[1] => x = y
  <2>1. PICK i \in MainRules : x = RowOf(i)
    BY RowsAre
  <2>2. PICK j \in MainRules : y = RowOf(j)
    BY RowsAre
  <2>3. ASSUME _score(match_rule(x[2])) > _score(match_rule(y[2])) PROVE x[1] < y[1]
    <3>1. RowBefore(i, j)
      BY <2>1, <2>2, <2>3 DEF RowOf, RowBefore, Matched
    <3>2. QED
      BY <3>1, <2>1, <2>2, PlacesFollow DEF RowOf
  <2>4. QED
    BY <2>1, <2>2, <2>3, PlacesDiffer
<1>3. ASSUME NEW i \in DOMAIN LookupRule, Meets(match_rule(LookupRule[i]), "port")
      PROVE  LookupRule[i] \in {row[2] : row \in found.rows} \cup found.port_only
  <2>1. Meets(Matched(i), "port")
    BY <1>3 DEF Matched
  <2>2. CASE i \in MainRules
    <3>1. RowOf(i) \in found.rows /\ RowOf(i)[2] = LookupRule[i]
      BY <2>2, RowsAre DEF RowOf
    <3>2. QED
      BY <3>1
  <2>3. CASE i \notin MainRules
    <3>1. PortOnly(Matched(i))
      BY <2>1, <2>3 DEF MainRules, MainRow, PortOnly
    <3>2. QED
      BY <3>1, RowsAre
  <2>4. QED
    BY <2>2, <2>3
<1> HIDE DEF found
<1>4. QED
  BY <1>1, <1>2, <1>3 DEF SearchMissesNothing, found

(* LookupIsRight: labels of networks and services mean what they say of    *)
(* addresses and ports, and no rule that names a searched address is left  *)
(* out, for every address length, rule base, object and search.            *)
THEOREM LookupsAreRight == LookupSpec => []LookupIsRight
<1>1. LookupIInv => LookupIsRight
  BY NetworkLabels, ServiceLabels, NothingIsMissed DEF LookupIsRight, LabelsMeanSets
<1>2. QED
  BY <1>1, LookupInitial, LookupStep, PTL DEF LookupSpec
-----------------------------------------------------------------------------
(* FQDN allowlists.  A step function can be repeated.                      *)
LEMMA Iterates ==
    ASSUME NEW D, NEW base \in D, NEW n \in Nat, NEW step \in [1..n -> [D -> D]]
    PROVE  \E f \in [0..n -> D] : f[0] = base /\ \A i \in 1..n : f[i] = step[i][f[i - 1]]
<1> DEFINE Is(f, m) == f \in [0..m -> D] /\ f[0] = base /\ \A i \in 1..m : f[i] = step[i][f[i - 1]]
           Bad == {m \in 0..n : ~\E f : Is(f, m)}
<1>1. Bad = {}
  <2> SUFFICES ASSUME Bad # {} PROVE FALSE
    OBVIOUS
  <2>1. PICK m \in Bad : \A k \in Bad : m <= k
    <3>1. Bad \in SUBSET Nat
      OBVIOUS
    <3> HIDE DEF Bad
    <3>2. QED
      BY <3>1, Minimum
  <2>2. m \in 0..n /\ ~\E f : Is(f, m)
    OBVIOUS
  <2>3. CASE m = 0
    <3>1. Is([i \in 0..0 |-> base], 0)
      OBVIOUS
    <3>2. QED
      BY <3>1, <2>2, <2>3
  <2>4. CASE m # 0
    <3>0. m - 1 \in 0..n /\ ~(m <= m - 1)
      BY <2>2, <2>4
    <3>1. m - 1 \in 0..n /\ m - 1 \notin Bad
      <4> HIDE DEF Bad
      <4>1. QED
        BY <2>1, <3>0
    <3>2. PICK f : Is(f, m - 1)
      BY <3>1
    <3> DEFINE g == [i \in 0..m |-> IF i = m THEN step[m][f[m - 1]] ELSE f[i]]
    <3>3. f[m - 1] \in D /\ step[m] \in [D -> D]
      BY <2>2, <2>4, <3>2
    <3>4. g \in [0..m -> D] /\ g[0] = base
      BY <2>2, <2>4, <3>2, <3>3
    <3>5. ASSUME NEW i \in 1..m PROVE g[i] = step[i][g[i - 1]]
      <4>1. i - 1 \in 0..(m - 1) /\ i - 1 # m
        BY <2>2, <2>4
      <4>2. g[i - 1] = f[i - 1]
        BY <4>1, <2>2
      <4>3. CASE i = m
        BY <4>2, <4>3
      <4>4. CASE i # m
        <5>1. i \in 1..(m - 1)
          BY <4>4, <2>2
        <5>2. f[i] = step[i][f[i - 1]]
          BY <5>1, <3>2
        <5>3. g[i] = f[i]
          BY <4>4
        <5> HIDE DEF g
        <5>4. QED
          BY <5>2, <5>3, <4>2
      <4>5. QED
        BY <4>3, <4>4
    <3> HIDE DEF g
    <3>6. QED
      BY <2>2, <3>4, <3>5
  <2>5. QED
    BY <2>3, <2>4
<1>2. PICK f : Is(f, n)
  BY <1>1
<1>3. QED
  BY <1>2

(* Kept has the elements of the sequence that are in the set.              *)
LEMMA KeptIs ==
    ASSUME NEW S, NEW s \in Seq(S), NEW T
    PROVE  /\ Kept(s, T) \in Seq(S \cap T) /\ Len(Kept(s, T)) <= Len(s)
           /\ \A j \in DOMAIN s : s[j] \in T => \E k \in DOMAIN Kept(s, T) : Kept(s, T)[k] = s[j]
           /\ \A k \in DOMAIN Kept(s, T) : \E j \in DOMAIN s : Kept(s, T)[k] = s[j]
<1> DEFINE n == Len(s)
           D == Seq(S \cap T)
           step == [i \in 1..n |-> [q \in D |-> IF s[i] \in T THEN Append(q, s[i]) ELSE q]]
           Is(f) == f = [i \in 0..n |-> IF i = 0 THEN <<>> ELSE IF s[i] \in T THEN Append(f[i - 1], s[i]) ELSE f[i - 1]]
<1>1. n \in Nat /\ DOMAIN s = 1..n /\ \A i \in 1..n : s[i] \in S
  OBVIOUS
<1>2. \E f : Is(f)
  <2>1. step \in [1..n -> [D -> D]] /\ <<>> \in D
    BY <1>1
  <2>2. PICK f \in [0..n -> D] : f[0] = <<>> /\ \A i \in 1..n : f[i] = step[i][f[i - 1]]
    <3>1. n \in Nat
      BY <1>1
    <3> HIDE DEF step, D, n
    <3>2. QED
      BY <2>1, <3>1, Iterates
  <2>3. \A i \in 1..n : f[i - 1] \in D
    BY <1>1
  <2>4. \A i \in 1..n : step[i][f[i - 1]] = IF s[i] \in T THEN Append(f[i - 1], s[i]) ELSE f[i - 1]
    BY <2>3
  <2>5. Is(f)
    <3> HIDE DEF step, D, n
    <3>1. f = [i \in 0..n |-> f[i]]
      BY <2>2
    <3>2. ASSUME NEW i \in 0..n
          PROVE  f[i] = IF i = 0 THEN <<>> ELSE IF s[i] \in T THEN Append(f[i - 1], s[i]) ELSE f[i - 1]
      <4>1. i = 0 \/ i \in 1..n
        BY <1>1
      <4>2. QED
        BY <4>1, <2>2, <2>4
    <3>3. QED
      BY <3>1, <3>2
  <2>6. QED
    BY <2>5
<1> DEFINE f == CHOOSE g : Is(g)
<1>3. Is(f)
  BY <1>2
<1>4. Kept(s, T) = f[n]
  BY DEF Kept
<1> HIDE DEF f
<1>5. f[0] = <<>> /\ \A i \in 1..n : f[i] = IF s[i] \in T THEN Append(f[i - 1], s[i]) ELSE f[i - 1]
  <2> HIDE DEF n
  <2>1. 0 \in 0..n /\ \A i \in 1..n : i \in 0..n /\ i # 0
    BY <1>1
  <2>2. f = [i \in 0..n |-> IF i = 0 THEN <<>> ELSE IF s[i] \in T THEN Append(f[i - 1], s[i]) ELSE f[i - 1]]
    BY <1>3
  <2>3. f[0] = <<>>
    BY <2>1, <2>2
  <2>4. ASSUME NEW i \in 1..n PROVE f[i] = IF s[i] \in T THEN Append(f[i - 1], s[i]) ELSE f[i - 1]
    <3>1. f[i] = IF i = 0 THEN <<>> ELSE IF s[i] \in T THEN Append(f[i - 1], s[i]) ELSE f[i - 1]
      BY <2>1, <2>2
    <3>2. QED
      BY <3>1, <2>1
  <2>5. QED
    BY <2>3, <2>4
<1> DEFINE Good(i) == /\ f[i] \in D /\ Len(f[i]) <= i
                      /\ \A j \in 1..i : s[j] \in T => \E k \in DOMAIN f[i] : f[i][k] = s[j]
                      /\ \A k \in DOMAIN f[i] : \E j \in 1..i : f[i][k] = s[j]
           Bad == {i \in 0..n : ~Good(i)}
<1>6. Bad = {}
  <2> SUFFICES ASSUME Bad # {} PROVE FALSE
    OBVIOUS
  <2>1. PICK m \in Bad : \A k \in Bad : m <= k
    <3>1. Bad \in SUBSET Nat
      BY <1>1
    <3> HIDE DEF Bad
    <3>2. QED
      BY <3>1, Minimum
  <2>2. m \in 0..n /\ ~Good(m)
    OBVIOUS
  <2>3. Good(0)
    BY <1>5
  <2>4. m # 0
    BY <2>2, <2>3
  <2>5. m - 1 \in 0..n /\ m - 1 \notin Bad /\ m \in 1..n
    BY <1>1, <2>1, <2>2, <2>4
  <2>6. Good(m - 1)
    BY <2>5
  <2>7. CASE s[m] \notin T
    <3>1. f[m] = f[m - 1]
      BY <1>5, <2>5, <2>7
    <3>2. Good(m)
      BY <3>1, <2>5, <2>6, <2>7
    <3>3. QED
      BY <3>2, <2>2
  <2>8. CASE s[m] \in T
    <3>1. f[m] = Append(f[m - 1], s[m])
      BY <1>5, <2>5, <2>8
    <3> DEFINE q == f[m - 1]
    <3>2. q \in Seq(S \cap T) /\ s[m] \in S \cap T /\ Len(q) <= m - 1
      BY <1>1, <2>5, <2>6, <2>8
    <3>3. /\ f[m] \in Seq(S \cap T) /\ Len(f[m]) = Len(q) + 1 /\ Len(q) \in Nat
          /\ DOMAIN q = 1..Len(q) /\ DOMAIN f[m] = 1..(Len(q) + 1)
          /\ f[m][Len(q) + 1] = s[m]
          /\ \A k \in 1..Len(q) : f[m][k] = q[k]
      <4> HIDE DEF q
      <4>1. f[m] = Append(q, s[m])
        BY <3>1 DEF q
      <4>2. QED
        BY <3>2, <4>1, AppendProperties, LenProperties
    <3>4. /\ \A j \in 1..(m - 1) : s[j] \in T => \E k \in DOMAIN q : q[k] = s[j]
          /\ \A k \in DOMAIN q : \E j \in 1..(m - 1) : q[k] = s[j]
      BY <2>6
    <3> HIDE DEF q
    <3>5. ASSUME NEW j \in 1..m, s[j] \in T PROVE \E k \in DOMAIN f[m] : f[m][k] = s[j]
      <4>1. CASE j = m
        BY <4>1, <3>3
      <4>2. CASE j # m
        <5>1. j \in 1..(m - 1)
          BY <4>2, <2>5
        <5>2. PICK k \in DOMAIN q : q[k] = s[j]
          BY <5>1, <3>4, <3>5
        <5>3. k \in 1..Len(q) /\ k \in DOMAIN f[m]
          BY <5>2, <3>3
        <5>4. QED
          BY <5>2, <5>3, <3>3
      <4>3. QED
        BY <4>1, <4>2
    <3>6. ASSUME NEW k \in DOMAIN f[m] PROVE \E j \in 1..m : f[m][k] = s[j]
      <4>1. CASE k = Len(q) + 1
        BY <4>1, <3>3, <2>5
      <4>2. CASE k # Len(q) + 1
        <5>1. k \in 1..Len(q) /\ k \in DOMAIN q
          BY <4>2, <3>3
        <5>2. PICK j \in 1..(m - 1) : q[k] = s[j]
          BY <5>1, <3>4
        <5>3. j \in 1..m
          BY <2>5
        <5>4. QED
          BY <5>1, <5>2, <5>3, <3>3
      <4>3. QED
        BY <4>1, <4>2
    <3>7. Len(f[m]) <= m
      BY <3>2, <3>3, <2>5
    <3>8. Good(m)
      BY <3>3, <3>5, <3>6, <3>7
    <3>9. QED
      BY <3>8, <2>2
  <2>9. QED
    BY <2>7, <2>8
<1>7. Good(n)
  BY <1>1, <1>6
<1>8. QED
  BY <1>1, <1>4, <1>7

(* A free name is free, and its number is at most two more than there are  *)
(* names: the suffixes up to it are more than there are names.             *)
LEMMA FreeNameIsFree ==
    ASSUME NEW x \in Fqdn, NEW taken, IsFiniteSet(taken)
    PROVE  /\ FreeName(x, taken) \notin taken
           /\ \E k \in 1..(Cardinality(taken) + 2) : FreeName(x, taken) = NameOf(x, k)
<1> DEFINE c == Cardinality(taken)
           free == {k \in 1..(c + 2) : NameOf(x, k) \notin taken}
<1>1. c \in Nat
  BY FS_CardinalityType
<1>2. free # {}
  <2> SUFFICES ASSUME free = {} PROVE FALSE
    OBVIOUS
  <2> DEFINE S == 2..(c + 2)
             f == [k \in S |-> <<BaseName[x], k>>]
  <2>1. f \in [S -> taken]
    <3>1. \A k \in S : k \in 1..(c + 2) /\ k # 1
      BY <1>1
    <3>2. QED
      BY <3>1 DEF NameOf
  <2>2. IsFiniteSet(S) /\ Cardinality(S) = c + 1
    BY <1>1, FS_Interval
  <2>3. \A k, l \in S : f[k] = f[l] => k = l
    OBVIOUS
  <2>4. Cardinality(taken) < Cardinality(S)
    BY <1>1, <2>2
  <2> HIDE DEF f, S
  <2>5. \E k, l \in S : k # l /\ f[k] = f[l]
    <3>1. IsFiniteSet(S) /\ IsFiniteSet(taken)
      BY <2>2
    <3> HIDE DEF c, free
    <3>2. QED
      BY <3>1, <2>1, <2>4, FS_PigeonHole
  <2>6. QED
    BY <2>3, <2>5
<1> DEFINE k == CHOOSE i \in free : \A j \in free : i <= j
<1>3. k \in free
  <2>1. free \in SUBSET Nat
    BY <1>1
  <2> HIDE DEF free
  <2>2. \E m \in free : \A j \in free : m <= j
    BY <1>2, <2>1, Minimum
  <2>3. QED
    BY <2>2
<1>4. FreeName(x, taken) = NameOf(x, k)
  BY DEF FreeName
<1> HIDE DEF k
<1>5. QED
  BY <1>3, <1>4

GivenName == {NameOf(f, k) : f \in Fqdn, k \in Nat}

FqdnEntry == [fqdn : Fqdn, svc : SUBSET ({"TCP", "UDP"} \X Nat)]

NamesIn(q) == {q[j] : j \in DOMAIN q}

NextName(e, q) == FreeName(e.fqdn, NamesIn(q))

LEMMA NextNameIsFree ==
    ASSUME NEW q \in Seq(GivenName), NEW e \in FqdnEntry
    PROVE  /\ NextName(e, q) \notin NamesIn(q) /\ NextName(e, q) \in GivenName
           /\ \E k \in 1..(Len(q) + 2) : NextName(e, q) = NameOf(e.fqdn, k)
<1>1. Len(q) \in Nat /\ DOMAIN q = 1..Len(q) /\ q = [j \in 1..Len(q) |-> q[j]]
  BY LenProperties
<1>2. q \in Surjection(1..Len(q), NamesIn(q))
  BY <1>1 DEF Surjection, NamesIn
<1>3. 1 \in Int /\ Len(q) \in Int
  BY <1>1
<1>4. IsFiniteSet(1..Len(q)) /\ Cardinality(1..Len(q)) = Len(q)
  <2>1. IsFiniteSet(1..Len(q)) /\ Cardinality(1..Len(q)) = IF 1 > Len(q) THEN 0 ELSE Len(q) - 1 + 1
    BY <1>3, FS_Interval, Zenon
  <2>2. QED
    BY <1>1, <2>1
<1>5. IsFiniteSet(NamesIn(q)) /\ Cardinality(NamesIn(q)) <= Len(q)
  BY <1>2, <1>4, FS_Surjection
<1>6. Cardinality(NamesIn(q)) \in Nat
  BY <1>5, FS_CardinalityType
<1>7. e.fqdn \in Fqdn
  BY DEF FqdnEntry
<1>8. /\ NextName(e, q) \notin NamesIn(q)
      /\ \E k \in 1..(Cardinality(NamesIn(q)) + 2) : NextName(e, q) = NameOf(e.fqdn, k)
  BY <1>5, <1>7, FreeNameIsFree DEF NextName
<1>9. PICK k \in 1..(Cardinality(NamesIn(q)) + 2) : NextName(e, q) = NameOf(e.fqdn, k)
  BY <1>8
<1>10. k \in 1..(Len(q) + 2) /\ k \in Nat
  BY <1>1, <1>5, <1>6
<1>11. NextName(e, q) \in GivenName
  BY <1>7, <1>9, <1>10 DEF GivenName
<1>12. QED
  BY <1>8, <1>9, <1>10, <1>11

AreNames(f, entries) ==
    f = [i \in 0..Len(entries) |-> IF i = 0 THEN <<>> ELSE Append(f[i - 1], NextName(entries[i], f[i - 1]))]

LEMMA NamesExist ==
    ASSUME NEW entries \in Seq(FqdnEntry)
    PROVE  \E f : AreNames(f, entries)
<1> DEFINE n == Len(entries)
           D == Seq(GivenName)
           step == [i \in 1..n |-> [q \in D |-> Append(q, NextName(entries[i], q))]]
<1>1. n \in Nat /\ \A i \in 1..n : entries[i] \in FqdnEntry
  BY ElementOfSeq, LenProperties
<1>2. \A i \in 1..n, q \in D : Append(q, NextName(entries[i], q)) \in D
  BY <1>1, NextNameIsFree, AppendProperties
<1> HIDE DEF n, D
<1>3. step \in [1..n -> [D -> D]]
  BY <1>2
<1>4. <<>> \in D
  BY DEF D
<1>5. PICK f \in [0..n -> D] : f[0] = <<>> /\ \A i \in 1..n : f[i] = step[i][f[i - 1]]
  <2> HIDE DEF step
  <2>1. n \in Nat
    BY <1>1
  <2>2. QED
    BY <2>1, <1>3, <1>4, Iterates
<1>6. ASSUME NEW i \in 0..n
      PROVE  f[i] = IF i = 0 THEN <<>> ELSE Append(f[i - 1], NextName(entries[i], f[i - 1]))
  <2>1. CASE i = 0
    BY <2>1, <1>5
  <2>2. CASE i # 0
    <3>1. i \in 1..n /\ i - 1 \in 0..n
      BY <1>1, <2>2
    <3>2. f[i - 1] \in D
      BY <3>1
    <3>3. step[i][f[i - 1]] = Append(f[i - 1], NextName(entries[i], f[i - 1]))
      BY <3>1, <3>2
    <3> HIDE DEF step
    <3>4. QED
      BY <2>2, <3>1, <3>3, <1>5
  <2>3. QED
    BY <2>1, <2>2
<1>7. f = [i \in 0..n |-> f[i]]
  BY <1>5
<1>8. f = [i \in 0..n |-> IF i = 0 THEN <<>> ELSE Append(f[i - 1], NextName(entries[i], f[i - 1]))]
  BY <1>6, <1>7
<1>9. QED
  BY <1>8 DEF AreNames, n

LEMMA NamesAreFree ==
    ASSUME NEW entries \in Seq(FqdnEntry)
    PROVE  LET q == ObjectNames(entries)
           IN  /\ \A i \in DOMAIN entries :
                    \E k \in 1..(Len(entries) + 1) : q[i] = NameOf(entries[i].fqdn, k)
               /\ \A i, j \in DOMAIN entries : q[i] = q[j] => i = j
<1> DEFINE n == Len(entries)
           f == CHOOSE g : AreNames(g, entries)
<1>1. n \in Nat /\ DOMAIN entries = 1..n /\ \A i \in 1..n : entries[i] \in FqdnEntry
  BY ElementOfSeq, LenProperties
<1>2. AreNames(f, entries)
  BY NamesExist
<1>3. ObjectNames(entries) = f[n]
  BY DEF ObjectNames, AreNames, NextName, NamesIn
<1> HIDE DEF f, n
<1>4. f[0] = <<>> /\ \A i \in 1..n : f[i] = Append(f[i - 1], NextName(entries[i], f[i - 1]))
  <2>1. 0 \in 0..n /\ \A i \in 1..n : i \in 0..n /\ i # 0
    BY <1>1
  <2>2. f = [i \in 0..n |-> IF i = 0 THEN <<>> ELSE Append(f[i - 1], NextName(entries[i], f[i - 1]))]
    BY <1>2 DEF AreNames, n
  <2>3. f[0] = <<>>
    BY <2>1, <2>2
  <2>4. ASSUME NEW i \in 1..n PROVE f[i] = Append(f[i - 1], NextName(entries[i], f[i - 1]))
    <3>1. f[i] = IF i = 0 THEN <<>> ELSE Append(f[i - 1], NextName(entries[i], f[i - 1]))
      BY <2>1, <2>2
    <3>2. QED
      BY <3>1, <2>1
  <2>5. QED
    BY <2>3, <2>4
<1> DEFINE Good(i) == /\ f[i] \in Seq(GivenName) /\ Len(f[i]) = i
                      /\ \A j \in 1..i : \E k \in 1..(i + 1) : f[i][j] = NameOf(entries[j].fqdn, k)
                      /\ \A j, k \in 1..i : f[i][j] = f[i][k] => j = k
           Bad == {i \in 0..n : ~Good(i)}
<1>5. Good(0)
  BY <1>4
<1>6. ASSUME NEW m \in 1..n, Good(m - 1) PROVE Good(m)
  <2> DEFINE q == f[m - 1]
             e == NextName(entries[m], q)
  <2>1. f[m] = Append(q, e)
    BY <1>4
  <2>2. q \in Seq(GivenName) /\ Len(q) = m - 1
    BY <1>6
  <2>3. /\ e \notin NamesIn(q) /\ e \in GivenName
        /\ \E k \in 1..(Len(q) + 2) : e = NameOf(entries[m].fqdn, k)
    BY <1>1, <2>2, NextNameIsFree
  <2>4. /\ \A j \in 1..(m - 1) : \E k \in 1..m : q[j] = NameOf(entries[j].fqdn, k)
        /\ \A j, k \in 1..(m - 1) : q[j] = q[k] => j = k
    BY <1>1, <1>6
  <2> HIDE DEF q, e
  <2>5. DOMAIN q = 1..(m - 1) /\ m - 1 + 1 = m /\ m \in Nat
    BY <1>1, <2>2, LenProperties
  <2>6. /\ f[m] \in Seq(GivenName) /\ Len(f[m]) = m /\ f[m][m] = e
        /\ \A j \in 1..(m - 1) : f[m][j] = q[j]
    BY <2>1, <2>2, <2>3, <2>5, AppendProperties
  <2>7. \A j \in 1..(m - 1) : f[m][j] # e
    BY <2>3, <2>5, <2>6 DEF NamesIn
  <2>8. ASSUME NEW j \in 1..m PROVE \E k \in 1..(m + 1) : f[m][j] = NameOf(entries[j].fqdn, k)
    <3>1. CASE j = m
      <4>1. Len(q) + 2 = m + 1
        BY <2>2, <2>5
      <4>2. QED
        BY <3>1, <4>1, <2>3, <2>6
    <3>2. CASE j # m
      <4>1. j \in 1..(m - 1)
        BY <3>2, <2>5
      <4>2. PICK k \in 1..m : q[j] = NameOf(entries[j].fqdn, k)
        BY <4>1, <2>4
      <4>3. k \in 1..(m + 1)
        BY <2>5
      <4>4. f[m][j] = NameOf(entries[j].fqdn, k)
        BY <4>1, <4>2, <2>6
      <4>5. QED
        BY <4>3, <4>4
    <3>3. QED
      BY <3>1, <3>2
  <2>9. ASSUME NEW j \in 1..m, NEW k \in 1..m, f[m][j] = f[m][k] PROVE j = k
    <3>1. j = m \/ j \in 1..(m - 1)
      BY <2>5
    <3>2. k = m \/ k \in 1..(m - 1)
      BY <2>5
    <3>3. CASE j = m \/ k = m
      BY <3>1, <3>2, <3>3, <2>6, <2>7, <2>9
    <3>4. CASE j \in 1..(m - 1) /\ k \in 1..(m - 1)
      <4>1. q[j] = q[k]
        BY <3>4, <2>6, <2>9
      <4>2. QED
        BY <3>4, <4>1, <2>4
    <3>5. QED
      BY <3>1, <3>2, <3>3, <3>4
  <2>10. QED
    BY <2>6, <2>8, <2>9
<1>7. Bad = {}
  <2> HIDE DEF Good
  <2> SUFFICES ASSUME Bad # {} PROVE FALSE
    OBVIOUS
  <2>1. PICK m \in Bad : \A k \in Bad : m <= k
    <3>1. Bad \in SUBSET Nat
      BY <1>1
    <3> HIDE DEF Bad
    <3>2. QED
      BY <3>1, Minimum
  <2>2. m \in 0..n /\ ~Good(m) /\ m # 0
    BY <1>5
  <2>3. m - 1 \in 0..n /\ ~(m <= m - 1) /\ m \in 1..n
    BY <1>1, <2>2
  <2>4. Good(m - 1)
    BY <2>1, <2>3
  <2>5. QED
    BY <2>2, <2>3, <2>4, <1>6
<1>8. Good(n)
  <2> HIDE DEF Good
  <2>1. QED
    BY <1>1, <1>7
<1>9. n + 1 = Len(entries) + 1
  BY DEF n
<1>10. QED
  BY <1>1, <1>3, <1>8, <1>9

(* The members of a group are below it.  Under is one level more.          *)
Under(members, G, S) == S \cup UNION {members[h] : h \in S \cap G}

AreDepths(f, members, G, g, n) ==
    f = [i \in 0..n |-> IF i = 0 THEN {g} ELSE Under(members, G, f[i - 1])]

LEMMA DepthsExist ==
    ASSUME NEW members, NEW G, NEW g, NEW n \in Nat
    PROVE  \E f : AreDepths(f, members, G, g, n)
<1> DEFINE D == SUBSET ({g} \cup UNION {members[h] : h \in G})
           step == [i \in 1..n |-> [S \in D |-> Under(members, G, S)]]
           base == {g}
<1>1. step \in [1..n -> [D -> D]]
  <2>1. \A S \in D : Under(members, G, S) \in D
    BY DEF Under
  <2> HIDE DEF D
  <2>2. QED
    BY <2>1
<1>2. base \in D
  OBVIOUS
<1>3. PICK f \in [0..n -> D] : f[0] = base /\ \A i \in 1..n : f[i] = step[i][f[i - 1]]
  <2> HIDE DEF step, D, base
  <2>1. QED
    BY <1>1, <1>2, Iterates
<1>4. ASSUME NEW i \in 0..n PROVE f[i] = IF i = 0 THEN {g} ELSE Under(members, G, f[i - 1])
  <2>1. CASE i = 0
    BY <2>1, <1>3
  <2>2. CASE i # 0
    <3>1. i \in 1..n /\ i - 1 \in 0..n
      BY <2>2
    <3> HIDE DEF D
    <3>2. f[i - 1] \in D
      BY <3>1
    <3>3. step[i][f[i - 1]] = Under(members, G, f[i - 1])
      BY <3>1, <3>2
    <3> HIDE DEF step
    <3>4. QED
      BY <2>2, <3>1, <3>3, <1>3
  <2>3. QED
    BY <2>1, <2>2
<1>5. f = [i \in 0..n |-> f[i]]
  BY <1>3
<1>6. QED
  BY <1>4, <1>5 DEF AreDepths

LEMMA DepthsReach ==
    ASSUME NEW members, NEW G, NEW g \in G, NEW n \in Nat, n # 0, NEW f, AreDepths(f, members, G, g, n)
    PROVE  members[g] \subseteq f[n]
<1>1. f[0] = {g} /\ \A i \in 1..n : f[i] = Under(members, G, f[i - 1])
  <2>1. 0 \in 0..n /\ \A i \in 1..n : i \in 0..n /\ i # 0
    OBVIOUS
  <2>2. f = [i \in 0..n |-> IF i = 0 THEN {g} ELSE Under(members, G, f[i - 1])]
    BY DEF AreDepths
  <2>3. f[0] = {g}
    BY <2>1, <2>2
  <2>4. ASSUME NEW i \in 1..n PROVE f[i] = Under(members, G, f[i - 1])
    <3>1. f[i] = IF i = 0 THEN {g} ELSE Under(members, G, f[i - 1])
      BY <2>1, <2>2
    <3>2. QED
      BY <3>1, <2>1
  <2>5. QED
    BY <2>3, <2>4
<1>2. members[g] \subseteq f[1]
  <2>1. 1 \in 1..n /\ 1 - 1 = 0
    OBVIOUS
  <2>2. f[1] = Under(members, G, {g})
    BY <1>1, <2>1
  <2>3. QED
    BY <2>2 DEF Under
<1> DEFINE Bad == {i \in 1..n : ~(members[g] \subseteq f[i])}
<1>3. Bad = {}
  <2> SUFFICES ASSUME Bad # {} PROVE FALSE
    OBVIOUS
  <2>1. PICK m \in Bad : \A k \in Bad : m <= k
    <3>1. Bad \in SUBSET Nat
      OBVIOUS
    <3> HIDE DEF Bad
    <3>2. QED
      BY <3>1, Minimum
  <2>2. m \in 1..n /\ ~(members[g] \subseteq f[m]) /\ m # 1
    BY <1>2
  <2>3. m - 1 \in 1..n /\ ~(m <= m - 1)
    BY <2>2
  <2>4. members[g] \subseteq f[m - 1] /\ f[m] = Under(members, G, f[m - 1])
    BY <1>1, <2>1, <2>2, <2>3
  <2>5. f[m - 1] \subseteq f[m]
    BY <2>4 DEF Under
  <2>6. QED
    BY <2>2, <2>4, <2>5
<1>4. QED
  BY <1>3

LEMMA MembersAreBelow ==
    ASSUME IsFiniteSet(Groups), NEW g \in Groups \ Objects
    PROVE  groups[g] \subseteq Subtree(g)
<1> DEFINE n == Cardinality(Groups)
           f == CHOOSE h : AreDepths(h, groups, Groups \ Objects, g, n)
<1>1. n \in Nat /\ n # 0
  BY FS_CardinalityType, FS_EmptySet
<1>2. AreDepths(f, groups, Groups \ Objects, g, n)
  <2> HIDE DEF n
  <2>1. QED
    BY <1>1, DepthsExist
<1>3. Subtree(g) = f[n]
  BY DEF Subtree, AreDepths, Under
<1> HIDE DEF f, n
<1>4. QED
  BY <1>1, <1>2, <1>3, DepthsReach

(* The inductive invariant.  Every plan of the request has, for each name, *)
(* an object it writes or one that is there and that no plan writes; once  *)
(* one is implemented the group has them, and the rules stay.              *)
Entries == request.entries

WrittenNames == UNION {{o.name : o \in per_firewall[fw].objs} : fw \in Firewall}

Reaches(pl, x) ==
    \/ \E o \in pl.objs : o.value = x /\ o.name \in pl.members
    \/ \E n \in pl.members \cap Objects : n \notin WrittenNames /\ objects[n] = x

PlanReaches(fw) ==
    LET pl == per_firewall[fw]
    IN  pl.package # NoPackage =>
          /\ pl.package \in device_pkgs(fw)
          /\ \A o, p \in pl.objs : o.name = p.name => o = p
          /\ \A i \in DOMAIN Entries : Reaches(pl, Entries[i].fqdn)
          /\ \A i \in DOMAIN Entries : Entries[i].fqdn \in {o.value : o \in pl.objs} => Entries[i].svc \subseteq pl.svc

NewFqdnRule(pl) == [accept |-> TRUE, enabled |-> TRUE, dst |-> {request.group}, svc |-> pl.svc]

GroupReaches ==
    /\ request.group \in Groups
    /\ \A i \in DOMAIN Entries :
          \E n \in groups[request.group] \cap Objects : objects[n] = Entries[i].fqdn

FqdnTypes ==
    /\ IsFiniteSet(Groups)
    /\ rules = [p \in Package |-> rules[p]]
    /\ Objects \subseteq ObjectName \cup DOMAIN InitialObjects
    /\ applied \subseteq Firewall
    /\ \A fw \in DOMAIN per_firewall : {o.name : o \in per_firewall[fw].objs} \subseteq ObjectName

FqdnIInv ==
    /\ FqdnTypes
    /\ exact =>
         /\ DOMAIN per_firewall = Firewall \cup {BadSpec}
         /\ \A i \in DOMAIN Entries : Entries[i].fqdn \in Fqdn
         /\ request.group \notin ObjectName \cup DOMAIN InitialObjects
         /\ \A fw \in Firewall : PlanReaches(fw)
         /\ applied # {} => GroupReaches
         /\ \A fw \in applied : /\ per_firewall[fw].package # NoPackage
                                /\ NewFqdnRule(per_firewall[fw]) \in rules[per_firewall[fw].package]

LEMMA FqdnInitial == FqdnInit => FqdnIInv
BY FqdnAssumption DEF FqdnInit, FqdnIInv, FqdnTypes, NoPlanYet, Groups, Objects

(* A name that is covered has an object.                                   *)
LEMMA CoveredHasObject ==
    ASSUME NEW fw, NEW names, NEW faults, names \subseteq Fqdn,
           NEW x \in search_fqdn_rules(fw, names, faults).covered
    PROVE  x \in names /\ exact_match_name(x) \in Objects /\ objects[exact_match_name(x)] = x
<1>1. x \in names /\ \E p \in device_pkgs(fw) : \E r \in rules[p] : x \in Reached(r)
  BY DEF search_fqdn_rules
<1>2. \E o \in Objects : objects[o] = x
  BY <1>1 DEF Reached, fqdns_for_ref
<1>3. NamesOf(x) # {}
  BY <1>2 DEF NamesOf
<1>4. exact_match_name(x) \in NamesOf(x)
  BY <1>3 DEF exact_match_name
<1>5. QED
  BY <1>1, <1>4 DEF NamesOf

(* Rows give entries.                                                      *)
LEMMA EntriesAreTyped ==
    ASSUME NEW u \in Upload
    PROVE  /\ parse_fqdn_rows(u.rows) \in Seq(FqdnEntry)
           /\ Len(parse_fqdn_rows(u.rows)) <= Len(u.rows)
<1> DEFINE Row == [fqdn : Fqdn \cup {NotAName}, protocol : STRING, ports : SUBSET Nat]
           usable == {row \in {u.rows[i] : i \in DOMAIN u.rows} : row.fqdn # NotAName /\ row.ports # {}}
           kept == Kept(u.rows, usable)
<1>1. u.rows \in Seq(Row)
  BY FqdnAssumption
<1>2. kept \in Seq(Row \cap usable) /\ Len(kept) <= Len(u.rows)
  <2> HIDE DEF usable, Row
  <2>1. QED
    BY <1>1, KeptIs
<1>3. parse_fqdn_rows(u.rows) = [i \in DOMAIN kept |-> Entry(kept[i])]
  BY DEF parse_fqdn_rows
<1>4. Len(kept) \in Nat /\ DOMAIN kept = 1..Len(kept) /\ \A i \in 1..Len(kept) : kept[i] \in Row \cap usable
  <2> HIDE DEF kept, usable, Row
  <2>1. Len(kept) \in Nat /\ DOMAIN kept = 1..Len(kept)
    BY <1>2, LenProperties
  <2>2. QED
    BY <1>2, <2>1, ElementOfSeq
<1>5. \A row \in Row \cap usable : Entry(row) \in FqdnEntry
  BY DEF Entry, FqdnEntry
<1> HIDE DEF kept, usable, Row
<1>6. parse_fqdn_rows(u.rows) = [i \in 1..Len(kept) |-> Entry(kept[i])]
  BY <1>3, <1>4
<1>7. \A i \in 1..Len(kept) : Entry(kept[i]) \in FqdnEntry
  BY <1>4, <1>5
<1>8. parse_fqdn_rows(u.rows) \in Seq(FqdnEntry) /\ Len(parse_fqdn_rows(u.rows)) = Len(kept)
  BY <1>4, <1>6, <1>7
<1>9. QED
  BY <1>2, <1>8

(* The objects of a plan have a name each.                                 *)
LEMMA ObjectsAreNamed ==
    ASSUME NEW entries \in Seq(FqdnEntry)
    PROVE  /\ \A o, p \in proposed_objects(entries) : o.name = p.name => o = p
           /\ \A i \in DOMAIN entries : \E o \in proposed_objects(entries) : o.value = entries[i].fqdn
           /\ \A o \in proposed_objects(entries) : \E i \in DOMAIN entries : o.value = entries[i].fqdn
           /\ \A o \in proposed_objects(entries) :
                \E x \in Fqdn, k \in 1..(Len(entries) + 1) : o.name = NameOf(x, k)
<1> DEFINE q == ObjectNames(entries)
           Obj(i) == [name |-> q[i], value |-> entries[i].fqdn]
<1>1. proposed_objects(entries) = {Obj(i) : i \in DOMAIN entries}
  BY DEF proposed_objects
<1>2. /\ \A i \in DOMAIN entries : \E k \in 1..(Len(entries) + 1) : q[i] = NameOf(entries[i].fqdn, k)
      /\ \A i, j \in DOMAIN entries : q[i] = q[j] => i = j
  BY NamesAreFree
<1>3. \A i \in DOMAIN entries : entries[i].fqdn \in Fqdn
  <2>1. \A i \in DOMAIN entries : entries[i] \in FqdnEntry
    BY ElementOfSeq, LenProperties
  <2>2. QED
    BY <2>1 DEF FqdnEntry
<1> HIDE DEF q
<1>4. \A i \in DOMAIN entries : Obj(i).name = q[i] /\ Obj(i).value = entries[i].fqdn
  OBVIOUS
<1>5. \A i, j \in DOMAIN entries : Obj(i).name = Obj(j).name => Obj(i) = Obj(j)
  BY <1>2, <1>4
<1> HIDE DEF Obj
<1>6. \A o, p \in proposed_objects(entries) : o.name = p.name => o = p
  BY <1>1, <1>5
<1>7. \A o \in proposed_objects(entries) :
        \E x \in Fqdn, k \in 1..(Len(entries) + 1) : o.name = NameOf(x, k)
  <2> SUFFICES ASSUME NEW i \in DOMAIN entries
               PROVE  \E x \in Fqdn, k \in 1..(Len(entries) + 1) : Obj(i).name = NameOf(x, k)
    BY <1>1
  <2>1. QED
    BY <1>2, <1>3, <1>4
<1>8. QED
  BY <1>1, <1>4, <1>6, <1>7

(* The plan of a firewall, when it has all the data.                       *)
LEMMA PlanOfFirewall ==
    ASSUME NEW fw \in Firewall, NEW u \in Upload, NEW zone, NEW faults, NEW entries \in Seq(FqdnEntry),
           Len(entries) <= Len(u.rows)
    PROVE  LET pl  == _plan_fqdn_firewall(fw, entries, zone, faults)
               cov == search_fqdn_rules(fw, Fqdns(entries), faults).covered
           IN  /\ {o.name : o \in pl.objs} \subseteq ObjectName
               /\ pl.package # NoPackage /\ ~pl.degraded =>
                    /\ pl.package \in device_pkgs(fw)
                    /\ \A o, p \in pl.objs : o.name = p.name => o = p
                    /\ \A i \in DOMAIN entries :
                         \/ \E o \in pl.objs : o.value = entries[i].fqdn /\ o.name \in pl.members
                         \/ entries[i].fqdn \in cov /\ exact_match_name(entries[i].fqdn) \in pl.members
                    /\ \A i \in DOMAIN entries :
                         entries[i].fqdn \in {o.value : o \in pl.objs} => entries[i].svc \subseteq pl.svc
<1> DEFINE pl == _plan_fqdn_firewall(fw, entries, zone, faults)
           found == search_fqdn_rules(fw, Fqdns(entries), faults)
           cov == found.covered
           new == {e \in {entries[i] : i \in DOMAIN entries} : e.fqdn \notin cov}
           uncovered == Kept(entries, new)
<1>1. /\ uncovered \in Seq(FqdnEntry) /\ Len(uncovered) <= Len(u.rows) /\ Len(uncovered) \in Nat /\ Len(u.rows) \in Nat
      /\ \A i \in DOMAIN entries : entries[i].fqdn \notin cov => \E k \in DOMAIN uncovered : uncovered[k] = entries[i]
      /\ \A k \in DOMAIN uncovered : uncovered[k] \in new
  <2>1. /\ uncovered \in Seq(FqdnEntry \cap new) /\ Len(uncovered) <= Len(entries)
        /\ \A j \in DOMAIN entries : entries[j] \in new => \E k \in DOMAIN uncovered : uncovered[k] = entries[j]
    <3> HIDE DEF new
    <3>1. QED
      BY KeptIs
  <2>2. \A k \in DOMAIN uncovered : uncovered[k] \in FqdnEntry \cap new
    <3> HIDE DEF uncovered, new
    <3>1. QED
      BY <2>1, ElementOfSeq, LenProperties
  <2>3. Len(u.rows) \in Nat
    BY FqdnAssumption, LenProperties
  <2>4. Len(uncovered) \in Nat /\ DOMAIN uncovered = 1..Len(uncovered) /\ uncovered \in Seq(FqdnEntry)
    <3> HIDE DEF uncovered, new
    <3>1. Len(uncovered) \in Nat /\ DOMAIN uncovered = 1..Len(uncovered) /\ uncovered = [k \in 1..Len(uncovered) |-> uncovered[k]]
      BY <2>1, LenProperties
    <3>2. QED
      BY <2>2, <3>1
  <2>5. Len(entries) \in Nat
    BY LenProperties
  <2> HIDE DEF uncovered, cov
  <2>6. QED
    BY <2>1, <2>2, <2>3, <2>4, <2>5
<1>2. /\ \A o, p \in proposed_objects(uncovered) : o.name = p.name => o = p
      /\ \A k \in DOMAIN uncovered : \E o \in proposed_objects(uncovered) : o.value = uncovered[k].fqdn
      /\ \A o \in proposed_objects(uncovered) : \E k \in DOMAIN uncovered : o.value = uncovered[k].fqdn
      /\ \A o \in proposed_objects(uncovered) : o.name \in ObjectName
  <2> HIDE DEF uncovered
  <2>1. \A x \in Fqdn, k \in 1..(Len(uncovered) + 1) : NameOf(x, k) \in ObjectName
    BY <1>1 DEF ObjectName
  <2>2. \A o \in proposed_objects(uncovered) :
           \E x \in Fqdn, k \in 1..(Len(uncovered) + 1) : o.name = NameOf(x, k)
    BY <1>1, ObjectsAreNamed
  <2>3. \A o \in proposed_objects(uncovered) : o.name \in ObjectName
    BY <2>1, <2>2
  <2>4. \A o, p \in proposed_objects(uncovered) : o.name = p.name => o = p
    BY <1>1, ObjectsAreNamed
  <2>5. \A k \in DOMAIN uncovered : \E o \in proposed_objects(uncovered) : o.value = uncovered[k].fqdn
    BY <1>1, ObjectsAreNamed
  <2>6. \A o \in proposed_objects(uncovered) : \E k \in DOMAIN uncovered : o.value = uncovered[k].fqdn
    BY <1>1, ObjectsAreNamed
  <2>7. QED
    BY <2>3, <2>4, <2>5, <2>6
<1>3. \/ pl.objs = {} /\ pl.package = NoPackage
      \/ /\ pl.objs = proposed_objects(uncovered)
         /\ pl.members = all_member_names(uncovered, cov)
         /\ pl.svc = (IF uncovered = <<>> THEN {AllServices} ELSE Services(uncovered))
         /\ pl.package = target_package(fw, faults)
         /\ ~pl.degraded => uncovered # <<>>
  <2> HIDE DEF uncovered
  <2>1. pl = LET degraded == faults.snapshot = "degraded" \/ found.degraded
                 coverage  == IF cov = {} THEN "new_rule" ELSE "partial_coverage"
             IN  IF zone = "UNKNOWN" THEN Without("unknown_no_action", FALSE)
                 ELSE IF faults.snapshot = "error" THEN Without("error", TRUE)
                 ELSE IF ~degraded /\ uncovered = <<>>
                 THEN [Without(Verdict(zone, "already_covered"), FALSE) EXCEPT !.coverage = "already_covered"]
                 ELSE [verdict  |-> Verdict(zone, coverage),
                       coverage |-> coverage,
                       degraded |-> degraded,
                       objs     |-> proposed_objects(uncovered),
                       members  |-> all_member_names(uncovered, cov),
                       svc      |-> IF uncovered = <<>> THEN {AllServices} ELSE Services(uncovered),
                       package  |-> target_package(fw, faults),
                       partial  |-> IF coverage = "partial_coverage" THEN found.partial ELSE {}]
    BY DEF _plan_fqdn_firewall, uncovered
  <2> HIDE DEF pl, found
  <2>2. \A v, d : Without(v, d).objs = {} /\ Without(v, d).package = NoPackage
    BY DEF Without
  <2>3. \A v : LET r == [Without(v, FALSE) EXCEPT !.coverage = "already_covered"]
               IN  r.objs = {} /\ r.package = NoPackage
    BY DEF Without
  <2>4. QED
    BY <2>1, <2>2, <2>3
<1> HIDE DEF pl
<1>4. {o.name : o \in pl.objs} \subseteq ObjectName
  BY <1>2, <1>3
<1>5. ASSUME pl.package # NoPackage, ~pl.degraded
      PROVE  /\ pl.package \in device_pkgs(fw)
             /\ \A o, p \in pl.objs : o.name = p.name => o = p
             /\ \A i \in DOMAIN entries :
                  \/ \E o \in pl.objs : o.value = entries[i].fqdn /\ o.name \in pl.members
                  \/ entries[i].fqdn \in cov /\ exact_match_name(entries[i].fqdn) \in pl.members
             /\ \A i \in DOMAIN entries :
                  entries[i].fqdn \in {o.value : o \in pl.objs} => entries[i].svc \subseteq pl.svc
  <2>1. /\ pl.objs = proposed_objects(uncovered)
        /\ pl.members = all_member_names(uncovered, cov)
        /\ pl.svc = Services(uncovered)
        /\ pl.package = target_package(fw, faults)
    BY <1>3, <1>5
  <2>2. pl.package \in device_pkgs(fw)
    <3>1. Installed[fw] \in Seq(device_pkgs(fw))
      BY FqdnAssumption DEF device_pkgs, package_targets_device
    <3>2. Installed[fw] # <<>> => Installed[fw][1] \in device_pkgs(fw)
      BY <3>1
    <3>3. QED
      BY <2>1, <3>2, <1>5 DEF target_package
  <2> HIDE DEF uncovered
  <2>3. ASSUME NEW i \in DOMAIN entries, entries[i].fqdn \notin cov
        PROVE  \E o \in pl.objs : o.value = entries[i].fqdn /\ o.name \in pl.members
    <3>1. PICK k \in DOMAIN uncovered : uncovered[k] = entries[i]
      BY <1>1, <2>3
    <3>2. PICK o \in proposed_objects(uncovered) : o.value = uncovered[k].fqdn
      BY <1>2
    <3>3. QED
      BY <2>1, <3>1, <3>2 DEF all_member_names
  <2>4. ASSUME NEW i \in DOMAIN entries, entries[i].fqdn \in cov
        PROVE  exact_match_name(entries[i].fqdn) \in pl.members
    BY <2>1, <2>4 DEF all_member_names
  <2>5. ASSUME NEW i \in DOMAIN entries, entries[i].fqdn \in {o.value : o \in pl.objs}
        PROVE  entries[i].svc \subseteq pl.svc
    <3>1. PICK k \in DOMAIN uncovered : uncovered[k].fqdn = entries[i].fqdn
      BY <1>2, <2>1, <2>5
    <3>2. entries[i].fqdn \notin cov
      BY <1>1, <3>1
    <3>3. PICK j \in DOMAIN uncovered : uncovered[j] = entries[i]
      BY <1>1, <3>2
    <3>4. QED
      BY <2>1, <3>3 DEF Services
  <2>6. \A o, p \in pl.objs : o.name = p.name => o = p
    BY <1>2, <2>1
  <2> HIDE DEF cov
  <2>7. QED
    BY <2>2, <2>3, <2>4, <2>5, <2>6
<1>6. QED
  BY <1>4, <1>5 DEF pl

(* The steps.  A new request: plans without degradation, whose names are   *)
(* all free, write none of the objects they rely on.                       *)
LEMMA PlannedStep ==
    ASSUME FqdnIInv, NEW u \in Upload, NEW z, NEW faults, rr_ai_assist_fqdn(u, z, faults)
    PROVE  FqdnIInv'
<1> DEFINE entries == parse_fqdn_rows(u.rows)
           plans == plan_fqdn_change(u, entries, z, faults)
           verdict == IF u.named THEN "ALLOWED" ELSE z
<1>1. /\ request' = [group |-> u.group, entries |-> entries] /\ per_firewall' = plans
      /\ applied' = {} /\ objects' = objects /\ groups' = groups /\ rules' = rules
      /\ exact' = \A fw \in Firewall : ~plans[fw].degraded /\ \A o \in plans[fw].objs : o.name \notin Objects
  BY DEF rr_ai_assist_fqdn
<1>2. entries \in Seq(FqdnEntry) /\ Len(entries) <= Len(u.rows)
  BY EntriesAreTyped
<1>3. \A i \in DOMAIN entries : entries[i].fqdn \in Fqdn
  <2> HIDE DEF entries
  <2>1. \A i \in DOMAIN entries : entries[i] \in FqdnEntry
    BY <1>2, ElementOfSeq, LenProperties
  <2>2. QED
    BY <2>1 DEF FqdnEntry
<1>4. /\ DOMAIN plans = Firewall \cup {BadSpec}
      /\ \A s \in Firewall \cup {BadSpec} :
           \/ plans[s].objs = {} /\ plans[s].package = NoPackage
           \/ s \in Firewall /\ plans[s] = _plan_fqdn_firewall(s, entries, verdict, faults)
  <2> HIDE DEF entries
  <2>1. plans = [s \in Firewall \cup {BadSpec} |->
                  IF s = BadSpec THEN Without("error", TRUE)
                  ELSE IF verdict = "unavailable" THEN Without("unknown_no_action", TRUE)
                  ELSE _plan_fqdn_firewall(s, entries, verdict, faults)]
    BY DEF plan_fqdn_change
  <2> HIDE DEF plans, verdict
  <2>2. \A v, d : Without(v, d).objs = {} /\ Without(v, d).package = NoPackage
    BY DEF Without
  <2>3. QED
    BY <2>1, <2>2
<1> HIDE DEF entries, plans, verdict
<1>5. \A s \in Firewall \cup {BadSpec} : {o.name : o \in plans[s].objs} \subseteq ObjectName
  <2> SUFFICES ASSUME NEW s \in Firewall \cup {BadSpec} PROVE {o.name : o \in plans[s].objs} \subseteq ObjectName
    OBVIOUS
  <2>1. CASE plans[s].objs = {}
    BY <2>1
  <2>2. CASE s \in Firewall /\ plans[s] = _plan_fqdn_firewall(s, entries, verdict, faults)
    BY <2>2, <1>2, PlanOfFirewall
  <2>3. QED
    BY <1>4, <2>1, <2>2
<1>6. FqdnTypes'
  BY <1>1, <1>4, <1>5 DEF FqdnIInv, FqdnTypes, Objects, Groups
<1>7. PICK E : E = entries
  OBVIOUS
<1>8. PICK P : P = plans
  OBVIOUS
<1>9. request'.entries = E /\ request'.group = u.group /\ per_firewall' = P
  BY <1>1, <1>7, <1>8
<1>10. ASSUME exact', NEW fw \in Firewall, P[fw].package # NoPackage
       PROVE  /\ P[fw].package \in device_pkgs(fw)
              /\ \A o, p \in P[fw].objs : o.name = p.name => o = p
              /\ \A i \in DOMAIN E : Reaches(P[fw], E[i].fqdn)'
              /\ \A i \in DOMAIN E : E[i].fqdn \in {o.value : o \in P[fw].objs} => E[i].svc \subseteq P[fw].svc
  <2> DEFINE cov == search_fqdn_rules(fw, Fqdns(entries), faults).covered
  <2>1. P[fw] = _plan_fqdn_firewall(fw, entries, verdict, faults) /\ ~P[fw].degraded
    BY <1>1, <1>4, <1>8, <1>10
  <2>2. /\ P[fw].package \in device_pkgs(fw)
        /\ \A o, p \in P[fw].objs : o.name = p.name => o = p
        /\ \A i \in DOMAIN entries :
             \/ \E o \in P[fw].objs : o.value = entries[i].fqdn /\ o.name \in P[fw].members
             \/ entries[i].fqdn \in cov /\ exact_match_name(entries[i].fqdn) \in P[fw].members
        /\ \A i \in DOMAIN entries :
             entries[i].fqdn \in {o.value : o \in P[fw].objs} => entries[i].svc \subseteq P[fw].svc
    BY <2>1, <1>2, <1>10, PlanOfFirewall
  <2>3. ASSUME NEW i \in DOMAIN E PROVE Reaches(P[fw], E[i].fqdn)'
    <3>1. CASE \E o \in P[fw].objs : o.value = E[i].fqdn /\ o.name \in P[fw].members
      BY <3>1 DEF Reaches
    <3>2. CASE E[i].fqdn \in cov /\ exact_match_name(E[i].fqdn) \in P[fw].members
      <4>1. Fqdns(entries) \subseteq Fqdn
        BY <1>3 DEF Fqdns
      <4>2. exact_match_name(E[i].fqdn) \in Objects /\ objects[exact_match_name(E[i].fqdn)] = E[i].fqdn
        BY <3>2, <4>1, CoveredHasObject
      <4>3. PICK n : n = exact_match_name(E[i].fqdn)
        OBVIOUS
      <4>4. n \in P[fw].members /\ n \in Objects /\ objects[n] = E[i].fqdn
        BY <3>2, <4>2, <4>3
      <4>5. \A g \in Firewall : \A o \in P[g].objs : o.name # n
        BY <1>1, <1>8, <1>10, <4>4
      <4>6. WrittenNames' = UNION {{o.name : o \in P[g].objs} : g \in Firewall}
        BY <1>9 DEF WrittenNames
      <4>7. n \notin WrittenNames'
        BY <4>5, <4>6
      <4>8. Objects' = Objects /\ objects' = objects
        BY <1>1 DEF Objects
      <4>9. QED
        BY <4>4, <4>7, <4>8 DEF Reaches
    <3>3. QED
      BY <1>7, <2>2, <3>1, <3>2
  <2>4. QED
    BY <1>7, <2>2, <2>3
<1>11. ASSUME exact', NEW fw \in Firewall PROVE PlanReaches(fw)'
  BY <1>9, <1>10, <1>11 DEF PlanReaches, Entries, device_pkgs, package_targets_device
<1>12. DOMAIN per_firewall' = Firewall \cup {BadSpec}
  BY <1>1, <1>4
<1>13. \A i \in DOMAIN Entries' : Entries'[i].fqdn \in Fqdn
  BY <1>3, <1>7, <1>9 DEF Entries
<1>14. request'.group \notin ObjectName \cup DOMAIN InitialObjects
  BY <1>9, FqdnAssumption
<1>15. QED
  BY <1>1, <1>6, <1>11, <1>12, <1>13, <1>14 DEF FqdnIInv

(* Implementing a plan writes its objects, and no other plan's.            *)
LEMMA WrittenIs ==
    ASSUME NEW objs, \A o, p \in objs : o.name = p.name => o = p
    PROVE  /\ DOMAIN Written(objs) = Objects \cup {o.name : o \in objs}
           /\ \A o \in objs : Written(objs)[o.name] = o.value
           /\ \A n \in Objects \ {o.name : o \in objs} : Written(objs)[n] = objects[n]
<1>1. DOMAIN Written(objs) = Objects \cup {o.name : o \in objs}
  BY DEF Written
<1>2. ASSUME NEW o \in objs PROVE Written(objs)[o.name] = o.value
  <2>1. (CHOOSE p \in objs : p.name = o.name) = o
    OBVIOUS
  <2>2. Written(objs)[o.name] = (CHOOSE p \in objs : p.name = o.name).value
    BY DEF Written
  <2>3. QED
    BY <2>1, <2>2
<1>3. ASSUME NEW n \in Objects \ {o.name : o \in objs} PROVE Written(objs)[n] = objects[n]
  BY DEF Written
<1>4. QED
  BY <1>1, <1>2, <1>3

LEMMA ImplementedStep ==
    ASSUME FqdnIInv, NEW fw \in Firewall, ImplementFqdn(fw)
    PROVE  FqdnIInv'
<1> DEFINE new == {[accept |-> TRUE, enabled |-> TRUE, dst |-> {request.group}, svc |-> per_firewall[fw].svc]}
<1>1. PICK pl, gr : pl = per_firewall[fw] /\ gr = request.group
  OBVIOUS
<1>2. /\ fw \in DOMAIN per_firewall /\ pl.package # NoPackage
      /\ objects' = Written(pl.objs)
      /\ groups' = [g \in Groups \cup {gr} |-> IF g = gr THEN pl.members ELSE groups[g]]
      /\ rules' = [rules EXCEPT ![pl.package] = @ \cup new]
      /\ applied' = applied \cup {fw}
      /\ request' = request /\ per_firewall' = per_firewall /\ exact' = exact
  BY <1>1 DEF ImplementFqdn, Pending
<1>3. new = {NewFqdnRule(pl)}
  BY <1>1 DEF NewFqdnRule
<1>4. DOMAIN objects' = Objects \cup {o.name : o \in pl.objs} /\ DOMAIN groups' = Groups \cup {gr}
  BY <1>2 DEF Written
<1>5. FqdnTypes'
  <2>1. IsFiniteSet(Groups')
    <3>1. IsFiniteSet(Groups) /\ IsFiniteSet({gr})
      BY FS_Singleton DEF FqdnIInv, FqdnTypes
    <3>2. IsFiniteSet(Groups \cup {gr})
      BY <3>1, FS_Union
    <3>3. QED
      BY <3>2, <1>4 DEF Groups
  <2>2. rules' = [p \in Package |-> rules'[p]]
    <3>1. rules = [p \in Package |-> rules[p]]
      BY DEF FqdnIInv, FqdnTypes
    <3> HIDE DEF new
    <3>2. QED
      BY <3>1, <1>2
  <2>3. Objects' \subseteq ObjectName \cup DOMAIN InitialObjects
    BY <1>1, <1>2, <1>4 DEF FqdnIInv, FqdnTypes, Objects
  <2>4. applied' \subseteq Firewall
    BY <1>2 DEF FqdnIInv, FqdnTypes
  <2>5. \A g \in DOMAIN per_firewall' : {o.name : o \in per_firewall'[g].objs} \subseteq ObjectName
    BY <1>2 DEF FqdnIInv, FqdnTypes
  <2>6. QED
    BY <2>1, <2>2, <2>3, <2>4, <2>5 DEF FqdnTypes
<1>6. CASE ~exact
  BY <1>2, <1>5, <1>6 DEF FqdnIInv
<1>7. CASE exact
  <2>1. /\ DOMAIN per_firewall = Firewall \cup {BadSpec}
        /\ \A i \in DOMAIN Entries : Entries[i].fqdn \in Fqdn
        /\ gr \notin ObjectName \cup DOMAIN InitialObjects
        /\ \A g \in Firewall : PlanReaches(g)
        /\ \A g \in applied : /\ per_firewall[g].package # NoPackage
                              /\ NewFqdnRule(per_firewall[g]) \in rules[per_firewall[g].package]
    BY <1>1, <1>7 DEF FqdnIInv
  <2>2. Entries' = Entries /\ WrittenNames' = WrittenNames /\ request.group' = gr
    BY <1>1, <1>2 DEF Entries, WrittenNames
  <2>3. /\ pl.package \in device_pkgs(fw)
        /\ \A o, p \in pl.objs : o.name = p.name => o = p
        /\ \A i \in DOMAIN Entries : Reaches(pl, Entries[i].fqdn)
    BY <1>1, <1>2, <2>1 DEF PlanReaches
  <2>4. /\ Objects' = Objects \cup {o.name : o \in pl.objs}
        /\ \A o \in pl.objs : objects'[o.name] = o.value
        /\ \A n \in Objects \ {o.name : o \in pl.objs} : objects'[n] = objects[n]
    BY <1>2, <2>3, WrittenIs DEF Objects
  <2>5. {o.name : o \in pl.objs} \subseteq WrittenNames
    BY <1>1 DEF WrittenNames
  <2>6. \A n \in Objects \ WrittenNames : n \in Objects' /\ objects'[n] = objects[n]
    BY <2>4, <2>5
  <2>7. ASSUME NEW q, NEW x, Reaches(q, x) PROVE Reaches(q, x)'
    BY <2>2, <2>6, <2>7 DEF Reaches
  <2>8. ASSUME NEW g \in Firewall PROVE PlanReaches(g)'
    <3>1. PICK q : q = per_firewall[g]
      OBVIOUS
    <3>2. PICK E : E = Entries
      OBVIOUS
    <3>3. per_firewall'[g] = q /\ Entries' = E
      BY <1>2, <2>2, <3>1, <3>2
    <3>4. q.package # NoPackage =>
            /\ q.package \in device_pkgs(g)
            /\ \A o, p \in q.objs : o.name = p.name => o = p
            /\ \A i \in DOMAIN E : Reaches(q, E[i].fqdn)
            /\ \A i \in DOMAIN E : E[i].fqdn \in {o.value : o \in q.objs} => E[i].svc \subseteq q.svc
      BY <2>1, <3>1, <3>2 DEF PlanReaches
    <3>5. q.package # NoPackage => \A i \in DOMAIN E : Reaches(q, E[i].fqdn)'
      BY <2>7, <3>4
    <3>6. QED
      BY <3>3, <3>4, <3>5 DEF PlanReaches, device_pkgs, package_targets_device
  <2>9. GroupReaches'
    <3>1. PICK E : E = Entries
      OBVIOUS
    <3>2. groups'[gr] = pl.members /\ gr \in Groups'
      BY <1>2, <1>4 DEF Groups
    <3>3. ASSUME NEW i \in DOMAIN E
          PROVE  \E n \in pl.members \cap Objects' : objects'[n] = E[i].fqdn
      <4>1. Reaches(pl, E[i].fqdn)
        BY <2>3, <3>1
      <4>2. CASE \E o \in pl.objs : o.value = E[i].fqdn /\ o.name \in pl.members
        BY <4>2, <2>4
      <4>3. CASE \E n \in pl.members \cap Objects : n \notin WrittenNames /\ objects[n] = E[i].fqdn
        BY <4>3, <2>6
      <4>4. QED
        BY <4>1, <4>2, <4>3 DEF Reaches
    <3>4. Entries' = E
      BY <2>2, <3>1
    <3>5. QED
      BY <2>2, <3>2, <3>3, <3>4 DEF GroupReaches
  <2>10. ASSUME NEW g \in applied'
         PROVE  /\ per_firewall'[g].package # NoPackage
                /\ NewFqdnRule(per_firewall[g])' \in rules'[per_firewall'[g].package]
    <3>1. PICK q : q = per_firewall[g]
      OBVIOUS
    <3>2. NewFqdnRule(per_firewall[g])' = NewFqdnRule(q)
      BY <1>2, <3>1 DEF NewFqdnRule
    <3>3. DOMAIN rules = Package /\ pl.package \in Package
      BY <2>3 DEF FqdnIInv, FqdnTypes, device_pkgs
    <3> HIDE DEF new
    <3>4. \A p \in Package : rules[p] \subseteq rules'[p]
      BY <1>2, <3>3
    <3>5. q.package # NoPackage /\ NewFqdnRule(q) \in rules'[q.package]
      <4>1. CASE g = fw
        BY <4>1, <1>1, <1>2, <1>3, <3>1, <3>3
      <4>2. CASE g # fw
        <5>1. g \in applied /\ g \in Firewall
          BY <1>2, <4>2 DEF FqdnIInv, FqdnTypes
        <5>2. q.package # NoPackage /\ NewFqdnRule(q) \in rules[q.package]
          BY <2>1, <3>1, <5>1
        <5>3. q.package \in Package
          BY <2>1, <3>1, <5>1, <5>2 DEF PlanReaches, device_pkgs
        <5>4. QED
          BY <3>4, <5>2, <5>3
      <4>3. QED
        BY <4>1, <4>2
    <3>6. per_firewall'[g] = q
      BY <1>2, <3>1
    <3>7. QED
      BY <3>2, <3>5, <3>6
  <2>11. \A i \in DOMAIN Entries' : Entries'[i].fqdn \in Fqdn
    BY <2>1, <2>2
  <2>12. DOMAIN per_firewall' = Firewall \cup {BadSpec} /\ gr \notin ObjectName \cup DOMAIN InitialObjects
    BY <1>2, <2>1
  <2>13. QED
    BY <1>5, <2>2, <2>8, <2>9, <2>10, <2>11, <2>12 DEF FqdnIInv
<1>8. QED
  BY <1>6, <1>7

LEMMA AppendedStep ==
    ASSUME FqdnIInv, NEW fw \in Firewall, AppendFqdns(fw)
    PROVE  FqdnIInv'
<1>1. PICK pl : pl = per_firewall[fw]
  OBVIOUS
<1>2. /\ fw \in DOMAIN per_firewall /\ ~exact' /\ objects' = Written(pl.objs)
      /\ DOMAIN groups' = Groups /\ applied' = applied \cup {fw}
      /\ rules' = rules /\ request' = request /\ per_firewall' = per_firewall
  BY <1>1 DEF AppendFqdns, Pending
<1>3. DOMAIN objects' = Objects \cup {o.name : o \in pl.objs}
  BY <1>2 DEF Written
<1>4. QED
  BY <1>1, <1>2, <1>3 DEF FqdnIInv, FqdnTypes, Objects, Groups

LEMMA FqdnStep == FqdnIInv /\ [FqdnNext]_fqdnVars => FqdnIInv'
<1> SUFFICES ASSUME FqdnIInv, [FqdnNext]_fqdnVars PROVE FqdnIInv'
  OBVIOUS
<1>1. ASSUME NEW p \in Package, NEW rule \in AllowRule, AdminAllows(p, rule) PROVE FqdnIInv'
  BY <1>1 DEF AdminAllows, FqdnIInv, FqdnTypes, Objects, Groups
<1>2. ASSUME NEW u \in Upload, NEW z, NEW f \in FqdnFault, rr_ai_assist_fqdn(u, z, f) PROVE FqdnIInv'
  BY <1>2, PlannedStep
<1>3. ASSUME NEW fw \in Firewall, ImplementFqdn(fw) PROVE FqdnIInv'
  BY <1>3, ImplementedStep
<1>4. ASSUME NEW fw \in Firewall, AppendFqdns(fw) PROVE FqdnIInv'
  BY <1>4, AppendedStep
<1>5. CASE UNCHANGED fqdnVars
  BY <1>5 DEF fqdnVars, FqdnIInv, FqdnTypes, PlanReaches, Reaches, WrittenNames, Entries, GroupReaches,
      NewFqdnRule, Objects, Groups, device_pkgs, package_targets_device
<1>6. QED
  BY <1>1, <1>2, <1>3, <1>4, <1>5 DEF FqdnNext

(* What is in the group of an enabled rule is found by a search.           *)
LEMMA FqdnIInvCovers == FqdnIInv => ImplementedPlansCover
<1> SUFFICES ASSUME FqdnIInv, exact, NEW fw \in applied
             PROVE  /\ Fqdns(Entries) \subseteq search_fqdn_rules(fw, Fqdns(Entries), Fetched).covered
                    /\ \A i \in DOMAIN Entries :
                         Entries[i].fqdn \in {o.value : o \in per_firewall[fw].objs} =>
                           \A s \in Entries[i].svc : \E p \in device_pkgs(fw) : \E r \in rules[p] :
                             r.accept /\ r.enabled /\ Entries[i].fqdn \in Reached(r) /\ s \in r.svc
  BY DEF ImplementedPlansCover, Entries
<1> DEFINE pl == per_firewall[fw]
           rule == NewFqdnRule(pl)
           gr == request.group
<1>1. /\ pl.package # NoPackage /\ rule \in rules[pl.package] /\ PlanReaches(fw) /\ GroupReaches
      /\ gr \notin Objects /\ IsFiniteSet(Groups)
      /\ \A i \in DOMAIN Entries : Entries[i].fqdn \in Fqdn
  BY DEF FqdnIInv, FqdnTypes
<1>2. pl.package \in device_pkgs(fw)
  BY <1>1 DEF PlanReaches
<1>3. groups[gr] \subseteq Subtree(gr)
  BY <1>1, MembersAreBelow DEF GroupReaches
<1>4. rule.accept /\ rule.enabled /\ rule.dst = {gr} /\ rule.svc = pl.svc
  BY DEF NewFqdnRule
<1> HIDE DEF rule
<1>5. Reached(rule) = fqdns_for_ref(gr)
  BY <1>4 DEF Reached
<1>6. ASSUME NEW i \in DOMAIN Entries PROVE Entries[i].fqdn \in Reached(rule)
  <2>1. PICK n \in groups[gr] \cap Objects : objects[n] = Entries[i].fqdn
    BY <1>1 DEF GroupReaches
  <2>2. Entries[i].fqdn # NoFqdn
    BY <1>1, FqdnAssumption
  <2>3. QED
    BY <1>3, <1>5, <2>1, <2>2 DEF fqdns_for_ref
<1>7. ASSUME NEW i \in DOMAIN Entries
      PROVE  Entries[i].fqdn \in search_fqdn_rules(fw, Fqdns(Entries), Fetched).covered
  <2>1. Entries[i].fqdn \in Fqdns(Entries)
    BY DEF Fqdns
  <2>2. search_fqdn_rules(fw, Fqdns(Entries), Fetched).covered =
          {f \in Fqdns(Entries) : \E p \in device_pkgs(fw) : \E r \in rules[p] : r.enabled /\ r.accept /\ f \in Reached(r)}
    BY DEF search_fqdn_rules, Fetched
  <2>3. QED
    BY <1>1, <1>2, <1>4, <1>6, <2>1, <2>2
<1>8. \A i \in DOMAIN Entries : Entries[i].fqdn \in {o.value : o \in pl.objs} => Entries[i].svc \subseteq rule.svc
  BY <1>1, <1>4 DEF PlanReaches
<1>9. QED
  BY <1>1, <1>2, <1>4, <1>6, <1>7, <1>8 DEF Fqdns

(* Once the plan of a firewall is implemented, with complete data and no   *)
(* names taken, every name of the request is found by the search of        *)
(* search_fqdn_rules, whichever other plans were pasted before or after:   *)
(* proposed_objects names each object once, no plan writes an object that  *)
(* another relies on, and the group holds one for each name.               *)
THEOREM ImplementedCover == FqdnSpec => []ImplementedPlansCover
<1>1. FqdnInit => FqdnIInv
  BY FqdnInitial
<1>2. FqdnIInv /\ [FqdnNext]_fqdnVars => FqdnIInv'
  BY FqdnStep
<1>3. FqdnIInv => ImplementedPlansCover
  BY FqdnIInvCovers
<1>4. QED
  BY <1>1, <1>2, <1>3, PTL DEF FqdnSpec
=============================================================================
