----------------------------- MODULE RuleLookup -----------------------------
(***************************************************************************)
(* The rule lookup (rule_lookup.py): which cached rules meet a searched    *)
(* source, destination and port, and how each of their values relates to   *)
(* what was searched.                                                      *)
(*                                                                         *)
(* An IPv4 network is the set of addresses of a block of 2^k addresses     *)
(* that begins at a multiple of 2^k; the address space has 2^Bits of them. *)
(* Searches by name pattern only compare names and are left to tests.      *)
(***************************************************************************)
EXTENDS Integers, Sequences, FiniteSets

CONSTANTS
    Bits,         \* length of an address
    Ports,        \* the highest port number
    LookupRule,   \* the cached rules: records with src, dst, service, negate_src, negate_dst
    LookupName,   \* the names of address objects
    LookupAll,    \* the names all and any
    NetworksOf,   \* the networks a name resolves to, {} for none
    RangesOf,     \* the port ranges a service resolves to, {} for none
    NotSearched,  \* a field that was left empty
    MaxNetworks, MaxRanges,   \* bounds
    NoLabel       \* None: the value does not match

VARIABLES
    src, dst, port,    \* what is searched: networks, networks, alternatives of ranges
    rule_nets, rule_ranges   \* what a value of a rule resolves to

lookupVars == <<src, dst, port, rule_nets, rule_ranges>>

Address == 0..(2^Bits - 1)
Block == {{a \in Address : a \div 2^k = i} : k \in 0..Bits, i \in Address} \ {{}}

(* "ip" stands for every protocol, and "icmp" has no ports.                *)
PortRange == {r \in [protocol : {"tcp", "udp", "icmp", "ip"}, start : 0..Ports, end : 0..Ports] :
                r.start <= r.end /\ (r.protocol \in {"icmp", "ip"} => r.start = 0 /\ r.end = Ports)}
HasPorts(r) == r.protocol \notin {"icmp", "ip"}
Searchable  == {r \in PortRange : HasPorts(r)}

-----------------------------------------------------------------------------
(* Comparison                                                              *)

(* ipaddress.collapse_addresses: the largest blocks inside the union.      *)
collapse_addresses(nets) ==
    LET inside == {b \in Block : b \subseteq UNION nets}
    IN  {b \in inside : \A c \in inside : b \subseteq c => b = c}

(* The labels from best to worst; a name pattern that fits is "name".      *)
_RANK == [exact |-> 0, name |-> 0, broader |-> 1, narrower |-> 2, overlap |-> 3]

_best(labels) ==
    LET found == labels \ {NoLabel}
    IN  IF found = {} THEN NoLabel
        ELSE CHOOSE l \in found : \A m \in found : _RANK[l] <= _RANK[m]

Label(exact, broader, narrower, overlap) ==
    CASE exact -> "exact" [] ~exact /\ broader -> "broader"
      [] ~exact /\ ~broader /\ narrower -> "narrower"
      [] ~exact /\ ~broader /\ ~narrower /\ overlap -> "overlap"
      [] OTHER -> NoLabel

compare_networks(search, rule) ==
    LET s == collapse_addresses(search)
        r == collapse_addresses(rule)
    IN  IF rule = {} THEN NoLabel
        ELSE Label(s = r,
                   \A x \in s : \E y \in r : x \subseteq y,
                   \A y \in r : \E x \in s : y \subseteq x,
                   \E x \in s, y \in r : x \cap y # {})

_proto_compatible(p, q) == p.protocol = "ip" \/ q.protocol = "ip" \/ p.protocol = q.protocol

contains(p, q) ==
    /\ _proto_compatible(p, q)
    /\ \/ p.protocol = "ip"
       \/ q.protocol # "ip" /\ p.start <= q.start /\ q.end <= p.end

overlaps(p, q) ==
    /\ _proto_compatible(p, q)
    /\ p.protocol = "ip" \/ q.protocol = "ip" \/ (p.start <= q.end /\ q.start <= p.end)

compare_ranges(search, rule) ==
    IF rule = {} THEN NoLabel
    ELSE Label(search = rule,
               \A s \in search : \E r \in rule : contains(r, s),
               \A r \in rule : \E s \in search : contains(s, r),
               \E s \in search, r \in rule : overlaps(s, r))

(* _label_service: ICMP and IP ranges are not compared; an IP range makes  *)
(* the service behave like ALL.                                            *)
_label_service(rule, alternatives) ==
    [label    |-> _best({compare_ranges(alt, {r \in rule : HasPorts(r)}) : alt \in alternatives}),
     wildcard |-> \E r \in rule : r.protocol = "ip"]

-----------------------------------------------------------------------------
ASSUME LookupAssumption ==
    /\ Bits \in Nat /\ Ports \in Nat
    /\ NoLabel \notin DOMAIN _RANK
    /\ LookupRule \in Seq([src : SUBSET LookupName, dst : SUBSET LookupName, service : SUBSET DOMAIN RangesOf,
                          negate_src : BOOLEAN, negate_dst : BOOLEAN])
    /\ \A n \in LookupName : NetworksOf[n] \subseteq Block

-----------------------------------------------------------------------------
(* Matching                                                                *)

NoField == [label |-> NoLabel, skipped |-> FALSE]

(* A negated field matches nothing; all and any match nothing either.      *)
_match_addr_field(names, negate, wanted) ==
    IF wanted = NotSearched THEN NoField
    ELSE [label   |-> IF negate THEN NoLabel
                      ELSE _best({compare_networks(wanted, NetworksOf[n]) : n \in names \ LookupAll}),
          skipped |-> negate \/ names \cap LookupAll # {}]

_match_port_field(names, wanted) ==
    IF wanted = NotSearched THEN NoField
    ELSE [label   |-> _best({_label_service(RangesOf[n], wanted).label : n \in names \ LookupAll}),
          skipped |-> \/ names \cap LookupAll # {}
                      \/ \E n \in names \ LookupAll : _label_service(RangesOf[n], wanted).wildcard]

match_rule(rule) ==
    [src  |-> _match_addr_field(rule.src, rule.negate_src, src),
     dst  |-> _match_addr_field(rule.dst, rule.negate_dst, dst),
     port |-> _match_port_field(rule.service, port)]

Meets(m, f) == m[f].label # NoLabel
_score(m) == Cardinality({f \in {"src", "dst", "port"} : Meets(m, f)})

(* search: the rows are the rules that meet the searched source or         *)
(* destination, those with more fields first; a rule that meets only the   *)
(* port is a row when nothing else was searched, else it is counted.       *)
SearchedAddress == src # NotSearched \/ dst # NotSearched

MainRow(m) == IF SearchedAddress THEN Meets(m, "src") \/ Meets(m, "dst") ELSE Meets(m, "port")
PortOnly(m) == SearchedAddress /\ ~MainRow(m) /\ Meets(m, "port")

(* Mutant of search: a rule must meet the source and the destination.      *)
search_both(rules) ==
    LET Match(i) == match_rule(rules[i])
        main == {i \in DOMAIN rules : \A f \in {"src", "dst"} : Meets(Match(i), f)}
    IN  [rows      |-> {<<1 + Cardinality({j \in main : j < i}), rules[i]>> : i \in main},
         port_only |-> {},
         skipped   |-> {}]

search(rules) ==
    LET Match(i) == match_rule(rules[i])
        main == {i \in DOMAIN rules : MainRow(Match(i))}
        Before(i, j) == \/ _score(Match(i)) > _score(Match(j))
                        \/ _score(Match(i)) = _score(Match(j)) /\ i < j
    IN  [rows      |-> {<<1 + Cardinality({j \in main : Before(j, i)}), rules[i]>> : i \in main},
         port_only |-> {rules[i] : i \in {j \in DOMAIN rules : PortOnly(Match(j))}},
         skipped   |-> {rules[i] : i \in {j \in DOMAIN rules :
                                     \E f \in {"src", "dst", "port"} : Match(j)[f].skipped}}]

-----------------------------------------------------------------------------
(* The user fills in the fields of the search one after the other; the     *)
(* objects of the rules are whatever FortiManager has.                     *)

LookupInit ==
    /\ src = NotSearched /\ dst = NotSearched /\ port = NotSearched
    /\ rule_nets = {} /\ rule_ranges = {}

(* parse_ip_query gives one block.                                         *)
parse_ip_query(b) ==
    /\ \/ src' = {b} /\ UNCHANGED dst
       \/ dst' = {b} /\ UNCHANGED src
    /\ UNCHANGED <<port, rule_nets, rule_ranges>>

(* A bare port or range is searched for TCP or UDP; a service by name is   *)
(* the ranges it resolves to.  _validated refuses ICMP and IP.             *)
parse_port_query(text) ==
    /\ port' = IF "protocol" \in DOMAIN text THEN {{text}}
               ELSE {{[protocol |-> p, start |-> text.start, end |-> text.end]} : p \in {"tcp", "udp"}}
    /\ UNCHANGED <<src, dst, rule_nets, rule_ranges>>

Resolve ==
    /\ \/ \E b \in Block : rule_nets' = rule_nets \cup {b} /\ UNCHANGED rule_ranges
       \/ \E r \in PortRange : rule_ranges' = rule_ranges \cup {r} /\ UNCHANGED rule_nets
    /\ UNCHANGED <<src, dst, port>>

(* Bounds: networks are combined with searches for addresses, ranges with  *)
(* searches for ports, a few of each.                                      *)
WithinBounds ==
    /\ Cardinality(rule_nets) <= MaxNetworks /\ Cardinality(rule_ranges) <= MaxRanges
    /\ rule_nets # {} => port = NotSearched /\ rule_ranges = {} /\ dst = NotSearched
    /\ rule_ranges # {} => src = NotSearched /\ dst = NotSearched

PortText == {[start |-> r.start, end |-> r.end] : r \in Searchable} \cup Searchable

LookupNext ==
    /\ \/ \E b \in Block : parse_ip_query(b)
       \/ \E text \in PortText : parse_port_query(text)
       \/ Resolve
    /\ WithinBounds'

LookupSpec == LookupInit /\ [][LookupNext]_lookupVars

-----------------------------------------------------------------------------
(* Properties                                                              *)

(* exact, broader, narrower and overlap say of a network list what the     *)
(* module's documentation says, about the addresses of the lists and not   *)
(* the way they are cut into networks.                                     *)
NetworkLabelsMeanSets ==
    \A wanted \in {src, dst} \ {NotSearched} :
      LET s == UNION wanted
          r == UNION rule_nets
      IN  compare_networks(wanted, rule_nets) =
            CASE rule_nets = {}                 -> NoLabel
              [] rule_nets # {} /\ s = r        -> "exact"
              [] rule_nets # {} /\ s \subseteq r /\ s # r -> "broader"
              [] rule_nets # {} /\ r \subseteq s /\ s # r -> "narrower"
              [] ~(s \subseteq r) /\ ~(r \subseteq s) /\ s \cap r # {} -> "overlap"
              [] OTHER -> NoLabel

PortsOf(rs) == UNION {{<<r.protocol, p>> : p \in r.start..r.end} : r \in {x \in rs : HasPorts(x)}}

(* A service is left out of the answer only if it has no searched port,    *)
(* and called exact or broader only if it has all of them.  (Adjacent      *)
(* ranges are not merged: what two of them contain may be called overlap.) *)
PortLabelsSound ==
    port # NotSearched =>
      LET label == _label_service(rule_ranges, port).label
      IN  /\ (label = NoLabel) <=> \A alt \in port : PortsOf(alt) \cap PortsOf(rule_ranges) = {}
          /\ label \in {"exact", "broader"} => \E alt \in port : PortsOf(alt) \subseteq PortsOf(rule_ranges)
          /\ label = "narrower" => \E alt \in port : PortsOf(rule_ranges) \subseteq PortsOf(alt)

(* The labels of addresses and of services say what they are documented to *)
(* say, about sets of addresses and of ports.                              *)
LabelsMeanSets == NetworkLabelsMeanSets /\ PortLabelsSound

(* The rows of a search: no rule that names a searched address is missing, *)
(* no rule comes before one that meets more of the search, each has a      *)
(* place of its own, and what could match without being shown (all,        *)
(* negated fields) is counted.                                             *)
AddressesOf(names) == UNION {UNION NetworksOf[n] : n \in names \ LookupAll}
RuleNames(rule, f) == IF f = "src" THEN rule.src ELSE rule.dst
Negated(rule, f) == IF f = "src" THEN rule.negate_src ELSE rule.negate_dst
Wanted(f) == IF f = "src" THEN src ELSE dst

SearchMissesNothing ==
    LET found == search(LookupRule)
        shown == {row[2] : row \in found.rows} \cup found.port_only
    IN  /\ \A i \in DOMAIN LookupRule, f \in {"src", "dst"} :
             LET rule == LookupRule[i]
             IN  Wanted(f) # NotSearched =>
                   /\ ~Negated(rule, f) /\ AddressesOf(RuleNames(rule, f)) \cap UNION Wanted(f) # {}
                        => \E row \in found.rows : row[2] = rule
                   /\ Negated(rule, f) \/ RuleNames(rule, f) \cap LookupAll # {} => rule \in found.skipped
        /\ \A x, y \in found.rows : _score(match_rule(x[2])) > _score(match_rule(y[2])) => x[1] < y[1]
        /\ \A x, y \in found.rows : x[1] = y[1] => x = y
        /\ \A i \in DOMAIN LookupRule :
             port # NotSearched /\ Meets(match_rule(LookupRule[i]), "port") => LookupRule[i] \in shown

(* What a search says of a rule is true of it, and no rule is left out.    *)
LookupIsRight == LabelsMeanSets /\ SearchMissesNothing
=============================================================================
