--------------------------- MODULE RouteSnapshot ----------------------------
(***************************************************************************)
(* The build phase of a RouteSnapshot: a loader adds rules and finalizes,  *)
(* perhaps more than once, before it publishes the snapshot.  finalize()   *)
(* takes the addresses of the elements of rules_, and a later push_back    *)
(* may move them: the vector's buffers are numbered, and a pointer names   *)
(* the buffer it points into.  match() changes nothing and is the operator *)
(* Match of Routing.                                                       *)
(***************************************************************************)
EXTENDS Routing

CONSTANTS
    RuleChoices,    \* rules a configuration may hold
    Hosts, Paths, ClientIps,    \* what match() may be asked
    MaxRules        \* bound on the number of rules

ASSUME MaxRulesAssumption == MaxRules \in Nat

\* A path is a text, and a priority a number.
ASSUME TextsAssumption ==
    /\ \A path \in Paths : path \in Seq(Range(path))
    /\ \A rule \in RuleChoices :
          rule.path \in Seq(Range(rule.path)) /\ rule.priority \in Int

VARIABLES
    rules,          \* rules_
    gen,            \* which buffer rules_ uses: each move takes a new one
    trie,           \* root_ and all below it
    built           \* ghost: how many rules the last finalize() saw

routesVars == <<rules, gen, trie, built>>

RoutesInit ==
    /\ rules = <<>>
    /\ gen = 0
    /\ trie = NoTrie
    /\ built = 0

AddRule_Replaces(rule) ==
    /\ Len(rules) < MaxRules
    /\ rules' = <<rule>>
    /\ gen' \in {gen, gen + 1}
    /\ UNCHANGED <<trie, built>>

\* Whether the vector has room for one more is the library's business.
AddRule(rule) ==
    /\ Len(rules) < MaxRules
    /\ rules' = Append(rules, rule)
    /\ gen' \in {gen, gen + 1}
    /\ UNCHANGED <<trie, built>>

Finalize_KeepsRoot ==
    /\ \E new \in Tries(rules, gen) :
          trie' = [node \in DOMAIN trie \cup DOMAIN new |->
                      IF node \in DOMAIN trie THEN trie[node] \o new[node]
                                              ELSE new[node]]
    /\ built' = Len(rules)
    /\ UNCHANGED <<rules, gen>>

\* The old trie is dropped, and every pointer is taken anew.
Finalize ==
    /\ trie' \in Tries(rules, gen)
    /\ built' = Len(rules)
    /\ UNCHANGED <<rules, gen>>

RoutesNext == Finalize \/ \E rule \in RuleChoices : AddRule(rule)

RoutesSpec == RoutesInit /\ [][RoutesNext]_routesVars

-----------------------------------------------------------------------------
(* Properties.                                                             *)

\* Every variable has its type; pointers stay within the vector's length.
RoutesTypeOK ==
    /\ rules \in Seq(RuleChoices) /\ Len(rules) <= MaxRules
    /\ gen \in 0..Len(rules)
    /\ built \in 0..Len(rules)
    /\ \A node \in DOMAIN trie : \A k \in DOMAIN trie[node] :
          /\ trie[node][k].gen \in 0..gen
          /\ trie[node][k].index \in DOMAIN rules

\* The loader keeps to "add rules in the build phase, then finalize": it has
\* called finalize(), and has added no rule since.
Ready == <<>> \in DOMAIN trie /\ built = Len(rules)

\* Whenever the loader may publish, no pointer of the trie dangles and each
\* rule hangs once, at its own node: also after add_rule() has moved the rules
\* under an earlier trie and finalize() was called again.
TrieIsCurrent ==
    Ready =>
        /\ \A node \in DOMAIN trie : \A k \in DOMAIN trie[node] :
              /\ trie[node][k].gen = gen
              /\ node = NodeOf(rules[trie[node][k].index])
        /\ \A i \in DOMAIN rules :
              LET own == trie[NodeOf(rules[i])]
              IN  \E k \in DOMAIN own : \A m \in DOMAIN own :
                      own[m].index = i <=> m = k

\* The rules whose prefix covers the path segment by segment; the root rule
\* covers only the root.
Covering(path) ==
    LET segments == SplitPath(path)
    IN  {i \in DOMAIN rules : LET node == NodeOf(rules[i])
                              IN  /\ IsPrefix(node, segments)
                                  /\ node = <<>> <=> segments = <<>>}

\* What match() is written to do, read off the rules directly, in whatever
\* order they were added and sorted: among those with the longest covering
\* prefix, whatever their hosts, an accepting rule of the best priority is
\* taken; otherwise the reason names a refusal by one of the worst priority, or
\* a path mismatch if there was none to ask.  (What the documents say of the
\* order of the criteria and of addresses is below.)
MatchIsBest ==
    Ready => \A path \in Paths :
        LET covering == Covering(path)
            longest  == {i \in covering : \A j \in covering :
                            Len(NodeOf(rules[j])) <= Len(NodeOf(rules[i]))}
            Beats(i, j) == rules[i].priority <= rules[j].priority
            candidates == FindLongestPrefixRules(trie, path)
        IN  \A host \in Hosts, ip \in ClientIps :
                LET result == Filter(rules, candidates, host, ip)
                    takers == {i \in longest : Verdict(rules[i], host, ip) = "kNone"}
                IN  IF takers # {}
                    THEN /\ result.matched /\ result.rule \in takers
                         /\ \A j \in takers : Beats(result.rule, j)
                    ELSE /\ ~result.matched
                         /\ IF longest = {} THEN result.reason = "kPathMismatch"
                            ELSE \E i \in longest :
                                    /\ \A j \in longest : Beats(j, i)
                                    /\ result.reason = Verdict(rules[i], host, ip)

\* The architecture document, "Host, then the path's longest prefix, then the
\* client's address": when some rule is for the host and covers the path, no
\* rule with a longer prefix makes match() fail because of the host.
HostComesFirst ==
    Ready => \A host \in Hosts, path \in Paths, ip \in ClientIps :
        (\E i \in Covering(path) : HostMatches(host, rules[i].host))
            => Match(rules, trie, host, path, ip).reason # "kHostMismatch"

\* The text of an address up to its n-th dot.
Segments(text, n) ==
    LET upTo == {i \in Dots(text) : Cardinality(Dots(SubSeq(text, 1, i))) <= n}
    IN  IF Cardinality(upTo) < n THEN text ELSE SubSeq(text, 1, Max(upTo) - 1)

\* The comment in ip_in_cidr(), "match the first two segments": a client that a
\* rule admits by a /16 has the network's first two segments.
Cidr16MatchesSegments ==
    Ready => \A host \in Hosts, path \in Paths, ip \in ClientIps :
        LET result == Match(rules, trie, host, path, ip)
            cidrs  == rules[result.rule].cidrs
        IN  result.matched /\ cidrs # {} =>
                \E cidr \in cidrs :
                    /\ IpInCidr(ip, cidr)
                    /\ cidr.len = "16" => Segments(ip, 2) = Segments(cidr.addr, 2)
=============================================================================
