------------------------ MODULE RouteSnapshotProofs -------------------------
(***************************************************************************)
(* Proofs about RouteSnapshot and the operators of Routing, for all rules, *)
(* paths, hosts and clients and every number of rules.                     *)
(***************************************************************************)
EXTENDS RouteSnapshot, SequenceTheorems, FiniteSetTheorems,
        WellFoundedInduction, TLAPS

-----------------------------------------------------------------------------
(* The library's operators.                                                *)

\* Min and Max of FiniteSetsExt, on a set of positions: least and greatest.
LEMMA MinMax ==
    ASSUME NEW n \in Nat, NEW S \in SUBSET (1..n), S # {}
    PROVE  /\ Min(S) \in S /\ \A m \in S : Min(S) <= m
           /\ Max(S) \in S /\ \A m \in S : m <= Max(S)
<1>1. \A m \in S : m \in Nat /\ m <= n /\ n - m \in Nat
  OBVIOUS
<1>2. \E least \in S : \A m \in S : least <= m
  <2>1. PICK least \in S : \A m \in S : ~(<<m, least>> \in OpToRel(<, Nat))
    BY <1>1, NatLessThanWellFounded, WFMin, S \subseteq Nat, Zenon
  <2>2. \A m \in S : ~(m < least)
    BY <1>1, <2>1 DEF OpToRel
  <2> QED BY <1>1, <2>2
<1>3. \E greatest \in S : \A m \in S : m <= greatest
  <2> DEFINE D == {n - m : m \in S}
  <2>1. D \subseteq Nat /\ D # {}
    BY <1>1
  <2>2. PICK least \in D : \A d \in D : ~(<<d, least>> \in OpToRel(<, Nat))
    <3> HIDE DEF D
    <3> QED BY <2>1, NatLessThanWellFounded, WFMin, Zenon
  <2>3. PICK greatest \in S : least = n - greatest
    OBVIOUS
  <2>4. \A m \in S : ~(n - m < n - greatest)
    BY <1>1, <2>2, <2>3 DEF OpToRel
  <2> QED BY <1>1, <2>4
<1> QED BY <1>2, <1>3 DEF Min, Max

\* IsPrefix of SequencesExt, on sequences.
LEMMA PrefixMeaning ==
    ASSUME NEW S, NEW T, NEW s \in Seq(S), NEW t \in Seq(T)
    PROVE  IsPrefix(s, t) <=> Len(s) <= Len(t) /\ s = SubSeq(t, 1, Len(s))
BY SubSeqFull DEF IsPrefix

\* SetToSeqs of SequencesExt: each element at one place.
LEMMA OrdersOf ==
    ASSUME NEW S, IsFiniteSet(S), NEW order \in SetToSeqs(S)
    PROVE  /\ Cardinality(S) \in Nat /\ order \in [1..Cardinality(S) -> S]
           /\ \A i, j \in 1..Cardinality(S) : order[i] = order[j] => i = j
           /\ S = {order[i] : i \in 1..Cardinality(S)}
<1> DEFINE D == 1..Cardinality(S)
<1>1. Cardinality(S) \in Nat /\ IsFiniteSet(D) /\ Cardinality(D) = Cardinality(S)
  BY FS_CardinalityType, FS_Interval
<1>2. order \in [D -> S] /\ \A i, j \in D : order[i] = order[j] => i = j
  BY DEF SetToSeqs
<1>3. order \in Injection(D, S)
  BY <1>2 DEF Injection, IsInjective
<1> HIDE DEF D
<1>4. order \in Surjection(D, S)
  BY <1>1, <1>3, FS_Injection
<1>5. S = {order[i] : i \in D}
  BY <1>2, <1>4 DEF Surjection
<1> QED BY <1>1, <1>2, <1>5 DEF D

-----------------------------------------------------------------------------
(* The nodes and the lists of a trie.                                      *)

\* The segments of a path, and the name of a rule's node, are sequences.
LEMMA SegmentsAreTexts ==
    ASSUME NEW path, path \in Seq(Range(path))
    PROVE  SplitPath(path) \in Seq(Range(SplitPath(path)))
<1> DEFINE P == {n \in DOMAIN path : path[n] # "/"}
           k == Cardinality(P)
<1>1. CASE path = <<>> \/ path[1] # "/"
  <2>1. SplitPath(path) = <<>>
    BY <1>1 DEF SplitPath
  <2> QED BY <2>1, EmptySeq
<1>2. CASE ~(path = <<>> \/ path[1] # "/")
  <2>1. k \in Nat
    <3>1. DOMAIN path = 1..Len(path) /\ Len(path) \in Nat
      BY LenProperties
    <3>2. IsFiniteSet(DOMAIN path) /\ P \in SUBSET DOMAIN path
      BY <3>1, FS_Interval
    <3> HIDE DEF P
    <3> QED BY <3>2, FS_Subset, FS_CardinalityType
  <2>2. SplitPath(path) = At(path, P)
    BY <1>2 DEF SplitPath
  <2> HIDE DEF P
  <2>3. PICK f : SplitPath(path) = [i \in 1..k |-> f[i]]
    <3>1. At(path, P) = [i \in 1..k |-> At(path, P)[i]]
      BY DEF At
    <3> QED BY <2>2, <3>1
  <2> HIDE DEF k
  <2>4. SplitPath(path) \in [1..k -> Range(SplitPath(path))]
    BY <2>3 DEF Range
  <2> QED BY <2>1, <2>4
<1> QED BY <1>1, <1>2

LEMMA NodesAreTexts ==
    ASSUME NEW rule \in RuleChoices
    PROVE  NodeOf(rule) \in Seq(Range(NodeOf(rule)))
<1>1. CASE rule.path = <<"/">>
  BY <1>1 DEF NodeOf
<1>2. CASE rule.path # <<"/">>
  BY <1>2, SegmentsAreTexts, TextsAssumption DEF NodeOf
<1> QED BY <1>1, <1>2

\* What the list of a node is to be: a pointer to each of the node's own rules,
\* by priority.
IsListOf(list, own) ==
    /\ list \in Seq([gen : {gen}, index : own])
    /\ own = {list[k].index : k \in DOMAIN list}
    /\ \A j, k \in DOMAIN list : list[j].index = list[k].index => j = k
    /\ \A j, k \in DOMAIN list :
          j < k => rules[list[j].index].priority <= rules[list[k].index].priority

\* A list is empty when there is nothing to list.
LEMMA EmptyLists ==
    ASSUME NEW own, NEW list, IsListOf(list, own)
    PROVE  list = <<>> <=> own = {}
<1>1. list \in Seq([gen : {gen}, index : own]) /\ own = {list[k].index : k \in DOMAIN list}
  BY DEF IsListOf
<1>2. DOMAIN list = 1..Len(list) /\ Len(list) \in Nat
  BY <1>1, LenProperties
<1>3. list = <<>> <=> Len(list) = 0
  BY <1>1, EmptySeq
<1>4. Len(list) = 0 <=> DOMAIN list = {}
  BY <1>2
<1> QED BY <1>1, <1>3, <1>4

LEMMA SortedListsMeaning ==
    ASSUME NEW own, IsFiniteSet(own), NEW list \in SortedLists(rules, gen, own)
    PROVE  IsListOf(list, own)
<1> DEFINE n == Cardinality(own)
<1>1. PICK order \in SetToSeqs(own) :
        /\ \A j, k \in DOMAIN order :
              j < k => rules[order[j]].priority <= rules[order[k]].priority
        /\ list = [k \in DOMAIN order |-> [gen |-> gen, index |-> order[k]]]
  BY DEF SortedLists
<1>2. /\ n \in Nat /\ order \in [1..n -> own]
      /\ \A i, j \in 1..n : order[i] = order[j] => i = j
      /\ own = {order[i] : i \in 1..n}
  BY OrdersOf
<1> HIDE DEF n
<1>3. DOMAIN list = 1..n /\ \A k \in 1..n : list[k] = [gen |-> gen, index |-> order[k]]
  BY <1>1, <1>2
<1>4. \A k \in 1..n : list[k] \in [gen : {gen}, index : own] /\ list[k].index = order[k]
  BY <1>2, <1>3
<1>5. list \in Seq([gen : {gen}, index : own])
  <2> DEFINE Pointers == [gen : {gen}, index : own]
  <2>1. \A k \in 1..n : list[k] \in Pointers
    BY <1>4
  <2>2. list = [k \in 1..n |-> list[k]]
    BY <1>1, <1>2
  <2> HIDE DEF Pointers
  <2>3. list \in [1..n -> Pointers]
    BY <2>1, <2>2
  <2>4. list \in Seq(Pointers)
    BY <1>2, <2>3
  <2> QED BY <2>4 DEF Pointers
<1> QED BY <1>1, <1>2, <1>3, <1>4, <1>5 DEF IsListOf

\* A trie that finalize() may build has a node for each prefix of a rule's, and
\* each node lists its own rules.
LEMMA TrieShape ==
    ASSUME rules \in Seq(RuleChoices), NEW t \in Tries(rules, gen)
    PROVE  /\ <<>> \in DOMAIN t
           /\ \A i \in DOMAIN rules : Prefixes(NodeOf(rules[i])) \subseteq DOMAIN t
           /\ \A i \in DOMAIN rules : NodeOf(rules[i]) \in DOMAIN t
           /\ \A node \in DOMAIN t : IsListOf(t[node], Own(rules, node))
<1> DEFINE ends  == {<<>>} \cup {NodeOf(rules[i]) : i \in DOMAIN rules}
           nodes == UNION {Prefixes(node) : node \in ends}
           lists == UNION {SortedLists(rules, gen, Own(rules, node)) : node \in ends}
           Holds(list, own) == own = {list[k].index : k \in DOMAIN list}
<1>1. PICK pick \in [ends -> lists] :
        /\ \A node \in ends : Holds(pick[node], Own(rules, node))
        /\ t = [node \in nodes |-> IF node \in ends THEN pick[node] ELSE <<>>]
  BY Zenon DEF Tries
<1>2. \A node : IsFiniteSet(Own(rules, node))
  <2>1. IsFiniteSet(DOMAIN rules)
    BY LenProperties, FS_Interval
  <2> QED BY <2>1, FS_Subset DEF Own
<1>3. ASSUME NEW node \in ends PROVE node \in Prefixes(node)
  <2>1. \A i \in DOMAIN rules : rules[i] \in RuleChoices
    BY LenProperties, ElementOfSeq
  <2>2. node \in Seq(Range(node))
    <3>1. <<>> \in Seq(Range(<<>>))
      BY EmptySeq
    <3> QED BY <2>1, <3>1, NodesAreTexts
  <2>3. node = SubSeq(node, 1, Len(node)) /\ Len(node) \in 0..Len(node)
    BY <2>2, SubSeqFull, LenProperties
  <2> QED BY <2>3 DEF Prefixes
<1>4. DOMAIN t = nodes /\ ends \subseteq nodes
  BY <1>1, <1>3
<1>5. ASSUME NEW node \in DOMAIN t
      PROVE  IsListOf(t[node], Own(rules, node))
  <2>1. CASE node \in ends
    <3>1. t[node] = pick[node] /\ Holds(t[node], Own(rules, node))
      BY <1>1, <1>4, <2>1
    <3>2. PICK other \in ends : t[node] \in SortedLists(rules, gen, Own(rules, other))
      BY <1>1, <2>1, <3>1
    <3>3. IsListOf(t[node], Own(rules, other))
      BY <1>2, <3>2, SortedListsMeaning
    <3>4. Own(rules, node) = Own(rules, other)
      BY <3>1, <3>3 DEF IsListOf
    <3> QED BY <3>3, <3>4
  <2>2. CASE node \notin ends
    <3>1. t[node] = <<>>
      BY <1>1, <1>4, <2>2
    <3>2. Own(rules, node) = {}
      BY <2>2 DEF Own
    <3> QED BY <3>1, <3>2 DEF IsListOf
  <2> QED BY <2>1, <2>2
<1> QED BY <1>4, <1>5

-----------------------------------------------------------------------------
(* The inductive invariant.                                                *)

\* Once the loader is ready, the trie is one that finalize() builds from the
\* rules where they are now.
TrieIsBuilt == Ready => trie \in Tries(rules, gen)

\* The inductive invariant.
IInv == RoutesTypeOK /\ TrieIsBuilt

\* A new snapshot has neither rules nor trie.
LEMMA InitIInv == RoutesInit => IInv
<1> SUFFICES ASSUME RoutesInit PROVE IInv
  OBVIOUS
<1>1. rules = <<>> /\ gen = 0 /\ built = 0 /\ trie = NoTrie /\ Len(rules) = 0
  BY EmptySeq DEF RoutesInit
<1>2. RoutesTypeOK
  BY <1>1, EmptySeq, MaxRulesAssumption DEF RoutesTypeOK, NoTrie
<1>3. TrieIsBuilt
  BY <1>1 DEF TrieIsBuilt, Ready, NoTrie
<1> QED BY <1>2, <1>3 DEF IInv

\* add_rule leaves the pointers within the vector, and the loader not ready.
LEMMA AddRuleIInv ==
    ASSUME IInv, NEW rule \in RuleChoices, AddRule(rule)
    PROVE  IInv'
<1>1. /\ rules' \in Seq(RuleChoices) /\ Len(rules') = Len(rules) + 1
      /\ Len(rules) \in Nat /\ DOMAIN rules = 1..Len(rules)
      /\ DOMAIN rules' = 1..Len(rules) + 1
  BY AppendProperties, LenProperties DEF IInv, RoutesTypeOK, AddRule
<1>2. RoutesTypeOK'
  <2>1. rules' \in Seq(RuleChoices) /\ Len(rules') <= MaxRules
    BY <1>1, MaxRulesAssumption DEF AddRule
  <2>2. gen \in 0..Len(rules) /\ gen' \in {gen, gen + 1} /\ gen' \in 0..Len(rules')
    BY <1>1 DEF IInv, RoutesTypeOK, AddRule
  <2>3. built' \in 0..Len(rules')
    BY <1>1 DEF IInv, RoutesTypeOK, AddRule
  <2>4. ASSUME NEW node \in DOMAIN trie', NEW k \in DOMAIN trie'[node]
        PROVE  trie'[node][k].gen \in 0..gen' /\ trie'[node][k].index \in DOMAIN rules'
    <3>1. trie[node][k].gen \in 0..gen /\ trie[node][k].index \in DOMAIN rules
      BY <2>4 DEF IInv, RoutesTypeOK, AddRule
    <3>2. trie'[node][k] = trie[node][k]
      BY DEF AddRule
    <3> QED BY <1>1, <2>2, <3>1, <3>2
  <2> QED BY <2>1, <2>2, <2>3, <2>4 DEF RoutesTypeOK
<1>3. ~Ready'
  BY <1>1 DEF IInv, RoutesTypeOK, AddRule, Ready
<1> QED BY <1>2, <1>3 DEF IInv, TrieIsBuilt

\* finalize takes every pointer anew.
LEMMA FinalizeIInv == IInv /\ Finalize => IInv'
<1> SUFFICES ASSUME IInv, Finalize PROVE IInv'
  OBVIOUS
<1>1. /\ rules' = rules /\ gen' = gen /\ built' = Len(rules)
      /\ trie' \in Tries(rules, gen) /\ rules \in Seq(RuleChoices)
      /\ Len(rules) \in Nat /\ gen \in 0..Len(rules)
  BY LenProperties DEF Finalize, IInv, RoutesTypeOK
<1>2. PICK t \in Tries(rules, gen) : trie' = t
  BY <1>1
<1>3. ASSUME NEW node \in DOMAIN t, NEW k \in DOMAIN t[node]
      PROVE  t[node][k].gen \in 0..gen /\ t[node][k].index \in DOMAIN rules
  <2>1. t[node] \in Seq([gen : {gen}, index : Own(rules, node)])
    BY <1>1, TrieShape DEF IsListOf
  <2>2. t[node][k] \in [gen : {gen}, index : Own(rules, node)]
    BY <1>3, <2>1, LenProperties, ElementOfSeq
  <2>3. t[node][k].gen = gen /\ t[node][k].index \in DOMAIN rules
    BY <2>2 DEF Own
  <2> QED BY <1>1, <2>3
<1>4. RoutesTypeOK'
  BY <1>1, <1>2, <1>3 DEF IInv, RoutesTypeOK
<1>5. TrieIsBuilt'
  BY <1>1 DEF TrieIsBuilt
<1> QED BY <1>4, <1>5 DEF IInv

\* Every reachable state satisfies the inductive invariant.
THEOREM Invariant == RoutesSpec => []IInv
<1>1. IInv /\ [RoutesNext]_routesVars => IInv'
  <2> SUFFICES ASSUME IInv, [RoutesNext]_routesVars PROVE IInv'
    OBVIOUS
  <2>1. CASE Finalize
    BY <2>1, FinalizeIInv
  <2>2. ASSUME NEW rule \in RuleChoices, AddRule(rule) PROVE IInv'
    BY <2>2, AddRuleIInv
  <2>3. CASE UNCHANGED routesVars
    BY <2>3 DEF routesVars, IInv, RoutesTypeOK, TrieIsBuilt, Ready
  <2> QED BY <2>1, <2>2, <2>3 DEF RoutesNext
<1> QED BY <1>1, InitIInv, PTL DEF RoutesSpec

\* Every variable keeps its type, and no pointer of the trie, not even one of a
\* finalize() that later add_rule() calls have outdated, has an index past the
\* end of rules_.
THEOREM TypeCorrect == RoutesSpec => []RoutesTypeOK
<1>1. IInv => RoutesTypeOK
  BY DEF IInv
<1> QED BY <1>1, Invariant, PTL

\* In the states in which the loader may publish, the pointers of the trie all
\* point into the buffer that rules_ uses now, and each rule hangs exactly once
\* in the list of its own node: finalize() builds all of them anew.
THEOREM TrieIsCurrentCorrect == RoutesSpec => []TrieIsCurrent
<1>1. IInv => TrieIsCurrent
  <2> SUFFICES ASSUME IInv, Ready PROVE TrieIsCurrent
    BY DEF TrieIsCurrent
  <2>1. trie \in Tries(rules, gen) /\ rules \in Seq(RuleChoices)
    BY DEF IInv, TrieIsBuilt, RoutesTypeOK
  <2>2. \A node \in DOMAIN trie : IsListOf(trie[node], Own(rules, node))
    BY <2>1, TrieShape
  <2>3. ASSUME NEW node \in DOMAIN trie, NEW k \in DOMAIN trie[node]
        PROVE  trie[node][k].gen = gen /\ node = NodeOf(rules[trie[node][k].index])
    <3>1. trie[node][k] \in [gen : {gen}, index : Own(rules, node)]
      <4>1. trie[node] \in Seq([gen : {gen}, index : Own(rules, node)])
        BY <2>2 DEF IsListOf
      <4> QED BY <2>3, <4>1, LenProperties, ElementOfSeq
    <3> QED BY <3>1 DEF Own
  <2>4. ASSUME NEW i \in DOMAIN rules
        PROVE  \E k \in DOMAIN trie[NodeOf(rules[i])] :
                  \A m \in DOMAIN trie[NodeOf(rules[i])] :
                     trie[NodeOf(rules[i])][m].index = i <=> m = k
    <3>1. IsListOf(trie[NodeOf(rules[i])], Own(rules, NodeOf(rules[i])))
      BY <2>1, <2>2, TrieShape
    <3>2. i \in Own(rules, NodeOf(rules[i]))
      BY DEF Own
    <3> DEFINE list == trie[NodeOf(rules[i])]
    <3>3. PICK k \in DOMAIN list : i = list[k].index
      BY <3>1, <3>2 DEF IsListOf
    <3>4. \A m \in DOMAIN list : list[m].index = i <=> m = k
      BY <3>1, <3>3 DEF IsListOf
    <3> QED BY <3>4
  <2> QED BY <2>3, <2>4 DEF TrieIsCurrent
<1> QED BY <1>1, Invariant, PTL

-----------------------------------------------------------------------------
(* The match.                                                              *)

\* What match() is to answer if own are the rules to ask: an accepting one of
\* the best priority, and otherwise the refusal by one of the worst.
IsAnswer(result, own, host, ip) ==
    LET takers == {i \in own : Verdict(rules[i], host, ip) = "kNone"}
    IN  IF takers # {}
        THEN /\ result.matched /\ result.rule \in takers
             /\ \A j \in takers : rules[result.rule].priority <= rules[j].priority
        ELSE /\ ~result.matched
             /\ IF own = {} THEN result.reason = "kPathMismatch"
                ELSE \E i \in own :
                        /\ \A j \in own : rules[j].priority <= rules[i].priority
                        /\ result.reason = Verdict(rules[i], host, ip)

\* The filter gives that answer from a list of these rules by priority.
LEMMA FilterMeaning ==
    ASSUME rules \in Seq(RuleChoices), NEW own \in SUBSET DOMAIN rules,
           NEW list, IsListOf(list, own), NEW host, NEW ip
    PROVE  IsAnswer(Filter(rules, list, host, ip), own, host, ip)
<1> DEFINE Asked(i) == Verdict(rules[i], host, ip)
           takers   == {i \in own : Asked(i) = "kNone"}
           taken    == {k \in DOMAIN list : Asked(list[k].index) = "kNone"}
           result   == Filter(rules, list, host, ip)
<1>1. /\ Len(list) \in Nat /\ DOMAIN list = 1..Len(list)
      /\ \A k \in DOMAIN list : list[k].index \in own
      /\ \A i \in own : \E k \in DOMAIN list : i = list[k].index
  BY LenProperties DEF IsListOf
<1>2. \A i \in own : rules[i].priority \in Int
  <2>1. \A i \in DOMAIN rules : rules[i] \in RuleChoices
    BY LenProperties, ElementOfSeq
  <2> QED BY <2>1, TextsAssumption
<1>3. \A j, k \in DOMAIN list : j <= k =>
         rules[list[j].index].priority <= rules[list[k].index].priority
  <2> SUFFICES ASSUME NEW j \in DOMAIN list, NEW k \in DOMAIN list, j <= k
               PROVE  rules[list[j].index].priority <= rules[list[k].index].priority
    OBVIOUS
  <2>1. j < k \/ j = k
    BY <1>1
  <2>2. CASE j < k
    BY <2>2 DEF IsListOf
  <2>3. CASE j = k
    <3>1. list[k].index \in own
      BY <1>1
    <3>2. rules[list[k].index].priority \in Int
      BY <1>2, <3>1
    <3> QED BY <2>3, <3>2
  <2> QED BY <2>1, <2>2, <2>3
<1>4. result = CASE taken # {} -> Matched(list[Min(taken)].index)
                 [] taken = {} /\ list = <<>> -> Failed("kPathMismatch")
                 [] OTHER -> Failed(Asked(Last(list).index))
  BY DEF Filter
<1>5. taken = {} <=> takers = {}
  BY <1>1
<1> HIDE DEF Asked, result, IsAnswer
<1>6. CASE taken # {}
  <2>1. Min(taken) \in taken /\ \A k \in taken : Min(taken) <= k
    BY <1>1, <1>6, MinMax
  <2>2. result.matched /\ result.rule = list[Min(taken)].index
    BY <1>4, <1>6 DEF Matched
  <2>3. result.rule \in takers
    BY <1>1, <2>1, <2>2
  <2>4. \A j \in takers : rules[result.rule].priority <= rules[j].priority
    BY <1>1, <1>3, <2>1, <2>2
  <2> QED BY <1>5, <1>6, <2>2, <2>3, <2>4 DEF Asked, result, IsAnswer
<1>7. CASE taken = {} /\ own = {}
  <2>1. list = <<>>
    <3>1. DOMAIN list = {} /\ list \in Seq([gen : {gen}, index : own])
      BY <1>1, <1>7 DEF IsListOf
    <3> QED BY <1>1, <3>1, EmptySeq
  <2>2. ~result.matched /\ result.reason = "kPathMismatch"
    BY <1>4, <1>7, <2>1 DEF Failed
  <2> QED BY <1>5, <1>7, <2>2 DEF Asked, result, IsAnswer
<1>8. CASE taken = {} /\ own # {}
  <2>1. list # <<>> /\ Len(list) \in DOMAIN list
    BY <1>1, <1>8
  <2>2. ~result.matched /\ result.reason = Asked(list[Len(list)].index)
    BY <1>4, <1>8, <2>1 DEF Failed, Last
  <2>3. \A j \in own : rules[j].priority <= rules[list[Len(list)].index].priority
    BY <1>1, <1>3, <2>1
  <2> QED BY <1>1, <1>5, <1>8, <2>1, <2>2, <2>3 DEF Asked, result, IsAnswer
<1> QED BY <1>6, <1>7, <1>8

\* The first n segments of a path, and the first of these.
LEMMA StepProperties ==
    ASSUME NEW S, NEW segments \in Seq(S), NEW n \in 1..Len(segments)
    PROVE  /\ Step(segments, n) \in Seq(S) /\ Len(Step(segments, n)) = n
           /\ Step(segments, n) # <<>>
           /\ \A k \in 1..n : Step(segments, k) \in Prefixes(Step(segments, n))
<1>1. Len(segments) \in Nat /\ \A i \in 1..Len(segments) : segments[i] \in S
  BY LenProperties, ElementOfSeq
<1>2. /\ Step(segments, n) \in Seq(S) /\ Len(Step(segments, n)) = n
      /\ \A i \in 1..n : Step(segments, n)[i] = segments[i]
  BY <1>1, SubSeqProperties DEF Step
<1>3. ASSUME NEW k \in 1..n
      PROVE  Step(segments, k) = SubSeq(Step(segments, n), 1, k)
  BY <1>1, <1>2, <1>3 DEF Step
<1> QED BY <1>1, <1>2, <1>3, EmptySeq DEF Prefixes

\* The rules among those that cover a path whose prefix is longest.
Longest(path) ==
    {i \in Covering(path) : \A j \in Covering(path) :
        Len(NodeOf(rules[j])) <= Len(NodeOf(rules[i]))}

\* A rule covers a path with segments if its node is some steps along them.
LEMMA CoveringMeaning ==
    ASSUME rules \in Seq(RuleChoices), NEW path \in Paths, SplitPath(path) # <<>>
    PROVE  \A i \in DOMAIN rules : i \in Covering(path) <=>
              \E n \in 1..Len(SplitPath(path)) :
                 NodeOf(rules[i]) = Step(SplitPath(path), n)
<1> SUFFICES ASSUME NEW i \in DOMAIN rules
             PROVE  i \in Covering(path) <=>
                       \E n \in 1..Len(SplitPath(path)) :
                          NodeOf(rules[i]) = Step(SplitPath(path), n)
  OBVIOUS
<1> DEFINE segments == SplitPath(path)
           node     == NodeOf(rules[i])
<1>1. segments \in Seq(Range(segments)) /\ node \in Seq(Range(node))
  <2>1. rules[i] \in RuleChoices
    BY LenProperties, ElementOfSeq
  <2> QED BY <2>1, SegmentsAreTexts, NodesAreTexts, TextsAssumption
<1>2. i \in Covering(path) <=> IsPrefix(node, segments) /\ node # <<>>
  BY DEF Covering
<1>3. IsPrefix(node, segments) <=>
         Len(node) <= Len(segments) /\ node = SubSeq(segments, 1, Len(node))
  <2> HIDE DEF node, segments
  <2> QED BY <1>1, PrefixMeaning
<1> HIDE DEF node, segments
<1>4. /\ Len(segments) \in Nat /\ Len(node) \in Nat
      /\ node = <<>> <=> Len(node) = 0
  BY <1>1, EmptySeq, LenProperties
<1>5. ASSUME i \in Covering(path)
      PROVE  \E n \in 1..Len(segments) : node = Step(segments, n)
  <2>1. Len(node) \in 1..Len(segments) /\ node = SubSeq(segments, 1, Len(node))
    BY <1>2, <1>3, <1>4, <1>5
  <2> QED BY <2>1 DEF Step
<1>6. ASSUME NEW n \in 1..Len(segments), node = Step(segments, n)
      PROVE  i \in Covering(path)
  <2>1. Len(node) = n /\ node # <<>>
    BY <1>1, <1>6, StepProperties
  <2>2. Len(node) <= Len(segments) /\ node = SubSeq(segments, 1, Len(node))
    BY <1>4, <1>6, <2>1 DEF Step
  <2> QED BY <1>2, <1>3, <2>1, <2>2
<1> QED BY <1>5, <1>6 DEF node, segments

\* The walk ends at the list of the rules with the longest covering prefix.
LEMMA WalkFindsLongest ==
    ASSUME IInv, Ready, NEW path \in Paths
    PROVE  IsListOf(FindLongestPrefixRules(trie, path), Longest(path))
<1> DEFINE segments == SplitPath(path)
           holders  == {n \in Reached(trie, segments) : trie[Step(segments, n)] # <<>>}
           found    == FindLongestPrefixRules(trie, path)
<1>1. rules \in Seq(RuleChoices) /\ segments \in Seq(Range(segments))
      /\ Len(segments) \in Nat
  BY SegmentsAreTexts, TextsAssumption, LenProperties DEF IInv, RoutesTypeOK
<1>2. found = CASE <<>> \notin DOMAIN trie -> <<>>
                [] <<>> \in DOMAIN trie /\ segments = <<>> -> trie[<<>>]
                [] OTHER -> IF holders = {} THEN <<>>
                                            ELSE trie[Step(segments, Max(holders))]
  BY DEF FindLongestPrefixRules
<1> HIDE DEF found
<1>3. IsListOf(<<>>, {})
  BY EmptySeq DEF IsListOf
<1>4. trie \in Tries(rules, gen)
  BY DEF IInv, TrieIsBuilt
<1>5. IsListOf(found, Longest(path))
  <2>1. /\ <<>> \in DOMAIN trie
        /\ \A i \in DOMAIN rules : Prefixes(NodeOf(rules[i])) \subseteq DOMAIN trie
        /\ \A node \in DOMAIN trie : IsListOf(trie[node], Own(rules, node))
    BY <1>1, <1>4, TrieShape
  <2>2. CASE segments = <<>>
    <3>1. found = trie[<<>>]
      BY <1>2, <2>1, <2>2
    <3>2. \A i \in Covering(path) : NodeOf(rules[i]) = <<>>
      BY <2>2 DEF Covering
    <3>3. Covering(path) = Own(rules, <<>>)
      <4>1. IsPrefix(<<>>, <<>>)
        BY DEF IsPrefix
      <4> QED BY <2>2, <4>1 DEF Covering, Own
    <3>4. Longest(path) = Covering(path)
      <4>1. Len(<<>>) <= Len(<<>>)
        OBVIOUS
      <4> QED BY <3>2, <4>1, Zenon DEF Longest
    <3> QED BY <2>1, <3>1, <3>3, <3>4
  <2>3. CASE segments # <<>>
    <3>1. holders = {n \in 1..Len(segments) :
                        \E i \in DOMAIN rules : NodeOf(rules[i]) = Step(segments, n)}
      <4>1. ASSUME NEW n \in holders
            PROVE  \E i \in DOMAIN rules : NodeOf(rules[i]) = Step(segments, n)
        <5>1. /\ Step(segments, n) \in DOMAIN trie /\ trie[Step(segments, n)] # <<>>
              /\ IsListOf(trie[Step(segments, n)], Own(rules, Step(segments, n)))
          <6>1. n \in 1..n
            BY <1>1 DEF Reached
          <6> QED BY <2>1, <6>1 DEF Reached
        <5>2. Own(rules, Step(segments, n)) # {}
          BY <5>1, EmptyLists
        <5> QED BY <5>2 DEF Own
      <4>2. ASSUME NEW n \in 1..Len(segments), NEW i \in DOMAIN rules,
                   NodeOf(rules[i]) = Step(segments, n)
            PROVE  n \in holders
        <5>1. \A k \in 1..n : Step(segments, k) \in DOMAIN trie
          <6> HIDE DEF segments
          <6> QED BY <1>1, <2>1, <4>2, StepProperties
        <5>2. n \in Reached(trie, segments) /\ Step(segments, n) \in DOMAIN trie
          BY <1>1, <5>1 DEF Reached
        <5>3. i \in Own(rules, Step(segments, n))
          BY <4>2 DEF Own
        <5>4. trie[Step(segments, n)] # <<>>
          BY <2>1, <5>2, <5>3, EmptyLists
        <5> QED BY <5>2, <5>4
      <4> QED BY <4>1, <4>2 DEF Reached
    <3>2. \A i \in DOMAIN rules : i \in Covering(path) <=>
             \E n \in holders : NodeOf(rules[i]) = Step(segments, n)
      BY <1>1, <2>3, <3>1, CoveringMeaning
    <3>3. \A n \in holders : n \in 1..Len(segments) /\ Len(Step(segments, n)) = n
      <4> HIDE DEF segments
      <4> QED BY <1>1, <3>1, StepProperties
    <3> HIDE DEF holders, segments
    <3>4. CASE holders = {}
      <4>1. found = <<>>
        BY <1>2, <2>1, <2>3, <3>4
      <4>2. Longest(path) = {}
        BY <3>2, <3>4 DEF Longest, Covering
      <4> QED BY <1>3, <4>1, <4>2
    <3>5. CASE holders # {}
      <4> DEFINE deepest == Max(holders)
                 node    == Step(segments, deepest)
      <4>1. deepest \in holders /\ \A n \in holders : n <= deepest
        BY <1>1, <3>3, <3>5, MinMax
      <4>2. found = trie[node] /\ node \in DOMAIN trie
        <5>1. deepest \in 1..deepest
          BY <1>1, <3>3, <4>1
        <5>2. node \in DOMAIN trie
          BY <4>1, <5>1 DEF holders, Reached
        <5> QED BY <1>2, <2>1, <2>3, <3>5, <5>2
      <4>3. ASSUME NEW i \in Own(rules, node) PROVE i \in Longest(path)
        <5>1. i \in Covering(path) /\ Len(NodeOf(rules[i])) = deepest
          BY <3>2, <3>3, <4>1 DEF Own
        <5>2. \A j \in Covering(path) : Len(NodeOf(rules[j])) <= deepest
          BY <3>2, <3>3, <4>1 DEF Covering
        <5> QED BY <5>1, <5>2 DEF Longest
      <4>4. ASSUME NEW i \in Longest(path) PROVE i \in Own(rules, node)
        <5>1. i \in DOMAIN rules /\ i \in Covering(path)
          BY DEF Longest, Covering
        <5>2. PICK n \in holders : NodeOf(rules[i]) = Step(segments, n)
          BY <3>2, <5>1
        <5>3. PICK j \in DOMAIN rules : NodeOf(rules[j]) = node
          BY <3>1, <4>1
        <5>4. j \in Covering(path) /\ Len(NodeOf(rules[j])) = deepest
          BY <3>2, <3>3, <4>1, <5>3
        <5>5. deepest <= n /\ n <= deepest
          BY <3>3, <4>1, <5>2, <5>4 DEF Longest
        <5>6. n = deepest
          BY <1>1, <3>3, <4>1, <5>5
        <5> QED BY <5>1, <5>2, <5>6 DEF Own
      <4>5. Longest(path) = Own(rules, node)
        BY <4>3, <4>4
      <4> QED BY <2>1, <4>2, <4>5
    <3> QED BY <3>4, <3>5
  <2> QED BY <2>2, <2>3
<1> QED BY <1>5 DEF found

\* Whatever the order in which rules were added and equal priorities sorted, a
\* snapshot that may be published answers match() from the rules themselves:
\* among those with the longest covering prefix it takes an accepting one of the
\* best priority, and otherwise its reason is a refusal by one of the worst, or
\* a path mismatch if there is none.
THEOREM MatchIsBestCorrect == RoutesSpec => []MatchIsBest
<1>1. IInv => MatchIsBest
  <2> SUFFICES ASSUME IInv, Ready PROVE MatchIsBest
    BY DEF MatchIsBest
  <2>1. ASSUME NEW path \in Paths, NEW host \in Hosts, NEW ip \in ClientIps
        PROVE  IsAnswer(Filter(rules, FindLongestPrefixRules(trie, path), host, ip),
                        Longest(path), host, ip)
    <3>1. Longest(path) \in SUBSET DOMAIN rules /\ rules \in Seq(RuleChoices)
      BY DEF Longest, Covering, IInv, RoutesTypeOK
    <3> QED BY <3>1, WalkFindsLongest, FilterMeaning
  <2> QED BY <2>1, Zenon DEF MatchIsBest, Longest, IsAnswer
<1> QED BY <1>1, Invariant, PTL
=============================================================================
