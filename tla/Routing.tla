------------------------------ MODULE Routing -------------------------------
(***************************************************************************)
(* What RouteSnapshot of src/routing/route_snapshot.cpp computes, as       *)
(* operators: splitting a path, the trie that finalize() compiles, the     *)
(* walk to the longest prefix, and the filter by host and client address.  *)
(*                                                                         *)
(* A text (path, host, pattern, address) is a sequence of pieces, cut at   *)
(* every "/" or "." and wherever else the code can cut it: "/a//b" is     *)
(* <<"/", "a", "/", "/", "b">>, and "10.11.0.1" is <<"10", ".", "1", "1",  *)
(* ".", "0", ".", "1">> beside a rule for "10.1.0.0".  In a path, what     *)
(* stands between two slashes is one piece: a segment.  A trie node is     *)
(* named by the segments that lead to it; a trie maps its nodes to their   *)
(* lists of pointers into rules_.                                          *)
(***************************************************************************)
EXTENDS Subsequences, SequencesExt

\* A RouteRule without its target, for which it stands itself.
Rule(host, path, cidrs, priority) ==
    [host |-> host, path |-> path, cidrs |-> cidrs, priority |-> priority]

\* A path without a leading "/" has no segments; empty segments are skipped.
SplitPath(path) ==
    IF path = <<>> \/ path[1] # "/" THEN <<>>
    ELSE At(path, {n \in DOMAIN path : path[n] # "/"})

HostMatches(host, pattern) ==
    \/ pattern = <<"*">>
    \/ /\ IsPrefix(<<"*", ".">>, pattern)
       /\ IsSuffix(SubSeq(pattern, 3, Len(pattern)), host)
    \/ host = pattern

Dots(text) == {i \in DOMAIN text : text[i] = "."}

BeforeLastDot(text) ==
    IF Dots(text) = {} THEN text ELSE SubSeq(text, 1, Max(Dots(text)) - 1)

BeforeFirstDot(text) ==
    IF Dots(text) = {} THEN text ELSE SubSeq(text, 1, Min(Dots(text)) - 1)

\* Prefix comparison on the text of the addresses, not on their bits.  A
\* CIDR without a "/" has prefix length "none".
IpInCidr(ip, cidr) ==
    LET addr   == cidr.addr
        second == {i \in Dots(addr) : Cardinality(Dots(SubSeq(addr, 1, i))) = 2}
    IN  CASE cidr.len = "24" -> BeforeLastDot(ip) = BeforeLastDot(addr)
          [] cidr.len = "16" /\ second # {} ->
                \A i \in second : IsPrefix(SubSeq(addr, 1, i - 1), ip)
          [] cidr.len = "8" -> BeforeFirstDot(ip) = BeforeFirstDot(addr)
          [] cidr.len = "0" -> TRUE
          [] OTHER -> ip = addr

\* What match() makes of one candidate: kNone means that it is taken.
Verdict(rule, host, ip) ==
    CASE ~HostMatches(host, rule.host) -> "kHostMismatch"
      [] /\ HostMatches(host, rule.host)
         /\ rule.cidrs # {}
         /\ \A cidr \in rule.cidrs : ~IpInCidr(ip, cidr) -> "kClientIpDenied"
      [] OTHER -> "kNone"

-----------------------------------------------------------------------------
(* The trie.                                                               *)

NodeOf(rule) == IF rule.path = <<"/">> THEN <<>> ELSE SplitPath(rule.path)

\* root_ is null until finalize().
NoTrie == <<>>

\* The rules that belong at a node.
Own(rules, node) == {i \in DOMAIN rules : NodeOf(rules[i]) = node}

\* The lists that std::sort may make of some rules, as pointers into buffer
\* number gen of the vector: it is not stable, and leaves equal priorities in
\* any order.
SortedLists(rules, gen, own) ==
    LET Sorted(order) == \A j, k \in DOMAIN order :
            j < k => rules[order[j]].priority <= rules[order[k]].priority
    IN  {[k \in DOMAIN order |-> [gen |-> gen, index |-> order[k]]] :
            order \in {o \in SetToSeqs(own) : Sorted(o)}}

\* The tries that finalize() may build: a node for each prefix of a rule's,
\* and at each node a sorted list of its own rules.
Tries(rules, gen) ==
    LET ends  == {<<>>} \cup {NodeOf(rules[i]) : i \in DOMAIN rules}
        nodes == UNION {Prefixes(node) : node \in ends}
        lists == UNION {SortedLists(rules, gen, Own(rules, node)) : node \in ends}
        Holds(list, own) == own = {list[k].index : k \in DOMAIN list}
        picks == {pick \in [ends -> lists] :
                     \A node \in ends : Holds(pick[node], Own(rules, node))}
    IN  {[node \in nodes |-> IF node \in ends THEN pick[node] ELSE <<>>] : pick \in picks}

Step(segments, n) == SubSeq(segments, 1, n)

\* How far the walk from the root gets along the segments.
Reached(trie, segments) ==
    {n \in 1..Len(segments) : \A k \in 1..n : Step(segments, k) \in DOMAIN trie}

FindLongestPrefixRules_DeepestNode(trie, path) ==
    LET segments == SplitPath(path)
        reached  == Reached(trie, segments)
    IN  CASE <<>> \notin DOMAIN trie -> <<>>
          [] <<>> \in DOMAIN trie /\ segments = <<>> -> trie[<<>>]
          [] OTHER -> IF reached = {} THEN <<>>
                                      ELSE trie[Step(segments, Max(reached))]

\* The rules of the root serve only paths without segments.
FindLongestPrefixRules(trie, path) ==
    LET segments == SplitPath(path)
        holders  == {n \in Reached(trie, segments) : trie[Step(segments, n)] # <<>>}
    IN  CASE <<>> \notin DOMAIN trie -> <<>>
          [] <<>> \in DOMAIN trie /\ segments = <<>> -> trie[<<>>]
          [] OTHER -> IF holders = {} THEN <<>>
                                      ELSE trie[Step(segments, Max(holders))]

\* A RouteMatch: the rule taken, or the reason why there is none.
Matched(i)  == [matched |-> TRUE, rule |-> i, reason |-> "kNone"]
Failed(why) == [matched |-> FALSE, rule |-> 0, reason |-> why]

\* The first candidate that passes; otherwise the reason of the last one.
Filter(rules, candidates, host, ip) ==
    LET VerdictOf(p) == Verdict(rules[p.index], host, ip)
        taken        == {k \in DOMAIN candidates : VerdictOf(candidates[k]) = "kNone"}
    IN  CASE taken # {} -> Matched(candidates[Min(taken)].index)
          [] taken = {} /\ candidates = <<>> -> Failed("kPathMismatch")
          [] OTHER -> Failed(VerdictOf(Last(candidates)))

Match(rules, trie, host, path, ip) ==
    Filter(rules, FindLongestPrefixRules(trie, path), host, ip)
=============================================================================
