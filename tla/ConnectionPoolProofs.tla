------------------------ MODULE ConnectionPoolProofs ------------------------
(***************************************************************************)
(* Proofs about ConnectionPool, for every set of tasks, keys and           *)
(* connections and all limits.                                             *)
(***************************************************************************)
EXTENDS ConnectionPool, SequenceTheorems, FiniteSetTheorems,
        WellFoundedInduction, TLAPS

-----------------------------------------------------------------------------
(* Subsequences: what At computes, for all sequences and positions.        *)

\* Induction over the natural numbers, for a set in place of a predicate.
LEMMA NatSetInduction ==
    ASSUME NEW S \in SUBSET Nat, 0 \in S, \A n \in S : n + 1 \in S
    PROVE  S = Nat
<1> SUFFICES ASSUME Nat \ S # {} PROVE FALSE
  OBVIOUS
<1>1. PICK least \in Nat \ S :
        \A m \in Nat \ S : ~(<<m, least>> \in OpToRel(<, Nat))
  BY NatLessThanWellFounded, WFMin, Nat \ S \subseteq Nat, Zenon
<1>2. \A m \in Nat \ S : ~(m < least)
  BY <1>1 DEF OpToRel
<1>3. least - 1 \in Nat /\ least - 1 < least
  OBVIOUS
<1>4. least - 1 \in S
  BY <1>2, <1>3
<1>5. (least - 1) + 1 \in S
  BY <1>4
<1> QED BY <1>5

\* The ranks of positions up to len start at 0, go up by one at a position
\* and stay between positions, and end at the number of positions.
LEMMA RankSteps ==
    ASSUME NEW len \in Nat, NEW P \in SUBSET (1..len)
    PROVE  /\ IsFiniteSet(P) /\ Cardinality(P) \in Nat /\ Cardinality(P) <= len
           /\ Rank(P, 0) = 0 /\ Rank(P, len) = Cardinality(P)
           /\ \A n \in Nat : Rank(P, n) \in Nat
           /\ \A n \in Nat :
                Rank(P, n + 1) = IF n + 1 \in P THEN Rank(P, n) + 1 ELSE Rank(P, n)
<1> DEFINE UpTo(n) == {m \in P : m <= n}
<1>0. \A m \in P : m \in Nat /\ 1 <= m /\ m <= len
  OBVIOUS
<1>1. IsFiniteSet(P) /\ Cardinality(P) <= len
  <2>1. IsFiniteSet(1..len) /\ Cardinality(1..len) = len
    BY FS_Interval
  <2> QED BY <2>1, FS_Subset
<1>2. Cardinality(P) \in Nat
  BY <1>1, FS_CardinalityType
<1>3. UpTo(0) = {} /\ UpTo(len) = P
  <2>1. UpTo(0) = {}
    <3>1. \A m \in P : ~(m <= 0)
      BY <1>0
    <3> QED BY <3>1
  <2>2. UpTo(len) = P
    BY <1>0
  <2> QED BY <2>1, <2>2
<1>4. ASSUME NEW n \in Nat
      PROVE  IsFiniteSet(UpTo(n)) /\ Cardinality(UpTo(n)) \in Nat
  <2>1. UpTo(n) \in SUBSET P
    OBVIOUS
  <2> HIDE DEF UpTo
  <2> QED BY <2>1, <1>1, FS_Subset, FS_CardinalityType
<1>5. ASSUME NEW n \in Nat
      PROVE  Cardinality(UpTo(n + 1)) =
                IF n + 1 \in P THEN Cardinality(UpTo(n)) + 1 ELSE Cardinality(UpTo(n))
  <2>0. \A m \in P : m <= n + 1 <=> m <= n \/ m = n + 1
    <3> SUFFICES ASSUME NEW m \in Int PROVE m <= n + 1 <=> m <= n \/ m = n + 1
      BY <1>0
    <3> QED OBVIOUS
  <2>1. CASE n + 1 \in P
    <3>1. UpTo(n + 1) = UpTo(n) \cup {n + 1}
      BY <2>0, <2>1, Zenon
    <3>2. n + 1 \notin UpTo(n)
      OBVIOUS
    <3> HIDE DEF UpTo
    <3> QED BY <2>1, <3>1, <3>2, <1>4, FS_AddElement
  <2>2. CASE n + 1 \notin P
    <3>1. UpTo(n + 1) = UpTo(n)
      <4>1. \A m \in P : m <= n + 1 <=> m <= n
        BY <2>0, <2>2
      <4> QED BY <4>1, Zenon
    <3> QED BY <2>2, <3>1
  <2> QED BY <2>1, <2>2
<1> QED BY <1>1, <1>2, <1>3, <1>4, <1>5, FS_EmptySet DEF Rank

\* A later position has a higher rank.
LEMMA RankIncreases ==
    ASSUME NEW len \in Nat, NEW P \in SUBSET (1..len),
           NEW m \in P, NEW n \in P, m < n
    PROVE  Rank(P, m) < Rank(P, n)
<1> DEFINE UpTo(k) == {j \in P : j <= k}
<1>1. UpTo(m) \subseteq UpTo(n) /\ UpTo(m) # UpTo(n) /\ UpTo(n) \subseteq P
  <2>1. \A j \in P : j \in Int
    OBVIOUS
  <2>2. n \in UpTo(n) /\ n \notin UpTo(m)
    BY <2>1
  <2>3. \A j \in P : j <= m => j <= n
    BY <2>1
  <2> QED BY <2>2, <2>3
<1>2. IsFiniteSet(P)
  BY RankSteps
<1> HIDE DEF UpTo
<1>3. IsFiniteSet(UpTo(n)) /\ Cardinality(UpTo(n)) \in Nat
  BY <1>1, <1>2, FS_Subset, FS_CardinalityType
<1>4. IsFiniteSet(UpTo(m)) /\ Cardinality(UpTo(m)) \in Nat
      /\ Cardinality(UpTo(m)) <= Cardinality(UpTo(n))
      /\ Cardinality(UpTo(m)) # Cardinality(UpTo(n))
  BY <1>1, <1>3, FS_Subset, FS_CardinalityType
<1> QED BY <1>3, <1>4 DEF Rank, UpTo

\* Every number up to the number of positions is the rank of a position.
LEMMA RankIsOnto ==
    ASSUME NEW len \in Nat, NEW P \in SUBSET (1..len),
           NEW i \in 1..Cardinality(P)
    PROVE  \E n \in P : Rank(P, n) = i
<1> DEFINE Reached(n) == \A j \in 1..Rank(P, n) : \E m \in P : Rank(P, m) = j
           S == {n \in Nat : Reached(n)}
<1>1. 0 \in S
  BY RankSteps
<1>2. ASSUME NEW n \in S PROVE n + 1 \in S
  <2>1. n \in Nat /\ Reached(n) /\ Rank(P, n) \in Nat
    BY RankSteps
  <2>2. CASE n + 1 \in P
    <3>1. Rank(P, n + 1) = Rank(P, n) + 1
      BY <2>1, <2>2, RankSteps
    <3>2. \A j \in 1..Rank(P, n + 1) : j \in 1..Rank(P, n) \/ j = Rank(P, n + 1)
      BY <2>1, <3>1
    <3> QED BY <2>1, <2>2, <3>2
  <2>3. CASE n + 1 \notin P
    <3>1. Rank(P, n + 1) = Rank(P, n)
      BY <2>1, <2>3, RankSteps
    <3> QED BY <2>1, <3>1
  <2> QED BY <2>2, <2>3
<1>3. S = Nat
  <2> HIDE DEF S
  <2>1. S \in SUBSET Nat
    BY DEF S
  <2> QED BY <1>1, <1>2, <2>1, NatSetInduction
<1>4. Reached(len)
  BY <1>3
<1> QED BY <1>4, RankSteps

\* What At selects: positions in ascending order, each of them once.
LEMMA AtSelects ==
    ASSUME NEW S, NEW s \in Seq(S), NEW P \in SUBSET DOMAIN s
    PROVE  /\ At(s, P) \in Seq(S)
           /\ Len(At(s, P)) \in Nat /\ Len(At(s, P)) <= Len(s)
           /\ DOMAIN At(s, P) = 1..Len(At(s, P))
           /\ \A i \in DOMAIN At(s, P) : \E n \in P :
                 Rank(P, n) = i /\ At(s, P)[i] = s[n]
           /\ \A n \in P : \E i \in DOMAIN At(s, P) :
                 Rank(P, n) = i /\ At(s, P)[i] = s[n]
<1> DEFINE k == Cardinality(P)
           position(i) == CHOOSE n \in P : Rank(P, n) = i
<1>1. Len(s) \in Nat /\ P \in SUBSET (1..Len(s)) /\ k \in Nat /\ k <= Len(s)
  BY RankSteps, LenProperties
<1>2. ASSUME NEW i \in 1..k
      PROVE  position(i) \in P /\ Rank(P, position(i)) = i /\ s[position(i)] \in S
  <2>1. \E n \in P : Rank(P, n) = i
    BY <1>1, RankIsOnto
  <2>2. position(i) \in P /\ Rank(P, position(i)) = i
    BY <2>1
  <2> QED BY <2>2, <1>1, ElementOfSeq
<1>3. At(s, P) = [i \in 1..k |-> s[position(i)]]
  BY DEF At
<1> HIDE DEF position, k
<1>4. At(s, P) \in [1..k -> S]
  BY <1>2, <1>3
<1>5. At(s, P) \in Seq(S) /\ Len(At(s, P)) = k
  BY <1>1, <1>4
<1>6. ASSUME NEW n \in P
      PROVE  Rank(P, n) \in 1..k /\ position(Rank(P, n)) = n
  <2>1. n \in 1..Len(s) /\ Rank(P, n) \in Nat /\ n - 1 \in Nat
        /\ Rank(P, n - 1) \in Nat
    <3>1. n \in 1..Len(s) /\ n - 1 \in Nat /\ n \in Nat
      BY <1>1
    <3> QED BY <1>1, <3>1, RankSteps
  <2>2. Rank(P, n) = Rank(P, n - 1) + 1
    <3>1. (n - 1) + 1 = n
      BY <2>1
    <3>2. \A j \in Nat : j + 1 \in P => Rank(P, j + 1) = Rank(P, j) + 1
      BY <1>1, RankSteps
    <3> QED BY <2>1, <3>1, <3>2
  <2>3. Rank(P, n) <= k
    <3>1. {m \in P : m <= n} \subseteq P
      OBVIOUS
    <3>2. IsFiniteSet(P)
      BY <1>1, RankSteps
    <3> QED BY <3>1, <3>2, FS_Subset DEF Rank, k
  <2>4. Rank(P, n) \in 1..k
    BY <2>1, <2>2, <2>3, <1>1
  <2>5. position(Rank(P, n)) \in P /\ Rank(P, position(Rank(P, n))) = Rank(P, n)
    BY <2>4, <1>2
  <2>6. \A p \in P : p < n \/ n < p => Rank(P, p) < Rank(P, n) \/ Rank(P, n) < Rank(P, p)
    BY <1>1, RankIncreases
  <2>7. position(Rank(P, n)) \in Int /\ n \in Int
    BY <2>5, <1>1, <2>1
  <2> QED BY <2>1, <2>4, <2>5, <2>6, <2>7
<1> QED BY <1>1, <1>2, <1>3, <1>4, <1>5, <1>6
-----------------------------------------------------------------------------
(* The inductive invariant.                                                *)

\* A task has a connection exactly while it holds one, and has a key from the
\* call of borrow_connection until it gives the connection up.
TaskState ==
    \A t \in Tasks :
        /\ held[t] # None <=> at[t] = "holding"
        /\ key[t] # None <=> at[t] # "idle"

\* The inductive invariant.
IInv == PoolTypeOK /\ SoleOwner /\ IdleWithinLimit /\ TaskState

\* What a pool holds: connections, at positions from 1 on.
LEMMA PoolElements ==
    ASSUME PoolTypeOK, NEW k \in Keys
    PROVE  /\ pools[k] \in Seq(Connections)
           /\ Len(pools[k]) \in Nat /\ DOMAIN pools[k] = 1..Len(pools[k])
           /\ \A n \in DOMAIN pools[k] :
                 pools[k][n] \in Connections /\ pools[k][n] \in Pooled(k)
           /\ \A c \in Pooled(k) :
                 c \in Connections /\ \E n \in DOMAIN pools[k] : c = pools[k][n]
<1>1. pools[k] \in Seq(Connections)
  BY DEF PoolTypeOK
<1>2. /\ Len(pools[k]) \in Nat /\ DOMAIN pools[k] = 1..Len(pools[k])
      /\ \A n \in DOMAIN pools[k] : pools[k][n] \in Connections
  BY <1>1, LenProperties, ElementOfSeq
<1> QED BY <1>1, <1>2 DEF Pooled

\* The type of the state of the connections.
ConnStates == [age : 0..IdleTimeout + 1, open : BOOLEAN, peerClosed : BOOLEAN]

\* Destroying connections and reusing their places keeps the type.
LEMMA DestroyedType ==
    ASSUME PoolTypeOK, NEW S
    PROVE  Destroyed(S) \in [Connections -> ConnStates]
BY LimitsAssumption DEF PoolTypeOK, Destroyed, Fresh, ConnStates

\* The pools are empty at first and no task holds anything.
LEMMA InitIInv == PoolInit => IInv
<1> SUFFICES ASSUME PoolInit PROVE IInv
  OBVIOUS
<1>1. PoolTypeOK
  BY LimitsAssumption DEF PoolInit, PoolTypeOK, Fresh
<1>2. SoleOwner
  BY NoneAssumption DEF PoolInit, SoleOwner, Pooled
<1>3. IdleWithinLimit
  BY LimitsAssumption DEF PoolInit, IdleWithinLimit
<1>4. TaskState
  BY DEF PoolInit, TaskState
<1> QED BY <1>1, <1>2, <1>3, <1>4 DEF IInv

\* Each connection of a pool is still where the pool was, at one place.
PoolsShrink ==
    /\ DOMAIN pools' = Keys
    /\ \A k \in Keys :
          /\ pools'[k] \in Seq(Connections)
          /\ Len(pools'[k]) <= Len(pools[k])
          /\ \A i \in DOMAIN pools'[k] : pools'[k][i] \in Pooled(k)
          /\ \A i, j \in DOMAIN pools'[k] : pools'[k][i] = pools'[k][j] => i = j

\* A step that only takes connections out of pools keeps them apart, and the
\* pools within the limit.
LEMMA ShrinkingPools ==
    ASSUME IInv, PoolsShrink
    PROVE  /\ DOMAIN pools' = Keys /\ \A k \in Keys : pools'[k] \in Seq(Connections)
           /\ IdleWithinLimit'
           /\ \A k \in Keys : Pooled(k)' \subseteq Pooled(k)
           /\ \A k, l \in Keys : \A m \in DOMAIN pools'[k], n \in DOMAIN pools'[l] :
                 pools'[k][m] = pools'[l][n] => k = l /\ m = n
<1>1. IdleWithinLimit'
  <2> SUFFICES ASSUME NEW k \in Keys PROVE Len(pools'[k]) <= MaxPerHost
    BY DEF IdleWithinLimit
  <2>1. Len(pools[k]) \in Nat /\ Len(pools[k]) <= MaxPerHost
    BY PoolElements DEF IInv, IdleWithinLimit
  <2>2. Len(pools'[k]) \in Nat /\ Len(pools'[k]) <= Len(pools[k])
    BY LenProperties DEF PoolsShrink
  <2> QED BY <2>1, <2>2, LimitsAssumption
<1>2. \A k \in Keys : Pooled(k)' \subseteq Pooled(k)
  BY DEF PoolsShrink, Pooled
<1>3. ASSUME NEW k \in Keys, NEW l \in Keys,
             NEW m \in DOMAIN pools'[k], NEW n \in DOMAIN pools'[l],
             pools'[k][m] = pools'[l][n]
      PROVE  k = l /\ m = n
  <2>1. pools'[k][m] \in Pooled(k) /\ pools'[l][n] \in Pooled(l)
    BY DEF PoolsShrink
  <2>2. k = l
    BY <1>3, <2>1 DEF IInv, SoleOwner, Pooled
  <2> QED BY <1>3, <2>2 DEF PoolsShrink
<1> QED BY <1>1, <1>2, <1>3 DEF PoolsShrink

\* Pools that do not change shrink trivially.
LEMMA UnchangedPools == IInv /\ UNCHANGED pools => PoolsShrink
<1> SUFFICES ASSUME IInv, UNCHANGED pools PROVE PoolsShrink
  OBVIOUS
<1>1. \A k \in Keys : Len(pools[k]) <= Len(pools[k])
  BY PoolElements DEF IInv
<1> QED BY <1>1, PoolElements DEF IInv, PoolsShrink, PoolTypeOK, SoleOwner

\* What the loop of borrow_connection takes off the back of a pool: that one
\* connection, and nothing else of any pool.
LEMMA PopsNewest ==
    ASSUME IInv, NEW k \in Keys, pools[k] # << >>, Pop(k),
           NEW c, c = Newest(k)
    PROVE  /\ c \in Connections /\ c \in Pooled(k)
           /\ PoolsShrink
           /\ Pooled(k)' = Pooled(k) \ {c}
           /\ \A l \in Keys : l # k => pools'[l] = pools[l]
           /\ \A l \in Keys : c \notin Pooled(l)'
<1> DEFINE n == Len(pools[k])
<1>2. /\ pools[k] \in Seq(Connections) /\ n \in Nat /\ DOMAIN pools[k] = 1..n
      /\ \A i \in 1..n : pools[k][i] \in Connections /\ pools[k][i] \in Pooled(k)
  BY PoolElements DEF IInv
<1>3. n \in 1..n /\ n - 1 \in Nat
  BY <1>2, EmptySeq
<1>4. c = pools[k][n] /\ c \in Connections /\ c \in Pooled(k)
  BY <1>2, <1>3 DEF Newest
<1>5. /\ DOMAIN pools' = Keys
      /\ pools'[k] = SubSeq(pools[k], 1, n - 1)
      /\ \A l \in Keys : l # k => pools'[l] = pools[l]
  BY DEF Pop, IInv, PoolTypeOK
<1>6. /\ pools'[k] \in Seq(Connections)
      /\ Len(pools'[k]) = n - 1 /\ DOMAIN pools'[k] = 1..n - 1
      /\ \A i \in 1..n - 1 : i \in 1..n /\ i # n /\ pools'[k][i] = pools[k][i]
  <2>1. \A i \in 1..n - 1 : pools[k][i] \in Connections
    BY <1>2
  <2>2. /\ SubSeq(pools[k], 1, n - 1) \in Seq(Connections)
        /\ Len(SubSeq(pools[k], 1, n - 1)) = n - 1
        /\ \A i \in 1..n - 1 : SubSeq(pools[k], 1, n - 1)[i] = pools[k][i]
    BY <1>2, <1>3, <2>1, SubSeqProperties
  <2>3. \A i \in 1..n - 1 : i \in 1..n /\ i # n
    BY <1>2
  <2> QED BY <1>5, <2>2, <2>3, LenProperties
<1>7. \A i, j \in 1..n : pools[k][i] = pools[k][j] => i = j
  BY <1>2 DEF IInv, SoleOwner
<1> HIDE DEF n
<1>8. Pooled(k)' = Pooled(k) \ {c}
  <2>1. Pooled(k) = {pools[k][i] : i \in 1..n} /\ Pooled(k)' = {pools'[k][i] : i \in 1..n - 1}
    BY <1>2, <1>6 DEF Pooled
  <2>2. \A i \in 1..n : i # n => i \in 1..n - 1
    BY <1>2
  <2> QED BY <1>3, <1>4, <1>6, <1>7, <2>1, <2>2
<1>9. PoolsShrink
  <2> SUFFICES ASSUME NEW l \in Keys
               PROVE  /\ pools'[l] \in Seq(Connections)
                      /\ Len(pools'[l]) <= Len(pools[l])
                      /\ \A i \in DOMAIN pools'[l] : pools'[l][i] \in Pooled(l)
                      /\ \A i, j \in DOMAIN pools'[l] : pools'[l][i] = pools'[l][j] => i = j
    BY <1>5 DEF PoolsShrink
  <2>1. CASE l = k
    <3>1. Len(pools'[k]) <= Len(pools[k])
      BY <1>2, <1>6 DEF n
    <3> QED BY <2>1, <3>1, <1>2, <1>6, <1>7
  <2>2. CASE l # k
    <3>1. pools'[l] = pools[l] /\ Len(pools[l]) <= Len(pools[l])
      BY <1>5, <2>2, PoolElements DEF IInv
    <3> QED BY <3>1, PoolElements DEF IInv, SoleOwner
  <2> QED BY <2>1, <2>2
<1>10. ASSUME NEW l \in Keys PROVE c \notin Pooled(l)'
  <2>1. CASE l = k
    BY <1>8, <2>1, Zenon
  <2>2. CASE l # k
    <3>1. Pooled(l)' = Pooled(l)
      BY <1>5, <2>2 DEF Pooled
    <3>2. c \notin Pooled(l)
      BY <1>4, <2>2, PoolElements DEF IInv, SoleOwner
    <3> QED BY <3>1, <3>2
  <2> QED BY <2>1, <2>2
<1> QED BY <1>4, <1>5, <1>8, <1>9, <1>10

\* A fit connection leaves the pool for the task that borrows.
LEMMA PopHealthyIInv ==
    ASSUME IInv, NEW t \in Tasks, PopHealthy(t)
    PROVE  IInv'
<1> PICK k \in Keys : k = key[t]
  BY DEF PopHealthy, IInv, TaskState, PoolTypeOK
<1> PICK c : c = Newest(k)
  OBVIOUS
<1>1. at[t] = "popping" /\ pools[k] # << >> /\ Pop(k) /\ wanted' = {}
      /\ held' = [held EXCEPT ![t] = c]
      /\ at' = [at EXCEPT ![t] = "holding"]
      /\ key' = [key EXCEPT ![t] = k]
      /\ conn' = [conn EXCEPT ![c].age = 0]
  BY DEF PopHealthy, Hold
<1>2. /\ c \in Connections /\ c \in Pooled(k) /\ c # None
      /\ PoolsShrink /\ \A l \in Keys : c \notin Pooled(l)'
  BY <1>1, PopsNewest, NoneAssumption
<1>3. key' = key
  BY <1>1 DEF IInv, PoolTypeOK
<1>4. PoolTypeOK'
  <2>1. [conn[c] EXCEPT !.age = 0] \in ConnStates
    <3>1. conn[c] \in ConnStates /\ 0 \in 0..IdleTimeout + 1
      BY <1>2, LimitsAssumption DEF IInv, PoolTypeOK, ConnStates
    <3> QED BY <3>1 DEF ConnStates
  <2>2. conn' \in [Connections -> ConnStates]
    BY <1>1, <1>2, <2>1 DEF IInv, PoolTypeOK, ConnStates
  <2> QED BY <1>1, <1>2, <1>3, <2>2, ShrinkingPools DEF IInv, PoolTypeOK, ConnStates
<1>5. SoleOwner'
  <2>1. \A u \in Tasks : held[u] # c
    BY <1>2 DEF IInv, SoleOwner
  <2>2. \A l \in Keys : Pooled(l)' \subseteq Pooled(l)
    BY <1>2, ShrinkingPools
  <2>3. \A u, v \in Tasks : held'[u] # None /\ held'[u] = held'[v] => u = v
    BY <1>1, <2>1 DEF IInv, SoleOwner, PoolTypeOK
  <2>4. \A l \in Keys, u \in Tasks : held'[u] \notin Pooled(l)'
    BY <1>1, <1>2, <2>2 DEF IInv, SoleOwner, PoolTypeOK
  <2> QED BY <1>2, <2>3, <2>4, ShrinkingPools DEF SoleOwner
<1>6. TaskState'
  BY <1>1, <1>2, <1>3 DEF IInv, PoolTypeOK, TaskState
<1> QED BY <1>2, <1>4, <1>5, <1>6, ShrinkingPools DEF IInv

\* An unfit connection leaves the pool and is no more.
LEMMA PopUnhealthyIInv ==
    ASSUME IInv, NEW t \in Tasks, PopUnhealthy(t)
    PROVE  IInv'
<1>1. /\ key[t] \in Keys /\ pools[key[t]] # << >> /\ Pop(key[t])
      /\ conn' = Destroyed({Newest(key[t])}) /\ UNCHANGED <<taskVars, wanted>>
  BY DEF PopUnhealthy, IInv, TaskState, PoolTypeOK
<1>2. PoolsShrink
  BY <1>1, PopsNewest
<1>3. conn' \in [Connections -> ConnStates]
  BY <1>1, DestroyedType DEF IInv
<1>4. PoolTypeOK'
  BY <1>1, <1>2, <1>3, ShrinkingPools DEF IInv, PoolTypeOK, ConnStates, taskVars
<1>5. SoleOwner'
  BY <1>1, <1>2, ShrinkingPools DEF IInv, SoleOwner, taskVars
<1> QED BY <1>1, <1>2, <1>4, <1>5, ShrinkingPools DEF IInv, TaskState, taskVars

\* borrow_connection begins its loop, or leaves it with an empty pool.
LEMMA LoopEndsIInv ==
    ASSUME IInv, NEW t \in Tasks,
           (\E k \in Keys : BorrowConnection(t, k)) \/ StartConnect(t)
    PROVE  IInv'
<1>1. ASSUME NEW k \in Keys, BorrowConnection(t, k) PROVE IInv'
  <2>1. \A c \in Pooled(k) : c \in Connections
    BY PoolElements DEF IInv
  <2>2. k # None
    BY NoneAssumption
  <2> QED BY <1>1, <2>1, <2>2 DEF BorrowConnection, IInv, PoolTypeOK, SoleOwner,
                                  IdleWithinLimit, TaskState, Pooled
<1>2. CASE StartConnect(t)
  BY <1>2 DEF StartConnect, IInv, PoolTypeOK, SoleOwner, IdleWithinLimit, TaskState, Pooled
<1> QED BY <1>1, <1>2

\* A new connection is no one's until the task that connected it has it.
LEMMA ConnectedIInv ==
    ASSUME IInv, NEW t \in Tasks, NEW c \in Connections, Connected(t, c)
    PROVE  IInv'
<1>1. /\ at[t] = "connecting" /\ UNCHANGED <<pools, conn, wanted>>
      /\ at' = [at EXCEPT ![t] = "holding"]
      /\ key' = [key EXCEPT ![t] = key[t]]
      /\ held' = [held EXCEPT ![t] = c]
  BY DEF Connected, Hold
<1>2. key' = key /\ key[t] \in Keys /\ c # None
  BY <1>1, NoneAssumption DEF IInv, PoolTypeOK, TaskState
<1>3. \A k \in Keys : c \notin Pooled(k)
  BY DEF Connected, Exists, Live
<1>4. \A u \in Tasks : held[u] # c
  <2> SUFFICES ASSUME NEW u \in Tasks, held[u] = c PROVE FALSE
    OBVIOUS
  <2>1. at[u] = "holding" /\ key[u] \in Keys
    BY <1>2 DEF IInv, PoolTypeOK, TaskState
  <2>2. c \in Held(key[u])
    BY <2>1 DEF Held
  <2> QED BY <2>1, <2>2 DEF Connected, Exists, Live
<1>5. PoolTypeOK'
  BY <1>1, <1>2 DEF IInv, PoolTypeOK
<1>6. SoleOwner'
  <2>1. \A k \in Keys : Pooled(k)' = Pooled(k)
    BY <1>1 DEF Pooled
  <2>2. \A u, v \in Tasks : held'[u] # None /\ held'[u] = held'[v] => u = v
    BY <1>1, <1>4 DEF IInv, SoleOwner, PoolTypeOK
  <2>3. \A k \in Keys, u \in Tasks : held'[u] \notin Pooled(k)'
    BY <1>1, <1>3, <2>1 DEF IInv, SoleOwner, PoolTypeOK
  <2> QED BY <1>1, <2>2, <2>3 DEF IInv, SoleOwner
<1>7. TaskState'
  BY <1>1, <1>2 DEF IInv, PoolTypeOK, TaskState
<1> QED BY <1>1, <1>5, <1>6, <1>7 DEF IInv, IdleWithinLimit

\* A task that gives up what it holds, or never got it, is idle again.
LEMMA BecomesIdle ==
    ASSUME IInv, NEW t \in Tasks, BecomeIdle(t)
    PROVE  /\ at' \in [Tasks -> {"idle", "popping", "resolving", "connecting", "holding"}]
           /\ key' \in [Tasks -> Keys \cup {None}]
           /\ held' \in [Tasks -> Connections \cup {None}]
           /\ TaskState'
           /\ held'[t] = None
           /\ \A u \in Tasks : u # t => held'[u] = held[u]
BY DEF BecomeIdle, IInv, PoolTypeOK, TaskState

\* A task becomes idle and no pool gains a connection.
LEMMA IdleAndShrinkIInv ==
    ASSUME IInv, NEW t \in Tasks, BecomeIdle(t), PoolsShrink,
           conn' \in [Connections -> ConnStates], UNCHANGED wanted
    PROVE  IInv'
<1>1. PoolTypeOK'
  BY BecomesIdle, ShrinkingPools DEF IInv, PoolTypeOK, ConnStates
<1>2. SoleOwner'
  <2>1. \A k \in Keys : Pooled(k)' \subseteq Connections /\ None \notin Pooled(k)'
    BY <1>1, ShrinkingPools, PoolElements, NoneAssumption DEF IInv
  <2>2. \A u, v \in Tasks : held'[u] # None /\ held'[u] = held'[v] => u = v
    BY BecomesIdle DEF IInv, SoleOwner
  <2>3. \A k \in Keys, u \in Tasks : held'[u] \notin Pooled(k)'
    BY <2>1, BecomesIdle, ShrinkingPools DEF IInv, SoleOwner
  <2> QED BY <2>2, <2>3, ShrinkingPools DEF SoleOwner
<1> QED BY <1>1, <1>2, BecomesIdle, ShrinkingPools DEF IInv

LEMMA ConnType == IInv => conn \in [Connections -> ConnStates]
BY DEF IInv, PoolTypeOK, ConnStates

\* A connection that is returned goes behind those of its host, if it is fit
\* and the pool has room.
LEMMA ReturnConnectionIInv ==
    ASSUME IInv, NEW t \in Tasks, ReturnConnection(t)
    PROVE  IInv'
<1>1. CASE ~Kept(t)
  <2>1. UNCHANGED <<pools, wanted>> /\ conn' = Destroyed({held[t]}) /\ BecomeIdle(t)
    BY <1>1 DEF ReturnConnection
  <2> QED BY <2>1, IdleAndShrinkIInv, UnchangedPools, DestroyedType DEF IInv
<1>2. CASE Kept(t)
  <2> DEFINE k == key[t]
             c == held[t]
  <2>1. /\ at[t] = "holding" /\ BecomeIdle(t)
        /\ pools' = [pools EXCEPT ![k] = Append(@, c)]
        /\ conn' = conn /\ UNCHANGED wanted
    BY <1>2 DEF ReturnConnection
  <2>2. k \in Keys /\ c \in Connections /\ c # None
    BY <2>1 DEF IInv, PoolTypeOK, TaskState
  <2>3. /\ pools[k] \in Seq(Connections)
        /\ Len(pools[k]) \in Nat /\ DOMAIN pools[k] = 1..Len(pools[k])
    BY <2>2, PoolElements DEF IInv
  <2> HIDE DEF k, c
  <2>4. /\ DOMAIN pools' = Keys /\ pools'[k] = Append(pools[k], c)
        /\ \A l \in Keys : l # k => pools'[l] = pools[l]
    BY <2>1, <2>2 DEF IInv, PoolTypeOK
  <2>5. /\ pools'[k] \in Seq(Connections)
        /\ Len(pools'[k]) = Len(pools[k]) + 1
        /\ DOMAIN pools'[k] = 1..Len(pools[k]) + 1
        /\ \A i \in 1..Len(pools[k]) : pools'[k][i] = pools[k][i]
        /\ pools'[k][Len(pools[k]) + 1] = c
    BY <2>2, <2>3, <2>4, AppendProperties, LenProperties
  <2>6. \A l \in Keys : c \notin Pooled(l)
    BY <2>2 DEF IInv, SoleOwner, c
  <2>7. PoolTypeOK'
    BY <2>1, <2>4, <2>5, BecomesIdle DEF IInv, PoolTypeOK
  <2>8. ASSUME NEW l \in Keys, NEW i \in DOMAIN pools'[l]
        PROVE  \/ i \in DOMAIN pools[l] /\ pools'[l][i] = pools[l][i]
               \/ l = k /\ i = Len(pools[k]) + 1 /\ pools'[l][i] = c
    <3>1. CASE l # k
      BY <2>4, <3>1
    <3>2. CASE l = k
      <4>1. i \in 1..Len(pools[k]) \/ i = Len(pools[k]) + 1
        BY <2>3, <2>5, <3>2
      <4> QED BY <2>3, <2>5, <3>2, <4>1
    <3> QED BY <3>1, <3>2
  <2>9. SoleOwner'
    <3>1. \A u, v \in Tasks : held'[u] # None /\ held'[u] = held'[v] => u = v
      BY <2>1, BecomesIdle DEF IInv, SoleOwner
    <3>2. \A l \in Keys, u \in Tasks : held'[u] \notin Pooled(l)'
      <4> SUFFICES ASSUME NEW l \in Keys, NEW u \in Tasks,
                          NEW i \in DOMAIN pools'[l], pools'[l][i] = held'[u]
                   PROVE  FALSE
        BY DEF Pooled
      <4>1. u # t /\ held'[u] = held[u] /\ held[u] # None
        <5>1. pools'[l][i] \in Connections
          <6>1. pools'[l] \in Seq(Connections)
            BY <2>7 DEF PoolTypeOK
          <6> QED BY <6>1, LenProperties, ElementOfSeq
        <5> QED BY <2>1, <5>1, BecomesIdle, NoneAssumption
      <4>2. CASE i \in DOMAIN pools[l] /\ pools'[l][i] = pools[l][i]
        BY <4>1, <4>2 DEF IInv, SoleOwner, Pooled
      <4>3. CASE pools'[l][i] = c
        BY <4>1, <4>3 DEF IInv, SoleOwner, c
      <4> QED BY <2>8, <4>2, <4>3
    <3>3. ASSUME NEW l \in Keys, NEW m \in Keys,
                 NEW i \in DOMAIN pools'[l], NEW j \in DOMAIN pools'[m],
                 pools'[l][i] = pools'[m][j]
          PROVE  l = m /\ i = j
      <4>1. \A n \in Keys : \A p \in DOMAIN pools[n] : pools[n][p] # c
        BY <2>6 DEF Pooled
      <4> QED BY <2>8, <3>3, <4>1 DEF IInv, SoleOwner
    <3> QED BY <3>1, <3>2, <3>3 DEF SoleOwner
  <2>10. IdleWithinLimit'
    <3>1. Len(pools[k]) < MaxPerHost
      BY <1>2 DEF Kept, k
    <3>2. \A l \in Keys : Len(pools'[l]) <= MaxPerHost
      BY <2>3, <2>4, <2>5, <3>1, LimitsAssumption DEF IInv, IdleWithinLimit
    <3> QED BY <3>2 DEF IdleWithinLimit
  <2> QED BY <2>1, <2>7, <2>9, <2>10, BecomesIdle DEF IInv
<1> QED BY <1>1, <1>2

\* A step that changes neither pools nor tasks preserves the invariant.
LEMMA OnlyConnIInv ==
    ASSUME IInv, UNCHANGED <<pools, taskVars>>, conn' \in [Connections -> ConnStates],
           wanted' \subseteq wanted
    PROVE  IInv'
BY DEF IInv, PoolTypeOK, SoleOwner, Pooled, IdleWithinLimit, TaskState, ConnStates, taskVars

\* cleanup_idle_connections leaves the fit connections in their order.
LEMMA CleanupIInv == IInv /\ CleanupIdleConnections => IInv'
<1> SUFFICES ASSUME IInv, CleanupIdleConnections PROVE IInv'
  OBVIOUS
<1> DEFINE fit(k) == {n \in DOMAIN pools[k] : Healthy(pools[k][n])}
<1>1. pools' = [k \in Keys |-> At(pools[k], fit(k))] /\ UNCHANGED <<taskVars, wanted>>
  BY DEF CleanupIdleConnections
<1>2. conn' \in [Connections -> ConnStates]
  BY DestroyedType DEF IInv, CleanupIdleConnections
<1>3. PoolsShrink
  <2>1. ASSUME NEW k \in Keys
        PROVE  /\ pools'[k] \in Seq(Connections)
               /\ Len(pools'[k]) <= Len(pools[k])
               /\ \A i \in DOMAIN pools'[k] : \E n \in DOMAIN pools[k] :
                     Rank(fit(k), n) = i /\ pools'[k][i] = pools[k][n]
    <3>1. pools[k] \in Seq(Connections) /\ fit(k) \in SUBSET DOMAIN pools[k]
      BY PoolElements DEF IInv
    <3>2. pools'[k] = At(pools[k], fit(k))
      BY <1>1
    <3> HIDE DEF fit
    <3>3. \A n \in fit(k) : n \in DOMAIN pools[k]
      BY <3>1
    <3> QED BY <3>1, <3>2, <3>3, AtSelects
  <2>2. ASSUME NEW k \in Keys, NEW i \in DOMAIN pools'[k], NEW j \in DOMAIN pools'[k],
               pools'[k][i] = pools'[k][j]
        PROVE  i = j
    <3> HIDE DEF fit
    <3>1. PICK m \in DOMAIN pools[k] : Rank(fit(k), m) = i /\ pools'[k][i] = pools[k][m]
      BY <2>1
    <3>2. PICK n \in DOMAIN pools[k] : Rank(fit(k), n) = j /\ pools'[k][j] = pools[k][n]
      BY <2>1
    <3>3. pools[k][m] = pools[k][n]
      BY <2>2, <3>1, <3>2, Zenon
    <3>4. m = n
      BY <3>3 DEF IInv, SoleOwner
    <3> QED BY <3>1, <3>2, <3>4
  <2>3. DOMAIN pools' = Keys
    BY <1>1
  <2> HIDE DEF fit
  <2>4. \A k \in Keys : \A i \in DOMAIN pools'[k] : pools'[k][i] \in Pooled(k)
    BY <2>1 DEF Pooled
  <2> QED BY <2>1, <2>2, <2>3, <2>4 DEF PoolsShrink
<1>4. PoolTypeOK'
  BY <1>1, <1>2, <1>3, ShrinkingPools DEF IInv, PoolTypeOK, ConnStates, taskVars
<1>5. SoleOwner'
  BY <1>1, <1>3, ShrinkingPools DEF IInv, SoleOwner, taskVars
<1> QED BY <1>1, <1>3, <1>4, <1>5, ShrinkingPools DEF IInv, TaskState, taskVars

\* Every action preserves the inductive invariant.
LEMMA NextIInv == IInv /\ [PoolNext]_poolVars => IInv'
<1> SUFFICES ASSUME IInv, [PoolNext]_poolVars PROVE IInv'
  OBVIOUS
<1>1. ASSUME NEW t \in Tasks, Resolved(t) PROVE IInv'
  BY <1>1 DEF Resolved, IInv, PoolTypeOK, SoleOwner, Pooled, IdleWithinLimit, TaskState
<1>2. ASSUME NEW t \in Tasks, ConnectFails(t) PROVE IInv'
  BY <1>2, IdleAndShrinkIInv, UnchangedPools, ConnType DEF ConnectFails
<1>3. ASSUME NEW t \in Tasks, Drop(t) PROVE IInv'
  BY <1>3, IdleAndShrinkIInv, UnchangedPools, DestroyedType DEF Drop, IInv
<1>4. ASSUME NEW t \in Tasks, CloseSocket(t) PROVE IInv'
  <2>1. held[t] \in Connections
    BY <1>4 DEF CloseSocket, IInv, PoolTypeOK, TaskState
  <2>2. [conn[held[t]] EXCEPT !.open = FALSE] \in ConnStates
    BY <2>1, ConnType DEF ConnStates
  <2> QED BY <1>4, <2>1, <2>2, ConnType, OnlyConnIInv DEF CloseSocket
<1>5. ASSUME NEW c \in Connections, PeerCloses(c) PROVE IInv'
  <2>1. [conn[c] EXCEPT !.peerClosed = TRUE] \in ConnStates
    BY ConnType DEF ConnStates
  <2> QED BY <1>5, <2>1, ConnType, OnlyConnIInv DEF PeerCloses
<1>6. ASSUME PoolTick PROVE IInv'
  <2>1. \A c \in Aging : [conn[c] EXCEPT !.age = @ + 1] \in ConnStates
    BY ConnType, LimitsAssumption DEF ConnStates, Aging
  <2>2. \A c \in Connections : conn[c] \in ConnStates
    BY ConnType
  <2> QED BY <1>6, <2>1, <2>2, OnlyConnIInv DEF PoolTick
<1>7. CASE UNCHANGED poolVars
  BY <1>7, ConnType, OnlyConnIInv DEF poolVars
<1> QED BY <1>1, <1>2, <1>3, <1>4, <1>5, <1>6, <1>7, PopHealthyIInv, PopUnhealthyIInv,
           LoopEndsIInv, ConnectedIInv, ReturnConnectionIInv, CleanupIInv
        DEF PoolNext

\* The inductive invariant holds in every reachable state.
THEOREM Invariant == PoolSpec => []IInv
BY InitIInv, NextIInv, PTL DEF PoolSpec

-----------------------------------------------------------------------------
(* The results.                                                            *)

\* Every variable has its type in every reachable state of the pool.
THEOREM TypeCorrect == PoolSpec => []PoolTypeOK
<1>1. IInv => PoolTypeOK
  BY DEF IInv
<1> QED BY <1>1, Invariant, PTL

\* borrow_connection and return_connection never make a connection belong to
\* two tasks, to two places in pools, or to a task and a pool.
THEOREM SoleOwnerCorrect == PoolSpec => []SoleOwner
<1>1. IInv => SoleOwner
  BY DEF IInv
<1> QED BY <1>1, Invariant, PTL

\* return_connection never lets the idle connections of a host exceed
\* max_connections_per_host, whoever else borrows, returns or cleans up.
THEOREM IdleWithinLimitCorrect == PoolSpec => []IdleWithinLimit
<1>1. IInv => IdleWithinLimit
  BY DEF IInv
<1> QED BY <1>1, Invariant, PTL

\* While the loop of borrow_connection runs, on behalf of one task, what is
\* still wanted of the pool is fit and is still in it.
LoopInv ==
    \A t \in Tasks : at[t] = "popping" =>
        /\ \A u \in Tasks : at[u] = "popping" => u = t
        /\ wanted \subseteq Pooled(key[t])
        /\ \A c \in wanted : Healthy(c)

\* A step outside the loop leaves no task in it.
LEMMA NotInLoop ==
    ASSUME IInv, ~InLoop, NEW t \in Tasks, at' = [at EXCEPT ![t] = "idle"]
                             \/ at' = [at EXCEPT ![t] = "connecting"]
                             \/ at' = [at EXCEPT ![t] = "holding"] \/ UNCHANGED at
    PROVE  LoopInv'
BY DEF InLoop, LoopInv, IInv, PoolTypeOK

\* Every action keeps the loop's invariant.
LEMMA NextLoopInv == IInv /\ LoopInv /\ [PoolNext]_poolVars => LoopInv'
<1> SUFFICES ASSUME IInv, LoopInv, [PoolNext]_poolVars PROVE LoopInv'
  OBVIOUS
<1>1. ASSUME NEW t \in Tasks, NEW k \in Keys, BorrowConnection(t, k) PROVE LoopInv'
  <2>1. \A u \in Tasks : at'[u] = "popping" => u = t
    BY <1>1 DEF BorrowConnection, InLoop, IInv, PoolTypeOK
  <2>2. key'[t] = k /\ Pooled(k)' = Pooled(k) /\ \A c : Healthy(c)' = Healthy(c)
    BY <1>1 DEF BorrowConnection, IInv, PoolTypeOK, Pooled, Healthy
  <2>3. wanted' \subseteq Pooled(k)' /\ \A c \in wanted' : Healthy(c)'
    BY <1>1, <2>2 DEF BorrowConnection
  <2> QED BY <2>1, <2>2, <2>3 DEF LoopInv
<1>2. ASSUME NEW t \in Tasks, PopHealthy(t) \/ StartConnect(t) PROVE LoopInv'
  BY <1>2 DEF PopHealthy, StartConnect, Hold, LoopInv, IInv, PoolTypeOK
<1>3. ASSUME NEW t \in Tasks, PopUnhealthy(t) PROVE LoopInv'
  <2> PICK k \in Keys : k = key[t]
    BY <1>3 DEF PopUnhealthy, IInv, TaskState, PoolTypeOK
  <2> PICK c : c = Newest(k)
    OBVIOUS
  <2>1. /\ at[t] = "popping" /\ pools[k] # << >> /\ Pop(k) /\ ~Healthy(c)
        /\ conn' = Destroyed({c}) /\ at' = at /\ key' = key /\ wanted' = wanted
    BY <1>3 DEF PopUnhealthy, taskVars
  <2>2. Pooled(k)' = Pooled(k) \ {c}
    BY <2>1, PopsNewest
  <2>3. /\ \A u \in Tasks : at[u] = "popping" => u = t
        /\ wanted \subseteq Pooled(k) /\ \A d \in wanted : Healthy(d)
    BY <2>1 DEF LoopInv
  <2>4. wanted' \subseteq Pooled(k)'
    BY <2>1, <2>2, <2>3
  <2>5. \A d \in wanted : Healthy(d)'
    <3> SUFFICES ASSUME NEW d \in wanted PROVE conn'[d] = conn[d]
      BY <2>3 DEF Healthy
    <3>1. d # c /\ d \in Connections
      BY <2>1, <2>3 DEF IInv, PoolTypeOK
    <3> QED BY <2>1, <3>1 DEF Destroyed
  <2>6. key'[t] = k
    BY <2>1
  <2> QED BY <2>1, <2>3, <2>4, <2>5, <2>6 DEF LoopInv
<1>4. ASSUME NEW t \in Tasks,
             Resolved(t) \/ (\E c \in Connections : Connected(t, c)) \/ ConnectFails(t)
               \/ ReturnConnection(t) \/ Drop(t) \/ CloseSocket(t)
      PROVE  LoopInv'
  <2>1. ~InLoop
    BY <1>4 DEF Resolved, Connected, ConnectFails, ReturnConnection, Drop, CloseSocket
  <2>2. \/ at' = [at EXCEPT ![t] = "idle"] \/ at' = [at EXCEPT ![t] = "connecting"]
        \/ at' = [at EXCEPT ![t] = "holding"] \/ UNCHANGED at
    BY <1>4 DEF Resolved, Connected, ConnectFails, ReturnConnection, Drop, CloseSocket,
                Hold, BecomeIdle, taskVars
  <2> QED BY <2>1, <2>2, NotInLoop
<1>5. CASE CleanupIdleConnections
  BY <1>5 DEF CleanupIdleConnections, InLoop, LoopInv, taskVars
<1>6. ASSUME NEW c \in Connections, PeerCloses(c) PROVE LoopInv'
  <2>1. \A d : Pooled(d)' = Pooled(d)
    BY <1>6 DEF PeerCloses, Pooled
  <2>2. \A d \in Connections : Healthy(d)' = Healthy(d)
    BY <1>6 DEF PeerCloses, Healthy, IInv, PoolTypeOK
  <2>3. at' = at /\ key' = key /\ wanted' = wanted /\ wanted \subseteq Connections
    BY <1>6 DEF PeerCloses, taskVars, IInv, PoolTypeOK
  <2> QED BY <2>1, <2>2, <2>3 DEF LoopInv
<1>7. CASE PoolTick
  <2>1. \A k : Pooled(k)' = Pooled(k)
    BY <1>7 DEF PoolTick, Pooled
  <2>2. at' = at /\ key' = key /\ wanted' \subseteq wanted /\ \A c \in wanted' : Healthy(c)'
    BY <1>7 DEF PoolTick, taskVars
  <2> QED BY <2>1, <2>2 DEF LoopInv
<1>8. CASE UNCHANGED poolVars
  BY <1>8 DEF poolVars, taskVars, LoopInv, Pooled, Healthy
<1> QED BY <1>1, <1>2, <1>3, <1>4, <1>5, <1>6, <1>7, <1>8 DEF PoolNext

\* In every reachable state the loop wants only what the pool still has.
THEOREM LoopCorrect == PoolSpec => []LoopInv
<1>1. PoolInit => LoopInv
  BY DEF PoolInit, LoopInv
<1> QED BY <1>1, NextLoopInv, Invariant, PTL DEF PoolSpec

\* A task goes from the loop to the resolver in no other step than with an
\* empty pool, of which nothing can be wanted.
LEMMA ReuseStep ==
    ASSUME IInv, LoopInv, [PoolNext]_poolVars,
           NEW t \in Tasks, at[t] = "popping", at'[t] = "resolving"
    PROVE  wanted = {}
<1> USE DEF IInv, PoolTypeOK
<1>1. ASSUME NEW u \in Tasks, StartConnect(u) PROVE wanted = {}
  <2>1. t = u /\ pools[key[t]] = << >>
    BY <1>1 DEF StartConnect
  <2>2. Pooled(key[t]) = {}
    BY <2>1 DEF Pooled
  <2> QED BY <2>2 DEF LoopInv
<1>2. ASSUME NEW u \in Tasks,
             (\E k \in Keys : BorrowConnection(u, k)) \/ PopHealthy(u) \/ PopUnhealthy(u)
      PROVE  FALSE
  BY <1>2 DEF BorrowConnection, PopHealthy, PopUnhealthy, Hold, taskVars
<1>3. ASSUME NEW u \in Tasks,
             Resolved(u) \/ (\E c \in Connections : Connected(u, c)) \/ ConnectFails(u)
               \/ ReturnConnection(u) \/ Drop(u) \/ CloseSocket(u)
      PROVE  FALSE
  BY <1>3 DEF Resolved, Connected, ConnectFails, ReturnConnection, Drop, CloseSocket, InLoop
<1>4. CASE CleanupIdleConnections \/ PoolTick \/ UNCHANGED poolVars
           \/ \E c \in Connections : PeerCloses(c)
  BY <1>4 DEF CleanupIdleConnections, PoolTick, PeerCloses, poolVars, taskVars
<1> QED BY <1>1, <1>2, <1>3, <1>4 DEF PoolNext

\* borrow_connection never connects while a connection that its pool held at
\* the call is still fit for use: the loop of pops loses none of them and does
\* not stop before the pool is empty, for pools of any length.
THEOREM ReuseBeforeConnectCorrect == PoolSpec => ReuseBeforeConnect
<1>1. IInv /\ LoopInv /\ [PoolNext]_poolVars =>
        [\A t \in Tasks : at[t] = "popping" /\ at'[t] = "resolving" => wanted = {}]_poolVars
  BY ReuseStep
<1> QED BY <1>1, Invariant, LoopCorrect, PTL DEF PoolSpec, ReuseBeforeConnect

\* A fit connection of a pool stays in it or is lent.
LEMMA HealthyStep ==
    ASSUME IInv, [PoolNext]_poolVars, NEW k \in Keys, NEW c \in Pooled(k), Healthy(c)
    PROVE  c \in Pooled(k)' \/ \E t \in Tasks : held'[t] = c
<1> DEFINE Goal == c \in Pooled(k)' \/ \E t \in Tasks : held'[t] = c
<1>1. PICK m \in DOMAIN pools[k] : c = pools[k][m]
  BY PoolElements DEF IInv
<1>2. pools[k] \in Seq(Connections) /\ Len(pools[k]) \in Nat /\ m \in 1..Len(pools[k])
  BY PoolElements DEF IInv
<1>3. pools'[k] = pools[k] => Goal
  BY <1>1 DEF Pooled
<1>4. ASSUME NEW t \in Tasks, PopHealthy(t) \/ PopUnhealthy(t) PROVE Goal
  <2> PICK l \in Keys : l = key[t]
    BY <1>4 DEF PopHealthy, PopUnhealthy, IInv, TaskState, PoolTypeOK
  <2> PICK d : d = Newest(l)
    OBVIOUS
  <2>1. pools[l] # << >> /\ Pop(l)
    BY <1>4 DEF PopHealthy, PopUnhealthy
  <2>2. /\ Pooled(l)' = Pooled(l) \ {d}
        /\ \A m1 \in Keys : m1 # l => pools'[m1] = pools[m1]
    BY <2>1, PopsNewest
  <2>3. CASE l # k
    BY <1>3, <2>2, <2>3
  <2>4. CASE l = k /\ c # d
    BY <2>2, <2>4, Zenon
  <2>5. CASE l = k /\ c = d
    <3>1. PopHealthy(t)
      BY <1>4, <2>5 DEF PopUnhealthy
    <3> QED BY <2>5, <3>1 DEF PopHealthy, Hold, IInv, PoolTypeOK
  <2> QED BY <2>3, <2>4, <2>5
<1>5. ASSUME NEW t \in Tasks, (\E l \in Keys : BorrowConnection(t, l)) \/ StartConnect(t)
      PROVE  Goal
  BY <1>3, <1>5 DEF BorrowConnection, StartConnect
<1>6. ASSUME NEW t \in Tasks, ReturnConnection(t) PROVE Goal
  <2>1. CASE UNCHANGED pools
    BY <1>3, <2>1
  <2>2. CASE pools' = [pools EXCEPT ![key[t]] = Append(@, held[t])]
    <3>1. at[t] = "holding" /\ key[t] \in Keys /\ held[t] \in Connections
      BY <1>6 DEF ReturnConnection, IInv, PoolTypeOK, TaskState
    <3>2. CASE key[t] # k
      BY <1>3, <2>2, <3>2 DEF IInv, PoolTypeOK
    <3>3. CASE key[t] = k
      <4>1. pools'[k] = Append(pools[k], held[t])
        BY <2>2, <3>1, <3>3 DEF IInv, PoolTypeOK
      <4>2. m \in DOMAIN pools'[k] /\ pools'[k][m] = c
        BY <1>1, <1>2, <3>1, <4>1, AppendProperties, LenProperties
      <4> QED BY <4>2 DEF Pooled
    <3> QED BY <3>2, <3>3
  <2> QED BY <1>6, <2>1, <2>2 DEF ReturnConnection
<1>7. CASE CleanupIdleConnections
  <2> DEFINE fit == {n \in DOMAIN pools[k] : Healthy(pools[k][n])}
  <2>1. m \in fit /\ fit \in SUBSET DOMAIN pools[k]
    BY <1>1
  <2>2. pools'[k] = At(pools[k], fit)
    BY <1>7 DEF CleanupIdleConnections
  <2> HIDE DEF fit
  <2>3. \E i \in DOMAIN pools'[k] : pools'[k][i] = c
    BY <1>1, <1>2, <2>1, <2>2, AtSelects
  <2> QED BY <2>3 DEF Pooled
<1>8. ASSUME NEW t \in Tasks, NEW d \in Connections, Connected(t, d) PROVE Goal
  BY <1>3, <1>8 DEF Connected
<1>9. ASSUME NEW t \in Tasks,
             Resolved(t) \/ ConnectFails(t) \/ Drop(t) \/ CloseSocket(t)
      PROVE  Goal
  BY <1>3, <1>9 DEF Resolved, ConnectFails, Drop, CloseSocket
<1>10. ASSUME NEW d \in Connections, PeerCloses(d) PROVE Goal
  BY <1>3, <1>10 DEF PeerCloses
<1>11. CASE PoolTick \/ UNCHANGED poolVars
  BY <1>3, <1>11 DEF PoolTick, poolVars
<1>12. CASE \E t \in Tasks :
              \/ \E l \in Keys : BorrowConnection(t, l)
              \/ PopHealthy(t) \/ PopUnhealthy(t) \/ StartConnect(t)
              \/ Resolved(t)
              \/ \E d \in Connections : Connected(t, d)
              \/ ConnectFails(t) \/ ReturnConnection(t) \/ Drop(t) \/ CloseSocket(t)
  BY <1>4, <1>5, <1>6, <1>8, <1>9, <1>12, Zenon
<1> QED BY <1>7, <1>10, <1>11, <1>12, Zenon DEF PoolNext

\* The pool never throws a fit connection away: borrow_connection lends it,
\* and neither the loop behind it nor cleanup_idle_connections destroys it.
THEOREM HealthyNeverDiscardedCorrect == PoolSpec => HealthyNeverDiscarded
<1>1. IInv /\ [PoolNext]_poolVars =>
        [\A k \in Keys : \A c \in Pooled(k) : Healthy(c) =>
            c \in Pooled(k)' \/ \E t \in Tasks : held'[t] = c]_poolVars
  BY HealthyStep
<1> QED BY <1>1, Invariant, PTL DEF PoolSpec, HealthyNeverDiscarded
=============================================================================
