--------------------------- MODULE QuorumTheorems ---------------------------
(***************************************************************************)
(* Facts about struct quorum and about majorities, for any number of       *)
(* acceptors, about the positions of a list and of a ring, and about lists *)
(* whose items have an iid.                                                *)
(***************************************************************************)
EXTENDS PaxosQuorum, Sublists, FiniteSetTheorems, WellFoundedInduction, TLAPS

\* The acceptors are a finite set of `acceptors` ids.
LEMMA AcceptorIdFinite ==
  /\ IsFiniteSet(AcceptorId)
  /\ Cardinality(AcceptorId) = acceptors
  <1>1. 0 \in Int /\ acceptors - 1 \in Int
    BY AcceptorsAssumption
  <1>2. /\ IsFiniteSet(0 .. acceptors - 1)
        /\ Cardinality(0 .. acceptors - 1) =
             IF 0 > acceptors - 1 THEN 0 ELSE (acceptors - 1) - 0 + 1
    BY <1>1, FS_Interval
  <1>3. QED
    BY <1>2, AcceptorsAssumption DEF AcceptorId

\* paxos_quorum(acceptors) acceptors are a majority.
LEMMA QuorumIsMajority ==
  ASSUME NEW n \in Nat, n >= paxos_quorum(acceptors)
  PROVE  2 * n > acceptors
  BY AcceptorsAssumption DEF paxos_quorum

\* Any two majorities share an acceptor.
LEMMA MajoritiesIntersect ==
  \A Q, R \in Majority : Q \cap R # {}
  <1> SUFFICES ASSUME NEW Q \in Majority, NEW R \in Majority, Q \cap R = {}
               PROVE FALSE
    OBVIOUS
  <1>1. Q \subseteq AcceptorId /\ R \subseteq AcceptorId
    BY DEF Majority
  <1>2. IsFiniteSet(Q) /\ IsFiniteSet(R)
    BY <1>1, AcceptorIdFinite, FS_Subset
  <1>3. Cardinality(Q \cup R) = Cardinality(Q) + Cardinality(R) - Cardinality(Q \cap R)
    BY <1>2, FS_Union
  <1>4. Cardinality(Q \cap R) = 0
    BY FS_EmptySet
  <1>5. Cardinality(Q \cup R) <= acceptors
    BY <1>1, AcceptorIdFinite, FS_Subset, Q \cup R \subseteq AcceptorId
  <1>6. /\ Cardinality(Q) \in Nat /\ Cardinality(R) \in Nat
        /\ 2 * Cardinality(Q) > acceptors
        /\ 2 * Cardinality(R) > acceptors
    BY <1>2, FS_CardinalityType DEF Majority
  <1>7. QED
    BY <1>3, <1>4, <1>5, <1>6, AcceptorsAssumption

\* A majority is not empty.
LEMMA MajorityNonEmpty ==
  \A Q \in Majority : Q # {}
  BY MajoritiesIntersect

\* A non-empty set of natural numbers has a smallest element.
LEMMA SmallestExists ==
  ASSUME NEW T \in SUBSET Nat, T # {}
  PROVE  \E x \in T : \A y \in T : x <= y
  <1> DEFINE R == OpToRel(<, Nat)
  <1>1. IsWellFoundedOn(R, Nat)
    BY NatLessThanWellFounded, Zenon
  <1>2. \A x, y \in Nat : <<y, x>> \in R <=> y < x
    BY DEF OpToRel
  <1> HIDE DEF R
  <1>3. PICK x \in T : \A y \in T : ~(<<y, x>> \in R)
    BY <1>1, WFMin, Zenon
  <1>4. \A y \in T : x <= y
    <2> TAKE y \in T
    <2>1. x \in Nat /\ y \in Nat
      OBVIOUS
    <2>2. ~(y < x)
      BY <1>2, <1>3, <2>1, Zenon
    <2>3. QED
      BY <2>1, <2>2
  <1>5. QED
    BY <1>4

\* A non-empty set of numbers below n has a largest element: the a_valid_index of
\* instance_has_quorum exists.
LEMMA LargestExists ==
  ASSUME NEW n \in Nat, NEW S \in SUBSET (0 .. n - 1), S # {}
  PROVE  \E a \in S : \A b \in S : b <= a
  <1> DEFINE T == {n - a : a \in S}
  <1>1. T \in SUBSET Nat /\ T # {}
    <2>1. \A a \in S : n - a \in Nat
      OBVIOUS
    <2>2. QED
      BY <2>1, Zenon
  <1>2. \A b \in S : n - b \in T
    OBVIOUS
  <1>3. \A x \in T : \E a \in S : x = n - a
    OBVIOUS
  <1> HIDE DEF T
  <1>4. PICK x \in T : \A y \in T : x <= y
    BY <1>1, SmallestExists
  <1>5. PICK a \in S : x = n - a
    BY <1>3
  <1>6. QED
    BY <1>2, <1>4, <1>5
-----------------------------------------------------------------------------
(* The quorum struct *)

\* quorum_clear yields an empty, consistent tally.
LEMMA ClearedTally ==
  ASSUME NEW q \in QuorumType
  PROVE  /\ quorum_clear(q) \in QuorumType
         /\ TallyInv(quorum_clear(q))
         /\ quorum_clear(q).counted = {}
         /\ quorum_clear(q).count = 0
  <1>1. Cardinality({}) = 0
    BY FS_EmptySet
  <1>2. QED
    BY <1>1 DEF QuorumType, quorum_clear, TallyInv

\* So does quorum_init, whatever malloc returned.
LEMMA InitialTally ==
  ASSUME NEW q \in quorum_init
  PROVE  q \in QuorumType /\ TallyInv(q) /\ q.counted = {}
  <1>1. PICK ids \in [AcceptorId -> {0, 1}] :
          q = quorum_clear([count |-> 0, acceptor_ids |-> ids, counted |-> {}])
    BY Zenon DEF quorum_init
  <1>2. [count |-> 0, acceptor_ids |-> ids, counted |-> {}] \in QuorumType
    BY DEF QuorumType
  <1>3. QED
    BY <1>1, <1>2, ClearedTally

\* quorum_add keeps the struct well formed.
LEMMA AddedType ==
  ASSUME NEW q \in QuorumType, NEW a \in AcceptorId
  PROVE  quorum_add(q, a) \in QuorumType
  BY DEF QuorumType, quorum_add

\* Adding an acceptor counts it at most once.
LEMMA AddedTally ==
  ASSUME NEW q \in QuorumType, TallyInv(q), NEW a \in AcceptorId
  PROVE  /\ quorum_add(q, a) \in QuorumType
         /\ TallyInv(quorum_add(q, a))
         /\ quorum_add(q, a).counted \subseteq q.counted \cup {a}
  <1>1. CASE ~ quorum_adds(q, a)
    BY <1>1 DEF quorum_add
  <1>2. CASE quorum_adds(q, a)
    <2>1. a \notin q.counted
      BY <1>2 DEF TallyInv, quorum_adds
    <2>2. IsFiniteSet(q.counted)
      BY AcceptorIdFinite, FS_Subset DEF QuorumType
    <2>3. Cardinality(q.counted \cup {a}) = Cardinality(q.counted) + 1
      BY <2>1, <2>2, FS_AddElement, Zenon
    <2>4. quorum_add(q, a) = [count        |-> q.count + 1,
                              acceptor_ids |-> [q.acceptor_ids EXCEPT ![a] = 1],
                              counted      |-> q.counted \cup {a}]
      BY <1>2 DEF quorum_add
    <2>5. QED
      BY <2>3, <2>4 DEF QuorumType, TallyInv
  <1>3. QED
    BY <1>1, <1>2

\* A tally that has reached the quorum stands for a majority.
LEMMA ReachedTally ==
  ASSUME NEW q \in QuorumType, TallyInv(q), quorum_reached(q)
  PROVE  q.counted \in Majority
  BY QuorumIsMajority DEF QuorumType, TallyInv, quorum_reached, Majority
-----------------------------------------------------------------------------
(* Positions and their ranks *)

\* A rank is a natural number.
LEMMA RankType ==
  ASSUME NEW N \in Nat, NEW K \in SUBSET (1 .. N), NEW n \in Nat
  PROVE  IsFiniteSet({k \in K : k <= n}) /\ rank(K, n) \in Nat
  <1>1. IsFiniteSet(1 .. N)
    BY FS_Interval
  <1>2. IsFiniteSet({k \in K : k <= n})
    BY <1>1, FS_Subset, Zenon
  <1>3. QED
    BY <1>2, FS_CardinalityType DEF rank

\* No position is among the first 0.
LEMMA RankZero ==
  ASSUME NEW N \in Nat, NEW K \in SUBSET (1 .. N)
  PROVE  rank(K, 0) = 0
  <1>1. \A k \in K : ~(k <= 0)
    OBVIOUS
  <1>2. {k \in K : k <= 0} = {}
    BY <1>1, Zenon
  <1>3. QED
    BY <1>2, FS_EmptySet DEF rank

\* The rank goes up by one at a position of K.
LEMMA RankStep ==
  ASSUME NEW N \in Nat, NEW K \in SUBSET (1 .. N), NEW n \in Nat
  PROVE  /\ n + 1 \in K => rank(K, n + 1) = rank(K, n) + 1
         /\ n + 1 \notin K => rank(K, n + 1) = rank(K, n)
  <1> DEFINE F == {k \in K : k <= n}
             G == {k \in K : k <= n + 1}
  <1>1. IsFiniteSet(F) /\ n + 1 \notin F
    <2>1. ~(n + 1 <= n)
      OBVIOUS
    <2>2. QED
      BY <2>1, RankType, Zenon
  <1>2. \A k \in K : k <= n + 1 <=> k <= n \/ k = n + 1
    <2>1. \A k \in K : k \in Nat
      OBVIOUS
    <2>2. \A k \in Nat : k <= n + 1 <=> k <= n \/ k = n + 1
      OBVIOUS
    <2>3. QED
      BY <2>1, <2>2
  <1>3. n + 1 <= n + 1
    OBVIOUS
  <1>4. CASE n + 1 \in K
    <2>1. G = F \cup {n + 1}
      BY <1>2, <1>3, <1>4, Zenon
    <2> HIDE DEF F, G
    <2>2. Cardinality(G) = Cardinality(F) + 1
      BY <1>1, <2>1, FS_AddElement
    <2>3. QED
      BY <1>4, <2>2 DEF rank, F, G
  <1>5. CASE n + 1 \notin K
    <2>1. G = F
      BY <1>2, <1>5, Zenon
    <2>2. QED
      BY <1>5, <2>1 DEF rank
  <1>6. QED
    BY <1>4, <1>5

\* The rank grows with the number of positions looked at.
LEMMA RankMonotone ==
  ASSUME NEW N \in Nat, NEW K \in SUBSET (1 .. N), NEW m \in Nat, NEW n \in Nat, m <= n
  PROVE  rank(K, m) <= rank(K, n)
  <1>1. \A k \in K : k <= m => k <= n
    OBVIOUS
  <1>2. {k \in K : k <= m} \subseteq {k \in K : k <= n}
    BY <1>1, Zenon
  <1>3. IsFiniteSet({k \in K : k <= n})
    BY RankType, Zenon
  <1>4. QED
    BY <1>2, <1>3, FS_Subset, Zenon DEF rank

\* Among all positions, the rank is the size of the set.
LEMMA RankOfAll ==
  ASSUME NEW N \in Nat, NEW K \in SUBSET (1 .. N)
  PROVE  rank(K, N) = Cardinality(K)
  <1>1. \A k \in K : k <= N
    OBVIOUS
  <1>2. {k \in K : k <= N} = K
    BY <1>1, Zenon
  <1>3. QED
    BY <1>2, Zenon DEF rank

\* Every number up to the rank of n is the rank of a position up to n.
LEMMA RankReached ==
  ASSUME NEW N \in Nat, NEW K \in SUBSET (1 .. N), NEW n \in Nat, NEW j \in 1 .. rank(K, n)
  PROVE  \E k \in K : k <= n /\ rank(K, k) = j
  <1> DEFINE T == {i \in Nat : rank(K, i) >= j}
  <1>1. \A i \in Nat : rank(K, i) \in Nat
    BY RankType, Zenon
  <1>2. n \in T /\ j \in Nat /\ j >= 1
    BY <1>1
  <1>3. PICK i \in T : \A l \in T : i <= l
    <2>1. T \in SUBSET Nat /\ T # {}
      BY <1>2
    <2> HIDE DEF T
    <2>2. QED
      BY <2>1, SmallestExists
  <1>4. i \in Nat /\ rank(K, i) >= j /\ i <= n
    BY <1>2, <1>3
  <1>5. i # 0
    BY <1>2, <1>4, RankZero
  <1>6. i - 1 \in Nat /\ ~(i - 1 \in T)
    BY <1>3, <1>4, <1>5
  <1>7. rank(K, i - 1) < j
    BY <1>1, <1>2, <1>6
  <1>8. (i - 1) + 1 = i
    BY <1>4
  <1>9. /\ i \in K => rank(K, i) = rank(K, i - 1) + 1
        /\ i \notin K => rank(K, i) = rank(K, i - 1)
    <2>1. /\ (i - 1) + 1 \in K => rank(K, (i - 1) + 1) = rank(K, i - 1) + 1
          /\ (i - 1) + 1 \notin K => rank(K, (i - 1) + 1) = rank(K, i - 1)
      BY <1>6, RankStep, Zenon
    <2>2. QED
      BY <1>8, <2>1
  <1> HIDE DEF T
  <1>10. rank(K, i - 1) \in Nat /\ rank(K, i) \in Nat
    BY <1>1, <1>4, <1>6
  <1>11. i \in K /\ rank(K, i) = j
    BY <1>2, <1>4, <1>7, <1>9, <1>10
  <1>12. QED
    BY <1>4, <1>11

\* Two positions of K have different ranks.
LEMMA RankInjective ==
  ASSUME NEW N \in Nat, NEW K \in SUBSET (1 .. N), NEW k \in K, NEW l \in K, k < l
  PROVE  rank(K, k) < rank(K, l)
  <1>1. k \in Nat /\ l - 1 \in Nat /\ k <= l - 1 /\ (l - 1) + 1 = l
    OBVIOUS
  <1>2. rank(K, (l - 1) + 1) = rank(K, l - 1) + 1
    <2>1. (l - 1) + 1 \in K
      BY <1>1
    <2>2. QED
      BY <1>1, <2>1, RankStep, Zenon
  <1>3. rank(K, k) <= rank(K, l - 1)
    BY <1>1, RankMonotone, Zenon
  <1>4. rank(K, k) \in Nat /\ rank(K, l - 1) \in Nat
    BY <1>1, RankType, Zenon
  <1>5. QED
    BY <1>1, <1>2, <1>3, <1>4

\* The items of a sublist are those at the positions.
LEMMA NthPosition ==
  ASSUME NEW N \in Nat, NEW K \in SUBSET (1 .. N), NEW j \in 1 .. Cardinality(K)
  PROVE  nth(K, j) \in K /\ rank(K, nth(K, j)) = j
  <1>1. j \in 1 .. rank(K, N)
    BY RankOfAll
  <1>2. \E k \in K : rank(K, k) = j
    BY <1>1, RankReached
  <1>3. QED
    BY <1>2 DEF nth

\* A position of K is the nth one of its rank.
LEMMA NthOfRank ==
  ASSUME NEW N \in Nat, NEW K \in SUBSET (1 .. N), NEW k \in K
  PROVE  nth(K, rank(K, k)) = k
  <1> DEFINE l == nth(K, rank(K, k))
  <1>1. l \in K /\ rank(K, l) = rank(K, k)
    BY DEF nth
  <1> HIDE DEF l
  <1>2. k \in Nat /\ l \in Nat
    BY <1>1
  <1>3. rank(K, k) \in Nat /\ rank(K, l) \in Nat
    BY <1>2, RankType, Zenon
  <1>4. ~(k < l) /\ ~(l < k)
    <2>1. k < l => rank(K, k) < rank(K, l)
      BY <1>1, RankInjective
    <2>2. l < k => rank(K, l) < rank(K, k)
      BY <1>1, RankInjective, Zenon
    <2>3. QED
      BY <1>1, <1>3, <2>1, <2>2
  <1>5. QED
    BY <1>2, <1>4 DEF l
-----------------------------------------------------------------------------
(* Positions in a ring *)

\* A step of less than the size from a slot wraps around at most once.
LEMMA WrapsOnce ==
  ASSUME NEW n \in Nat \ {0}, NEW m \in 0 .. 2 * n - 1
  PROVE  /\ m < n => m % n = m
         /\ m >= n => m % n = m - n
  <1> DEFINE d == m \div n
  <1>1. d \in Int /\ m = n * d + (m % n) /\ m % n \in 0 .. n - 1
    OBVIOUS
  <1> HIDE DEF d
  <1>2. d >= 0
    <2>1. CASE d <= -1
      <3>1. n * d <= -n
        BY <1>1, <2>1
      <3>2. QED
        BY <1>1, <3>1
    <2>2. QED
      BY <1>1, <2>1
  <1>3. d <= 1
    <2>1. CASE d >= 2
      <3>1. n * d >= 2 * n
        BY <1>1, <2>1
      <3>2. QED
        BY <1>1, <3>1
    <2>2. QED
      BY <1>1, <2>1
  <1>4. d = 0 \/ d = 1
    BY <1>1, <1>2, <1>3
  <1>5. CASE d = 0
    BY <1>1, <1>5
  <1>6. CASE d = 1
    BY <1>1, <1>6
  <1>7. QED
    BY <1>4, <1>5, <1>6
-----------------------------------------------------------------------------
(* Lists whose items have an iid *)

\* Every position of a list has an instance of its own.
Distinct(list) ==
  \A j, k \in 1 .. Len(list) : list[j].iid = list[k].iid => j = k

\* What a list holds, whatever the order.
entries(list) == {list[k] : k \in 1 .. Len(list)}

\* A concatenation has the entries of both lists.
LEMMA ConcatEntries ==
  ASSUME NEW E, NEW s \in Seq(E), NEW t \in Seq(E)
  PROVE  /\ entries(s \o t) = entries(s) \cup entries(t)
         /\ iids(s \o t) = iids(s) \cup iids(t)
  <1>1. ASSUME NEW k \in 1 .. Len(s \o t)
        PROVE  (s \o t)[k] \in entries(s) \cup entries(t)
    <2>1. CASE k \in 1 .. Len(s)
      BY <2>1 DEF entries
    <2>2. CASE ~(k \in 1 .. Len(s))
      <3>1. k - Len(s) \in 1 .. Len(t) /\ (s \o t)[k] = t[k - Len(s)]
        BY <2>2
      <3>2. QED
        BY <3>1 DEF entries
    <2>3. QED
      BY <2>1, <2>2
  <1>2. \A k \in 1 .. Len(s) : s[k] \in entries(s \o t)
    BY DEF entries
  <1>3. ASSUME NEW k \in 1 .. Len(t)
        PROVE  t[k] \in entries(s \o t)
    <2>1. Len(s) + k \in 1 .. Len(s \o t) /\ (s \o t)[Len(s) + k] = t[k]
      OBVIOUS
    <2>2. QED
      BY <2>1, Zenon DEF entries
  <1>4. entries(s \o t) = entries(s) \cup entries(t)
    BY <1>1, <1>2, <1>3, Zenon DEF entries
  <1>5. /\ iids(s) = {e.iid : e \in entries(s)}
        /\ iids(t) = {e.iid : e \in entries(t)}
        /\ iids(s \o t) = {e.iid : e \in entries(s) \cup entries(t)}
    <2>1. \A u : iids(u) = {e.iid : e \in entries(u)}
      BY Zenon DEF iids, entries
    <2>2. QED
      BY <1>4, <2>1, Zenon
  <1>6. iids(s \o t) = iids(s) \cup iids(t)
    BY <1>5, Zenon
  <1>7. QED
    BY <1>4, <1>6, Zenon

\* Lists with distinct iids, none in common, make such a list.
LEMMA ConcatDistinct ==
  ASSUME NEW E, NEW s \in Seq(E), NEW t \in Seq(E),
         Distinct(s), Distinct(t), iids(s) \cap iids(t) = {}
  PROVE  Distinct(s \o t)
  <1> SUFFICES ASSUME NEW j \in 1 .. Len(s \o t), NEW k \in 1 .. Len(s \o t),
                      (s \o t)[j].iid = (s \o t)[k].iid
               PROVE  j = k
    BY Zenon DEF Distinct
  <1>1. \A l \in 1 .. Len(s) : \A m \in 1 .. Len(t) : s[l].iid # t[m].iid
    BY Zenon DEF iids
  <1>2. CASE j \in 1 .. Len(s)
    <2>1. CASE k \in 1 .. Len(s)
      BY <1>2, <2>1 DEF Distinct
    <2>2. CASE ~(k \in 1 .. Len(s))
      <3>1. k - Len(s) \in 1 .. Len(t) /\ (s \o t)[k] = t[k - Len(s)]
        BY <2>2
      <3>2. (s \o t)[j] = s[j]
        BY <1>2
      <3>3. QED
        BY <1>1, <1>2, <3>1, <3>2, Zenon
    <2>3. QED
      BY <2>1, <2>2
  <1>3. CASE ~(j \in 1 .. Len(s))
    <2>1. j - Len(s) \in 1 .. Len(t) /\ (s \o t)[j] = t[j - Len(s)]
      BY <1>3
    <2>2. CASE k \in 1 .. Len(s)
      BY <1>1, <2>1, <2>2
    <2>3. CASE ~(k \in 1 .. Len(s))
      <3>1. k - Len(s) \in 1 .. Len(t) /\ (s \o t)[k] = t[k - Len(s)]
        BY <2>3
      <3>2. j - Len(s) = k - Len(s)
        BY <2>1, <3>1 DEF Distinct
      <3>3. QED
        BY <3>2
    <2>4. QED
      BY <2>2, <2>3
  <1>4. QED
    BY <1>2, <1>3

\* Removing the items with the iid of position k removes that one, and no other.
LEMMA RemovedItem ==
  ASSUME NEW E, NEW s \in Seq(E), Distinct(s), NEW k \in 1 .. Len(s)
  PROVE  LET t == sublist(s, {l \in 1 .. Len(s) : s[l].iid # s[k].iid})
         IN /\ t \in Seq(E)
            /\ Distinct(t)
            /\ iids(t) = iids(s) \ {s[k].iid}
            /\ \A e \in entries(t) : e \in entries(s) /\ e.iid # s[k].iid
            /\ \A e \in entries(s) : e = s[k] \/ e \in entries(t)
  <1> DEFINE K == {l \in 1 .. Len(s) : s[l].iid # s[k].iid}
             t == sublist(s, {l \in 1 .. Len(s) : s[l].iid # s[k].iid})
  <1>1. t = [j \in 1 .. Cardinality(K) |-> s[nth(K, j)]]
    BY Zenon DEF sublist
  <1>2. \A l \in 1 .. Len(s) : l \in K <=> l # k
    BY DEF Distinct
  <1>3. Len(s) \in Nat /\ K \in SUBSET (1 .. Len(s))
    OBVIOUS
  <1> HIDE DEF K, t
  <1>4. \A j \in 1 .. Cardinality(K) : nth(K, j) \in K /\ rank(K, nth(K, j)) = j
    BY <1>3, NthPosition, Zenon
  <1>5. \A l \in K : nth(K, rank(K, l)) = l
    BY <1>3, NthOfRank, Zenon
  <1>6. rank(K, Len(s)) = Cardinality(K) /\ Cardinality(K) \in Nat
    BY <1>3, RankOfAll, RankType, Zenon
  <1>7. \A l \in K : rank(K, l) \in 1 .. Cardinality(K)
    <2> SUFFICES ASSUME NEW l \in K
                 PROVE  rank(K, l) \in 1 .. Cardinality(K)
      OBVIOUS
    <2>1. l \in Nat /\ l - 1 \in Nat /\ (l - 1) + 1 = l /\ l <= Len(s)
      BY <1>3
    <2>2. rank(K, l) <= Cardinality(K)
      BY <1>3, <1>6, <2>1, RankMonotone, Zenon
    <2>3. (l - 1) + 1 \in K
      BY <2>1
    <2>4. rank(K, (l - 1) + 1) = rank(K, l - 1) + 1 /\ rank(K, l - 1) \in Nat
      BY <1>3, <2>1, <2>3, RankStep, RankType, Zenon
    <2>5. QED
      BY <1>6, <2>1, <2>2, <2>4
  <1>8. \A j \in 1 .. Cardinality(K) : s[nth(K, j)] \in E
    <2>1. \A l \in 1 .. Len(s) : s[l] \in E
      OBVIOUS
    <2>2. QED
      BY <1>3, <1>4, <2>1, Zenon
  <1>9. t \in Seq(E) /\ Len(t) = Cardinality(K)
    BY <1>1, <1>6, <1>8
  <1>10. \A j \in 1 .. Len(t) : nth(K, j) \in 1 .. Len(s) /\ nth(K, j) # k /\ t[j] = s[nth(K, j)]
    BY <1>1, <1>2, <1>3, <1>4, <1>9, Zenon
  <1>11. ASSUME NEW l \in 1 .. Len(s), l # k
         PROVE  s[l] \in entries(t)
    <2>1. l \in K /\ rank(K, l) \in 1 .. Len(t)
      BY <1>2, <1>7, <1>9, <1>11
    <2>2. t[rank(K, l)] = s[l]
      BY <1>5, <1>10, <2>1
    <2>3. QED
      BY <2>1, <2>2, Zenon DEF entries
  <1>12. /\ \A e \in entries(t) : e \in entries(s) /\ e.iid # s[k].iid
         /\ \A e \in entries(s) : e = s[k] \/ e \in entries(t)
         /\ s[k] \in entries(s)
    <2>1. \A l \in 1 .. Len(s) : l # k => s[l].iid # s[k].iid
      BY Zenon DEF Distinct
    <2>2. \A e \in entries(t) : e \in entries(s) /\ e.iid # s[k].iid
      BY <1>10, <2>1, Zenon DEF entries
    <2>3. \A l \in 1 .. Len(s) : s[l] = s[k] \/ s[l] \in entries(t)
      BY <1>11, Zenon
    <2>4. \A e \in entries(s) : \E l \in 1 .. Len(s) : e = s[l]
      BY Zenon DEF entries
    <2>5. s[k] \in entries(s)
      BY Zenon DEF entries
    <2>6. QED
      BY <2>2, <2>3, <2>4, <2>5, Zenon
  <1>13. Distinct(t)
    <2> SUFFICES ASSUME NEW i \in 1 .. Len(t), NEW j \in 1 .. Len(t), t[i].iid = t[j].iid
                 PROVE  i = j
      BY Zenon DEF Distinct
    <2>1. nth(K, i) = nth(K, j)
      BY <1>10, Zenon DEF Distinct
    <2>2. QED
      BY <1>4, <1>9, <2>1
  <1>14. iids(t) = iids(s) \ {s[k].iid}
    <2>1. iids(t) = {e.iid : e \in entries(t)} /\ iids(s) = {e.iid : e \in entries(s)}
      BY Zenon DEF iids, entries
    <2>2. QED
      BY <1>12, <2>1, Zenon
  <1>15. QED
    BY <1>9, <1>12, <1>13, <1>14, Zenon DEF t

\* A list has as many instances as positions.
LEMMA DistinctCount ==
  ASSUME NEW E, NEW s \in Seq(E), Distinct(s)
  PROVE  Cardinality(iids(s)) = Len(s)
  <1> DEFINE f == [k \in 1 .. Len(s) |-> s[k].iid]
  <1>1. f \in [1 .. Len(s) -> iids(s)]
    BY DEF iids
  <1>2. \A j, k \in 1 .. Len(s) : f[j] = f[k] => j = k
    BY DEF Distinct
  <1>3. \A x \in iids(s) : \E k \in 1 .. Len(s) : f[k] = x
    BY DEF iids
  <1> HIDE DEF f
  <1>4. f \in Bijection(1 .. Len(s), iids(s))
    BY <1>1, <1>2, <1>3, Zenon DEF Bijection, Injection, Surjection, IsInjective
  <1>5. Len(s) \in Nat /\ ExistsBijection(1 .. Len(s), iids(s))
    BY <1>4 DEF ExistsBijection
  <1>6. QED
    BY <1>5, FS_CountingElements, Zenon
\* A list is its first n items, of which M keeps the iids, and the rest.
LEMMA SplitList ==
  ASSUME NEW E, NEW P \in Seq(E), NEW n \in 0 .. Len(P), NEW M \in Seq(E), Len(M) = n,
         \A k \in 1 .. n : M[k].iid = P[k].iid
  PROVE  LET R == SubSeq(P, n + 1, Len(P))
         IN /\ R \in Seq(E)
            /\ Len(R) = Len(P) - n
            /\ \A k \in 1 .. Len(R) : n + k \in 1 .. Len(P) /\ R[k] = P[n + k]
            /\ iids(P) = iids(M) \cup iids(R)
            /\ Distinct(P) => Distinct(M) /\ Distinct(R) /\ iids(M) \cap iids(R) = {}
  <1> DEFINE R == SubSeq(P, n + 1, Len(P))
  <1>1. /\ R \in Seq(E)
        /\ Len(R) = Len(P) - n
        /\ \A k \in 1 .. Len(R) : n + k \in 1 .. Len(P) /\ R[k] = P[n + k]
    OBVIOUS
  <1> HIDE DEF R
  <1>2. n \in Nat /\ Len(P) \in Nat /\ Len(R) \in Nat /\ n <= Len(P)
    BY <1>1
  <1>3. \A k \in 1 .. n : k \in 1 .. Len(P) /\ M[k].iid \in iids(P)
    <2>1. \A k \in 1 .. n : k \in 1 .. Len(P)
      BY <1>2
    <2>2. QED
      BY <2>1, Zenon DEF iids
  <1>4. \A k \in 1 .. Len(R) : R[k].iid \in iids(P)
    BY <1>1, Zenon DEF iids
  <1>5. ASSUME NEW k \in 1 .. Len(P)
        PROVE  P[k].iid \in iids(M) \cup iids(R)
    <2>1. CASE k <= n
      BY <1>2, <2>1 DEF iids
    <2>2. CASE ~(k <= n)
      <3>1. k - n \in 1 .. Len(R) /\ n + (k - n) = k
        BY <1>1, <1>2, <2>2
      <3>2. R[k - n] = P[k]
        BY <1>1, <3>1
      <3>3. QED
        BY <3>1, <3>2, Zenon DEF iids
    <2>3. QED
      BY <2>1, <2>2
  <1>6. iids(P) = iids(M) \cup iids(R)
    <2>1. iids(M) \subseteq iids(P)
      BY <1>3, Zenon DEF iids
    <2>2. iids(R) \subseteq iids(P)
      BY <1>4, Zenon DEF iids
    <2>3. iids(P) \subseteq iids(M) \cup iids(R)
      <3>1. \A x \in iids(P) : \E k \in 1 .. Len(P) : x = P[k].iid
        BY Zenon DEF iids
      <3>2. QED
        BY <1>5, <3>1, Zenon
    <2>4. QED
      BY <2>1, <2>2, <2>3, Zenon
  <1>7. ASSUME Distinct(P)
        PROVE  Distinct(M) /\ Distinct(R) /\ iids(M) \cap iids(R) = {}
    <2>1. Distinct(M)
      BY <1>3, <1>7, Zenon DEF Distinct
    <2>2. Distinct(R)
      <3> SUFFICES ASSUME NEW j \in 1 .. Len(R), NEW k \in 1 .. Len(R), R[j].iid = R[k].iid
                   PROVE  j = k
        BY Zenon DEF Distinct
      <3>1. n + j = n + k
        <4>1. /\ n + j \in 1 .. Len(P) /\ n + k \in 1 .. Len(P)
              /\ P[n + j].iid = P[n + k].iid
          BY <1>1, Zenon
        <4>2. QED
          BY <1>7, <4>1, Zenon DEF Distinct
      <3>2. QED
        BY <1>2, <3>1
    <2>3. \A j \in 1 .. n : \A k \in 1 .. Len(R) : M[j].iid # R[k].iid
      <3> SUFFICES ASSUME NEW j \in 1 .. n, NEW k \in 1 .. Len(R), M[j].iid = R[k].iid
                   PROVE  FALSE
        OBVIOUS
      <3>1. j = n + k
        <4>1. j \in 1 .. Len(P) /\ n + k \in 1 .. Len(P) /\ P[j].iid = P[n + k].iid
          BY <1>1, <1>3, Zenon
        <4>2. QED
          BY <1>7, <4>1, Zenon DEF Distinct
      <3>2. QED
        BY <1>2, <3>1
    <2>4. iids(M) \cap iids(R) = {}
      BY <2>3, Zenon DEF iids
    <2>5. QED
      BY <2>1, <2>2, <2>4
  <1>8. QED
    BY <1>1, <1>6, <1>7, Zenon DEF R
=============================================================================
