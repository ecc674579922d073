--------------------------- MODULE FramingProofs ---------------------------
(***************************************************************************)
(* Proofs about the message framing, for any values, any sizes of them,    *)
(* any number of messages and any way the network cuts the stream.  The    *)
(* invariant says that every connection's stream is a sequence of whole    *)
(* messages, that the read callback stopped where no message is cut, and   *)
(* that the handlers were called with the messages before that point.  The *)
(* read callback is a loop: that it ends, and where, is shown by counting  *)
(* down from the end of what has arrived.                                  *)
(***************************************************************************)
EXTENDS Framing, QuorumTheorems

\* What is shown of n when it holds of the larger numbers holds of all up to N.
LEMMA CountDown ==
  ASSUME NEW N \in Nat, NEW S,
         \A n \in 0 .. N : (\A k \in n + 1 .. N : k \in S) => n \in S
  PROVE  \A n \in 0 .. N : n \in S
  <1> DEFINE T == {x \in Nat : x <= N /\ N - x \notin S}
  <1>1. CASE T = {}
    <2>1. \A n \in 0 .. N : N - n \in Nat /\ N - n <= N /\ N - (N - n) = n
      OBVIOUS
    <2>2. QED
      BY <1>1, <2>1
  <1>2. CASE T # {}
    <2>1. T \in SUBSET Nat
      OBVIOUS
    <2>2. PICK x \in T : \A y \in T : x <= y
      <3> HIDE DEF T
      <3> QED
        BY <1>2, <2>1, SmallestExists
    <2>3. x \in Nat /\ x <= N /\ N - x \notin S /\ N - x \in 0 .. N
      OBVIOUS
    <2>4. \A k \in (N - x) + 1 .. N : k \in S
      <3>1. TAKE k \in (N - x) + 1 .. N
      <3>2. N - k \in Nat /\ N - k < x /\ N - k <= N /\ N - (N - k) = k
        BY <2>3
      <3>3. QED
        BY <2>2, <2>3, <3>2
    <2>5. QED
      BY <2>3, <2>4
  <1>3. QED
    BY <1>1, <1>2
-----------------------------------------------------------------------------
(* The read loop *)

\* The calls c come before those of b.
After(c, b) == [b EXCEPT !.calls = c \o @]

\* A turn of the loop of on_read, and what f says of the turns after it.
LoopBody(s, to, f, n) ==
  IF complete(to - n, message_at(s, n))
  THEN After(handle_msg(to - n, message_at(s, n)), f[n + drain(to - n, message_at(s, n))])
  ELSE [end |-> n, calls |-> <<>>]

\* The loop has an outcome from word k on.
Runs(s, to, f, k) ==
  /\ f = [n \in 0 .. to |-> f[n]]
  /\ \A n \in k .. to : f[n] = LoopBody(s, to, f, n)

\* A turn takes at least one word, and no more than there are.
LEMMA TurnTakes ==
  ASSUME NEW len \in Nat, NEW m, data_size(m) \in Nat, complete(len, m)
  PROVE  drain(len, m) \in 1 .. len
  BY DEF complete, drain, PAXOS_MSG_SIZE, paxos_msg

\* What follows a turn determines it.
LEMMA SameTurn ==
  ASSUME NEW s, NEW to \in Nat, NEW f, NEW g, NEW n \in 0 .. to,
         data_size(message_at(s, n)) \in Nat,
         \A k \in n + 1 .. to : f[k] = g[k]
  PROVE  LoopBody(s, to, f, n) = LoopBody(s, to, g, n)
  <1>1. CASE complete(to - n, message_at(s, n))
    <2>1. drain(to - n, message_at(s, n)) \in 1 .. to - n
      BY <1>1, TurnTakes
    <2>2. n + drain(to - n, message_at(s, n)) \in n + 1 .. to
      BY <2>1
    <2>3. QED
      BY <1>1, <2>2, Zenon DEF LoopBody
  <1>2. CASE ~complete(to - n, message_at(s, n))
    BY <1>2, Zenon DEF LoopBody
  <1>3. QED
    BY <1>1, <1>2, Zenon

\* The loop ends: its recursion has a solution.
LEMMA LoopEnds ==
  ASSUME NEW s, NEW to \in Nat,
         \A n \in 0 .. to : data_size(message_at(s, n)) \in Nat
  PROVE  \E f : f = [n \in 0 .. to |-> LoopBody(s, to, f, n)]
  <1> DEFINE S == {k \in 0 .. to : \E f : Runs(s, to, f, k)}
  <1>1. \A n \in 0 .. to : (\A k \in n + 1 .. to : k \in S) => n \in S
    <2> TAKE n \in 0 .. to
    <2> HAVE \A k \in n + 1 .. to : k \in S
    <2>1. PICK f : Runs(s, to, f, n + 1)
      <3>1. CASE n < to
        <4>1. n + 1 \in S
          BY <3>1
        <4>2. QED
          BY <4>1
      <3>2. CASE n = to
        <4>1. \A k : ~(k \in to + 1 .. to)
          OBVIOUS
        <4> DEFINE z == [i \in 0 .. to |-> 0]
        <4>2. z = [i \in 0 .. to |-> z[i]]
          OBVIOUS
        <4>3. Runs(s, to, z, n + 1)
          BY <3>2, <4>1, <4>2, Zenon DEF Runs
        <4>4. QED
          BY <4>3
      <3>3. QED
        BY <3>1, <3>2
    <2> DEFINE g == [i \in 0 .. to |-> IF i = n THEN LoopBody(s, to, f, n) ELSE f[i]]
    <2>2. /\ g = [i \in 0 .. to |-> g[i]]
          /\ g[n] = LoopBody(s, to, f, n)
          /\ \A i \in n + 1 .. to : g[i] = f[i]
      OBVIOUS
    <2> HIDE DEF g
    <2>3. \A i \in n .. to : LoopBody(s, to, f, i) = LoopBody(s, to, g, i)
      <3> TAKE i \in n .. to
      <3>1. i \in 0 .. to /\ \A k \in i + 1 .. to : k \in n + 1 .. to
        OBVIOUS
      <3>2. \A k \in i + 1 .. to : f[k] = g[k]
        BY <2>2, <3>1, Zenon
      <3>3. QED
        BY <3>1, <3>2, SameTurn, ZenonT(30)
    <2>4. \A i \in n + 1 .. to : f[i] = LoopBody(s, to, f, i)
      BY <2>1, Zenon DEF Runs
    <2>5. \A i \in n .. to : g[i] = LoopBody(s, to, g, i)
      <3> TAKE i \in n .. to
      <3>1. i = n \/ i \in n + 1 .. to
        OBVIOUS
      <3>2. QED
        BY <2>2, <2>3, <2>4, <3>1, Zenon
    <2>6. Runs(s, to, g, n)
      BY <2>2, <2>5, Zenon DEF Runs
    <2>7. QED
      BY <2>6
  <1>2. 0 \in S
    <2> HIDE DEF S
    <2>1. \A n \in 0 .. to : n \in S
      BY <1>1, CountDown, Zenon
    <2>2. QED
      BY <2>1
  <1>3. PICK f : Runs(s, to, f, 0)
    BY <1>2
  <1>4. f = [n \in 0 .. to |-> LoopBody(s, to, f, n)]
    BY <1>3 DEF Runs
  <1>5. QED
    BY <1>4
-----------------------------------------------------------------------------
(* Sublists *)

\* A position behind the others adds its item at the end of the sublist.
LEMMA SublistGrows ==
  ASSUME NEW s, NEW N \in Nat, NEW K \in SUBSET (1 .. N), NEW k \in 1 .. N,
         \A i \in K : i < k
  PROVE  /\ Cardinality(K \cup {k}) = Cardinality(K) + 1
         /\ Cardinality(K) \in Nat
         /\ \A j \in 1 .. Cardinality(K) : nth(K \cup {k}, j) = nth(K, j)
         /\ nth(K \cup {k}, Cardinality(K) + 1) = k
  <1> DEFINE L == K \cup {k}
  <1>1. L \in SUBSET (1 .. N) /\ K \subseteq L /\ k \in L
    OBVIOUS
  <1>2. IsFiniteSet(K) /\ Cardinality(K) \in Nat
    <2>1. IsFiniteSet(1 .. N)
      BY FS_Interval
    <2>2. QED
      BY <2>1, FS_Subset, FS_CardinalityType, Zenon
  <1>3. k \notin K
    OBVIOUS
  <1>4. Cardinality(L) = Cardinality(K) + 1
    BY <1>2, <1>3, FS_AddElement
  <1>5. \A i \in K : rank(L, i) = rank(K, i)
    <2> TAKE i \in K
    <2>1. ~(k <= i)
      OBVIOUS
    <2>2. {e \in L : e <= i} = {e \in K : e <= i}
      BY <2>1, Zenon
    <2>3. QED
      BY <2>2, Zenon DEF rank
  <1>6. rank(L, k) = Cardinality(L)
    <2>1. \A e \in L : e <= k
      OBVIOUS
    <2>2. {e \in L : e <= k} = L
      BY <2>1, Zenon
    <2>3. QED
      BY <2>2, Zenon DEF rank
  <1> HIDE DEF L
  <1>7. \A j \in 1 .. Cardinality(K) : nth(L, j) = nth(K, j)
    <2> TAKE j \in 1 .. Cardinality(K)
    <2>1. nth(K, j) \in K /\ rank(K, nth(K, j)) = j
      BY NthPosition, Zenon
    <2>2. rank(L, nth(K, j)) = j /\ nth(K, j) \in L
      BY <1>1, <1>5, <2>1, Zenon
    <2>3. nth(L, rank(L, nth(K, j))) = nth(K, j)
      BY <1>1, <2>2, NthOfRank, Zenon
    <2>4. QED
      BY <2>2, <2>3, Zenon
  <1>8. nth(L, Cardinality(L)) = k
    <2>1. nth(L, rank(L, k)) = k
      BY <1>1, NthOfRank, Zenon
    <2>2. QED
      BY <1>6, <2>1, Zenon
  <1>9. QED
    BY <1>2, <1>4, <1>7, <1>8 DEF L

\* The same as sequences.
LEMMA SublistAppend ==
  ASSUME NEW s, NEW N \in Nat, NEW K \in SUBSET (1 .. N), NEW k \in 1 .. N,
         \A i \in K : i < k
  PROVE  sublist(s, K \cup {k}) = Append(sublist(s, K), s[k])
  <1>1. PICK c \in Nat : c = Cardinality(K)
    BY SublistGrows, Zenon
  <1>2. /\ Cardinality(K \cup {k}) = c + 1
        /\ \A j \in 1 .. c : nth(K \cup {k}, j) = nth(K, j)
        /\ nth(K \cup {k}, c + 1) = k
    BY <1>1, SublistGrows, Zenon
  <1>3. sublist(s, K) = [j \in 1 .. c |-> s[nth(K, j)]]
    BY <1>1 DEF sublist
  <1>4. sublist(s, K \cup {k}) = [j \in 1 .. c + 1 |-> IF j <= c THEN s[nth(K, j)] ELSE s[k]]
    BY <1>2 DEF sublist
  <1> DEFINE g == [j \in 1 .. c |-> s[nth(K, j)]]
  <1>5. g = [j \in 1 .. c |-> g[j]] /\ \A j \in 1 .. c : g[j] = s[nth(K, j)]
    OBVIOUS
  <1>6. sublist(s, K \cup {k}) = [j \in 1 .. c + 1 |-> IF j <= c THEN g[j] ELSE s[k]]
    BY <1>4
  <1> HIDE DEF g
  <1>7. Append(g, s[k]) = [j \in 1 .. c + 1 |-> IF j <= c THEN g[j] ELSE s[k]]
    BY <1>5
  <1>8. QED
    BY <1>3, <1>6, <1>7, Zenon DEF g
-----------------------------------------------------------------------------
(* The words of a connection *)

\* The words are whole messages: each begins with its header, has the words of its data
\* behind it, and is followed by another or by nothing.
Framed(s) ==
  \A p \in 1 .. Len(s) : s[p] # Torn =>
    /\ p + PAXOS_MSG_SIZE(s[p]) - 1 <= Len(s)
    /\ \A q \in p + 1 .. p + PAXOS_MSG_SIZE(s[p]) - 1 : s[q] = Torn
    /\ p + PAXOS_MSG_SIZE(s[p]) <= Len(s) => s[p + PAXOS_MSG_SIZE(s[p])] # Torn

\* No message is cut by the first n words.
Boundary(s, n) == n < Len(s) => s[n + 1] # Torn

\* The sizes of messages.
LEMMA SizeIs ==
  /\ data_size(Torn) = 0
  /\ \A h \in Hops : Torn \notin Message(h)
  /\ \A h \in Hops : \A m \in Message(h) :
       /\ data_size(m) \in Nat
       /\ ~Empty(m) => data_size(m) > 0
  <1>1. data_size(Torn) = 0 /\ Torn.type = "torn"
    BY DEF data_size, Torn
  <1>2. \A h \in Hops : \A m \in Message(h) :
          /\ m.value_size \in Nat
          /\ m.type \in {"submit", "accept_reqs", "accept_acks", "prepare_reqs"}
    <2>1. ASSUME NEW h \in Hops
          PROVE  {Carrier[h]} \union (IF h = 2 THEN {"prepare_reqs"} ELSE {})
                   \subseteq {"submit", "accept_reqs", "accept_acks", "prepare_reqs"}
      <3>1. h = 1 \/ h = 2 \/ h = 3
        BY DEF Hops
      <3>2. Carrier[1] = "submit" /\ Carrier[2] = "accept_reqs" /\ Carrier[3] = "accept_acks"
        BY DEF Carrier
      <3>3. QED
        BY <3>1, <3>2
    <2>2. ValueSizes \union {0} \subseteq Nat
      BY FramingAssumption
    <2>3. QED
      BY <2>1, <2>2 DEF Message
  <1>3. \A h \in Hops : Torn \notin Message(h)
    BY <1>1, <1>2, Zenon
  <1>4. ASSUME NEW h \in Hops, NEW m \in Message(h)
        PROVE  data_size(m) \in Nat /\ (~Empty(m) => data_size(m) > 0)
    <2>1. m.value_size \in Nat
      BY <1>2, <1>4
    <2>2. CASE m.type = "submit"
      <3>1. data_size(m) = m.value_size
        BY <2>2 DEF data_size
      <3>2. QED
        BY <2>1, <2>2, <3>1 DEF Empty
    <2>3. CASE m.type = "accept_reqs"
      <3>1. data_size(m) = m.value_size + 4
        BY <2>3 DEF data_size
      <3>2. QED
        BY <2>1, <3>1
    <2>4. CASE m.type = "accept_acks"
      <3>1. data_size(m) = m.value_size + 8
        BY <2>4 DEF data_size
      <3>2. QED
        BY <2>1, <3>1
    <2>5. CASE m.type = "prepare_reqs"
      <3>1. data_size(m) = 2
        BY <2>5 DEF data_size
      <3>2. QED
        BY <3>1
    <2>6. QED
      BY <1>2, <1>4, <2>2, <2>3, <2>4, <2>5, Zenon
  <1>5. QED
    BY <1>1, <1>3, <1>4, Zenon

\* What is read as a header has a size.
LEMMA HeaderHasSize ==
  ASSUME NEW h \in Hops, NEW s \in Seq(Word(h)), NEW n \in Nat
  PROVE  /\ message_at(s, n) \in Word(h)
         /\ data_size(message_at(s, n)) \in Nat
  <1>1. message_at(s, n) \in Word(h)
    <2>1. Torn \in Word(h)
      BY DEF Word
    <2>2. n < Len(s) => s[n + 1] \in Word(h)
      OBVIOUS
    <2>3. QED
      BY <2>1, <2>2, Zenon DEF message_at
  <1>2. \A m \in Word(h) : data_size(m) \in Nat
    <2>1. 0 \in Nat
      OBVIOUS
    <2>2. QED
      BY <2>1, SizeIs, Zenon DEF Word
  <1>3. QED
    BY <1>1, <1>2, Zenon

\* The read loop follows its turns.
LEMMA LoopIs ==
  ASSUME NEW h \in Hops, NEW s \in Seq(Word(h)), NEW to \in Nat, NEW n \in 0 .. to,
         NEW m \in Word(h), m = message_at(s, n)
  PROVE  /\ complete(to - n, m) =>
              on_read(s, n, to) = After(handle_msg(to - n, m), on_read(s, n + drain(to - n, m), to))
         /\ ~complete(to - n, m) => on_read(s, n, to) = [end |-> n, calls |-> <<>>]
  <1> DEFINE f == CHOOSE f : f = [i \in 0 .. to |-> LoopBody(s, to, f, i)]
  <1>1. \A i : on_read(s, i, to) = f[i]
    BY DEF on_read, LoopBody, After
  <1>2. f = [i \in 0 .. to |-> LoopBody(s, to, f, i)]
    <2>1. \A i \in 0 .. to : i \in Nat
      OBVIOUS
    <2>2. \A i \in 0 .. to : data_size(message_at(s, i)) \in Nat
      BY <2>1, HeaderHasSize, Zenon
    <2>3. \E g : g = [i \in 0 .. to |-> LoopBody(s, to, g, i)]
      BY <2>2, LoopEnds, Zenon
    <2>4. QED
      BY <2>3, Zenon
  <1> HIDE DEF f
  <1>3. f[n] = LoopBody(s, to, f, n)
    BY <1>2
  <1>4. QED
    BY <1>1, <1>3, Zenon DEF LoopBody

\* A turn that begins at a boundary takes one whole message, and leaves the loop at the
\* next boundary.
LEMMA TurnIs ==
  ASSUME NEW h \in Hops, NEW s \in Seq(Word(h)), Framed(s),
         NEW to \in 0 .. Len(s), NEW n \in 0 .. to, Boundary(s, n),
         NEW m \in Word(h), m = message_at(s, n), complete(to - n, m),
         NEW k \in Nat, k = n + drain(to - n, m)
  PROVE  /\ m = s[n + 1] /\ m \in Message(h)
         /\ k \in n + 1 .. to
         /\ Boundary(s, k)
         /\ discarded(m) => handle_msg(to - n, m) = <<>> /\ wanted(s, k) = wanted(s, n)
         /\ ~discarded(m) => /\ handle_msg(to - n, m) = <<m>>
                             /\ wanted(s, k) = wanted(s, n) \cup {n + 1}
  <1>1. m = message_at(s, n)
    OBVIOUS
  <1>2. PICK z : z = PAXOS_MSG_SIZE(m)
    OBVIOUS
  <1>3. data_size(m) \in Nat /\ m \in Word(h)
    BY <1>1, HeaderHasSize
  <1>4. z \in Nat /\ z >= 3
    BY <1>2, <1>3 DEF PAXOS_MSG_SIZE, paxos_msg
  <1>5. to - n > 3 /\ to - n >= z
    BY <1>1, <1>2 DEF complete, paxos_msg
  <1>6. n < Len(s) /\ n + 1 \in 1 .. Len(s) /\ Len(s) \in Nat
    BY <1>5
  <1>7. m = s[n + 1] /\ m # Torn
    BY <1>1, <1>6 DEF message_at, Boundary
  <1>8. m \in Message(h)
    BY <1>3, <1>7 DEF Word
  <1>9. drain(to - n, m) = z
    BY <1>2, <1>4, <1>5 DEF drain
  <1>10. n + z \in n + 1 .. to
    BY <1>4, <1>5
  <1>11. /\ \A q \in n + 2 .. n + z : s[q] = Torn
         /\ n + z < Len(s) => s[n + z + 1] # Torn
    <2>1. /\ \A q \in (n + 1) + 1 .. (n + 1) + z - 1 : s[q] = Torn
          /\ (n + 1) + z <= Len(s) => s[(n + 1) + z] # Torn
      BY <1>2, <1>6, <1>7, Zenon DEF Framed
    <2>2. (n + 1) + 1 = n + 2 /\ (n + 1) + z - 1 = n + z /\ (n + 1) + z = n + z + 1
      BY <1>4
    <2>3. n + z < Len(s) => (n + 1) + z <= Len(s)
      BY <1>4
    <2>4. QED
      BY <2>1, <2>2, <2>3
  <1>12. Boundary(s, n + z)
    BY <1>11 DEF Boundary
  <1>13. /\ discarded(m) => handle_msg(to - n, m) = <<>>
         /\ ~discarded(m) => handle_msg(to - n, m) = <<m>>
    <2>1. ~(to - n < PAXOS_MSG_SIZE(m))
      BY <1>2, <1>4, <1>5
    <2>2. QED
      BY <2>1, Zenon DEF handle_msg
  <1>14. /\ discarded(m) => wanted(s, n + z) = wanted(s, n)
         /\ ~discarded(m) => wanted(s, n + z) = wanted(s, n) \cup {n + 1}
    <2>1. \A p : p \in 1 .. n + z <=> p \in 1 .. n \/ p = n + 1 \/ p \in n + 2 .. n + z
      BY <1>4
    <2>2. ~(n + 1 \in 1 .. n)
      OBVIOUS
    <2>3. \A p : p \in wanted(s, n + z) <=> p \in wanted(s, n) \/ (p = n + 1 /\ ~discarded(m))
      <3> TAKE p
      <3>1. p \in 1 .. n => (p \in wanted(s, n + z) <=> p \in wanted(s, n))
        BY <2>1, Zenon DEF wanted
      <3>2. p = n + 1 => (p \in wanted(s, n + z) <=> ~discarded(m)) /\ p \notin wanted(s, n)
        BY <1>7, <2>1, <2>2, Zenon DEF wanted
      <3>3. p \in n + 2 .. n + z => p \notin wanted(s, n + z)
        BY <1>11, Zenon DEF wanted
      <3>4. p \in wanted(s, n + z) => p \in 1 .. n + z
        BY Zenon DEF wanted
      <3>5. p \in wanted(s, n) => p \in 1 .. n
        BY Zenon DEF wanted
      <3>6. QED
        BY <2>1, <3>1, <3>2, <3>3, <3>4, <3>5, Zenon
    <2>4. CASE discarded(m)
      BY <2>3, <2>4, Zenon
    <2>5. CASE ~discarded(m)
      BY <2>3, <2>5, Zenon
    <2>6. QED
      BY <2>4, <2>5, Zenon
  <1>15. QED
    BY <1>1, <1>7, <1>8, <1>9, <1>10, <1>12, <1>13, <1>14, Zenon

\* What is wanted is a list of messages.
LEMMA WantedList ==
  ASSUME NEW h \in Hops, NEW s \in Seq(Word(h)), NEW n \in 0 .. Len(s)
  PROVE  /\ wanted(s, n) \in SUBSET (1 .. n)
         /\ sublist(s, wanted(s, n)) \in Seq(Message(h))
  <1>1. wanted(s, n) \in SUBSET (1 .. n) /\ n \in Nat
    BY DEF wanted
  <1>2. PICK K \in SUBSET (1 .. n) : K = wanted(s, n)
    BY <1>1
  <1>3. \A k \in K : s[k] \in Message(h)
    <2> TAKE k \in K
    <2>1. k \in 1 .. Len(s)
      BY <1>1, <1>2
    <2>2. s[k] \in Word(h)
      BY <2>1
    <2>3. s[k] # Torn
      BY <1>2 DEF wanted
    <2>4. QED
      BY <2>2, <2>3, Zenon DEF Word
  <1>4. Cardinality(K) \in Nat
    <2>1. IsFiniteSet(1 .. n)
      BY <1>1, FS_Interval
    <2>2. QED
      BY <2>1, FS_Subset, FS_CardinalityType, Zenon
  <1>5. \A j \in 1 .. Cardinality(K) : nth(K, j) \in K
    BY <1>1, NthPosition, Zenon
  <1>6. \A j \in 1 .. Cardinality(K) : s[nth(K, j)] \in Message(h)
    BY <1>3, <1>5, Zenon
  <1>7. sublist(s, K) \in Seq(Message(h))
    BY <1>4, <1>6 DEF sublist
  <1>8. QED
    BY <1>1, <1>2, <1>7, Zenon

\* An item moves from the end of one list to the front of the next.
LEMMA MoveItem ==
  ASSUME NEW E, NEW x \in E, NEW s \in Seq(E), NEW t \in Seq(E)
  PROVE  Append(s, x) \o t = s \o (<<x>> \o t) /\ <<x>> \o t \in Seq(E)
  OBVIOUS

\* What the read loop owes: it stops where no message is cut, with less than a message
\* left, and has called the handlers with what it has taken.
Reads(h, s, to, n, b) ==
  /\ b = [end |-> b.end, calls |-> b.calls]
  /\ b.end \in n .. to
  /\ Boundary(s, b.end)
  /\ ~complete(to - b.end, message_at(s, b.end))
  /\ b.calls \in Seq(Message(h))
  /\ sublist(s, wanted(s, n)) \o b.calls = sublist(s, wanted(s, b.end))

\* The read loop does what it owes, from any boundary and however much has arrived.
LEMMA LoopReads ==
  ASSUME NEW h \in Hops, NEW s \in Seq(Word(h)), Framed(s), NEW to \in 0 .. Len(s)
  PROVE  \A n \in 0 .. to : Boundary(s, n) => Reads(h, s, to, n, on_read(s, n, to))
  <1>1. to \in Nat /\ Len(s) \in Nat
    OBVIOUS
  <1> DEFINE S == {n \in 0 .. to : Boundary(s, n) => Reads(h, s, to, n, on_read(s, n, to))}
  <1>3. ASSUME NEW n \in 0 .. to, \A k \in n + 1 .. to : k \in S, Boundary(s, n)
        PROVE  Reads(h, s, to, n, on_read(s, n, to))
    <2>1. PICK m \in Word(h) : m = message_at(s, n) /\ data_size(m) \in Nat
      <3>1. n \in Nat
        OBVIOUS
      <3>2. QED
        BY <3>1, HeaderHasSize, Zenon
    <2>2. n \in 0 .. Len(s)
      BY <1>1
    <2>3. PICK T \in Seq(Message(h)) : T = sublist(s, wanted(s, n))
      BY <2>2, WantedList
    <2>4. CASE complete(to - n, m)
      <3>1. PICK k \in Nat : k = n + drain(to - n, m)
        <4>1. drain(to - n, m) \in 1 .. to - n
          BY <2>1, <2>4, TurnTakes
        <4>2. QED
          BY <4>1
      <3>2. /\ m = s[n + 1] /\ m \in Message(h)
            /\ k \in n + 1 .. to
            /\ Boundary(s, k)
            /\ discarded(m) => handle_msg(to - n, m) = <<>> /\ wanted(s, k) = wanted(s, n)
            /\ ~discarded(m) => /\ handle_msg(to - n, m) = <<m>>
                                /\ wanted(s, k) = wanted(s, n) \cup {n + 1}
        <4>1. m \in Word(h) /\ m = message_at(s, n) /\ Boundary(s, n)
          BY <1>3, <2>1, Zenon
        <4>2. k \in Nat /\ k = n + drain(to - n, m)
          BY <3>1, Zenon
        <4>3. QED
          BY <2>4, <4>1, <4>2, TurnIs
      <3>3. PICK b : b = on_read(s, k, to)
        OBVIOUS
      <3>4. Reads(h, s, to, k, b)
        BY <1>3, <3>2, <3>3, Zenon
      <3>5. on_read(s, n, to) = After(handle_msg(to - n, m), b)
        BY <1>1, <2>1, <2>4, <3>1, <3>3, LoopIs, ZenonT(30)
      <3>6. on_read(s, n, to) = [end |-> b.end, calls |-> handle_msg(to - n, m) \o b.calls]
        BY <3>4, <3>5, Zenon DEF Reads, After
      <3>7. b.end \in n .. to
        BY <3>2, <3>4 DEF Reads
      <3>8. PICK C \in Seq(Message(h)) : C = b.calls
        BY <3>4 DEF Reads
      <3>9. sublist(s, wanted(s, k)) \o C = sublist(s, wanted(s, b.end))
        BY <3>4, <3>8 DEF Reads
      <3>10. /\ handle_msg(to - n, m) \o C \in Seq(Message(h))
             /\ T \o (handle_msg(to - n, m) \o C) = sublist(s, wanted(s, b.end))
        <4>1. CASE discarded(m)
          <5>1. handle_msg(to - n, m) = <<>> /\ wanted(s, k) = wanted(s, n)
            BY <3>2, <4>1, Zenon
          <5>2. <<>> \o C = C
            OBVIOUS
          <5>3. QED
            BY <2>3, <3>9, <5>1, <5>2, Zenon
        <4>2. CASE ~discarded(m)
          <5>1. handle_msg(to - n, m) = <<m>> /\ wanted(s, k) = wanted(s, n) \cup {n + 1}
            BY <3>2, <4>2, Zenon
          <5>2. wanted(s, n) \in SUBSET (1 .. n)
            BY <2>2, WantedList, Zenon
          <5>3. /\ wanted(s, n) \in SUBSET (1 .. n + 1)
                /\ \A i \in wanted(s, n) : i < n + 1
                /\ n + 1 \in 1 .. n + 1 /\ n + 1 \in Nat
            BY <5>2
          <5>4. sublist(s, wanted(s, k)) = Append(T, m)
            <6>1. sublist(s, wanted(s, n) \cup {n + 1}) = Append(sublist(s, wanted(s, n)), s[n + 1])
              BY <5>3, SublistAppend, Zenon
            <6>2. QED
              BY <2>3, <3>2, <5>1, <6>1, Zenon
          <5>5. Append(T, m) \o C = T \o (<<m>> \o C) /\ <<m>> \o C \in Seq(Message(h))
            BY <3>2, MoveItem, SMTT(20)
          <5>6. QED
            BY <3>9, <5>1, <5>4, <5>5, Zenon
        <4>3. QED
          BY <4>1, <4>2, Zenon
      <3>11. PICK D : D = handle_msg(to - n, m) \o C
        BY Zenon
      <3>12. on_read(s, n, to) = [end |-> b.end, calls |-> D]
        BY <3>6, <3>8, <3>11, Zenon
      <3>13. Boundary(s, b.end) /\ ~complete(to - b.end, message_at(s, b.end))
        BY <3>4, Zenon DEF Reads
      <3>14. PICK e : e = b.end
        OBVIOUS
      <3>15. [end |-> e, calls |-> D].end = e /\ [end |-> e, calls |-> D].calls = D
        OBVIOUS
      <3>16. QED
        BY <2>3, <3>7, <3>10, <3>11, <3>12, <3>13, <3>14, <3>15, Zenon DEF Reads
    <2>5. CASE ~complete(to - n, m)
      <3>1. on_read(s, n, to) = [end |-> n, calls |-> <<>>]
        BY <1>1, <2>1, <2>5, LoopIs, Zenon
      <3>2. n \in n .. to /\ <<>> \in Seq(Message(h)) /\ T \o <<>> = T
        OBVIOUS
      <3>3. [end |-> n, calls |-> <<>>].end = n /\ [end |-> n, calls |-> <<>>].calls = <<>>
        OBVIOUS
      <3>4. QED
        BY <1>3, <2>1, <2>3, <2>5, <3>1, <3>2, <3>3, Zenon DEF Reads
    <2>6. QED
      BY <2>4, <2>5, Zenon
  <1>4. \A n \in 0 .. to : (\A k \in n + 1 .. to : k \in S) => n \in S
    BY <1>3, Zenon
  <1> HIDE DEF S
  <1>5. \A n \in 0 .. to : n \in S
    BY <1>1, <1>4, CountDown, Zenon
  <1>6. QED
    BY <1>5, Zenon DEF S
-----------------------------------------------------------------------------
(* One connection *)

\* What holds of a connection with words s, of which a have arrived and d have been
\* taken, and with calls c of its handlers.
ConnectionInv(h, s, a, d, c) ==
  /\ s \in Seq(Word(h)) /\ Framed(s)
  /\ a \in Nat /\ d \in Nat /\ d <= a /\ a <= Len(s)
  /\ Boundary(s, d)
  /\ c = sublist(s, wanted(s, d))
  /\ message_at(s, d) # Torn /\ ~Empty(message_at(s, d)) =>
       a - d < PAXOS_MSG_SIZE(message_at(s, d))

\* The items of a concatenation.
LEMMA ConcatItems ==
  ASSUME NEW E, NEW s \in Seq(E), NEW t \in Seq(E)
  PROVE  /\ s \o t \in Seq(E)
         /\ Len(s \o t) = Len(s) + Len(t) /\ Len(s) <= Len(s \o t) /\ Len(s \o t) \in Nat
         /\ \A p \in 1 .. Len(s) : (s \o t)[p] = s[p]
         /\ \A p \in Len(s) + 1 .. Len(s) + Len(t) : (s \o t)[p] = t[p - Len(s)]
  OBVIOUS

\* The words of a message are words.
LEMMA WordsType ==
  ASSUME NEW h \in Hops, NEW m \in Message(h)
  PROVE  words(m) \in Seq(Word(h))
  <1>1. data_size(m) \in Nat
    BY SizeIs, Zenon
  <1>2. PAXOS_MSG_SIZE(m) \in Nat
    BY <1>1 DEF PAXOS_MSG_SIZE, paxos_msg
  <1>3. m \in Word(h) /\ Torn \in Word(h)
    BY Zenon DEF Word
  <1>4. QED
    BY <1>2, <1>3 DEF words

\* The words t are those of s with m behind them.
Added(s, m, t) ==
  /\ PAXOS_MSG_SIZE(m) \in Nat /\ PAXOS_MSG_SIZE(m) >= 3
  /\ Len(t) = Len(s) + PAXOS_MSG_SIZE(m)
  /\ \A p \in 1 .. Len(s) : t[p] = s[p]
  /\ t[Len(s) + 1] = m /\ m # Torn
  /\ \A p \in Len(s) + 2 .. Len(t) : t[p] = Torn

\* A message is written behind the words that are there.
LEMMA WordsAdded ==
  ASSUME NEW h \in Hops, NEW s \in Seq(Word(h)), NEW m \in Message(h),
         NEW t \in Seq(Word(h)), t = s \o words(m)
  PROVE  Added(s, m, t)
  <1>1. PICK z : z = PAXOS_MSG_SIZE(m)
    OBVIOUS
  <1>2. m # Torn /\ data_size(m) \in Nat
    BY SizeIs, Zenon
  <1>3. z \in Nat /\ z >= 3
    BY <1>1, <1>2 DEF PAXOS_MSG_SIZE, paxos_msg
  <1>5. PICK w \in Seq(Word(h)) : w = words(m)
    BY WordsType
  <1>6. w = [i \in 1 .. z |-> IF i = 1 THEN m ELSE Torn]
    BY <1>1, <1>5 DEF words
  <1>7. Len(w) = z
    BY <1>3, <1>6
  <1>8. w[1] = m /\ \A i \in 2 .. z : w[i] = Torn
    BY <1>3, <1>6
  <1>9. t = s \o w
    BY <1>5
  <1>10. /\ Len(t) = Len(s) + z /\ Len(s) \in Nat
         /\ \A p \in 1 .. Len(s) : t[p] = s[p]
         /\ \A p \in Len(s) + 1 .. Len(t) : t[p] = w[p - Len(s)]
    BY <1>5, <1>7, <1>9, ConcatItems
  <1>11. t[Len(s) + 1] = m
    <2>1. Len(s) + 1 \in Len(s) + 1 .. Len(t) /\ (Len(s) + 1) - Len(s) = 1
      BY <1>3, <1>10
    <2>2. QED
      BY <1>8, <1>10, <2>1
  <1>12. ASSUME NEW p \in Len(s) + 2 .. Len(t)
         PROVE  t[p] = Torn
    <2>1. p \in Len(s) + 1 .. Len(t) /\ p - Len(s) \in 2 .. z
      BY <1>3, <1>10
    <2>2. QED
      BY <1>8, <1>10, <2>1
  <1>13. QED
    BY <1>1, <1>2, <1>3, <1>10, <1>11, <1>12, Zenon DEF Added

\* Writing a message keeps the words whole.
LEMMA AddKeepsFrames ==
  ASSUME NEW h \in Hops, NEW s \in Seq(Word(h)), Framed(s), NEW m \in Message(h),
         NEW t \in Seq(Word(h)), Added(s, m, t)
  PROVE  Framed(t)
  <1> SUFFICES ASSUME NEW p \in 1 .. Len(t), t[p] # Torn
               PROVE  /\ p + PAXOS_MSG_SIZE(t[p]) - 1 <= Len(t)
                      /\ \A q \in p + 1 .. p + PAXOS_MSG_SIZE(t[p]) - 1 : t[q] = Torn
                      /\ p + PAXOS_MSG_SIZE(t[p]) <= Len(t) => t[p + PAXOS_MSG_SIZE(t[p])] # Torn
    BY Zenon DEF Framed
  <1>1. PICK z \in Nat : z = PAXOS_MSG_SIZE(m) /\ z >= 3
    BY DEF Added
  <1>2. PICK l \in Nat : l = Len(s)
    OBVIOUS
  <1>3. /\ Len(t) = l + z
        /\ \A i \in 1 .. l : t[i] = s[i]
        /\ t[l + 1] = m /\ m # Torn
        /\ \A i \in l + 2 .. l + z : t[i] = Torn
    <2>1. /\ Len(t) = Len(s) + PAXOS_MSG_SIZE(m)
          /\ \A i \in 1 .. Len(s) : t[i] = s[i]
          /\ t[Len(s) + 1] = m /\ m # Torn
          /\ \A i \in Len(s) + 2 .. Len(t) : t[i] = Torn
      BY Zenon DEF Added
    <2>2. Len(t) = l + z
      BY <1>1, <1>2, <2>1, Zenon
    <2>3. QED
      BY <1>1, <1>2, <2>1, <2>2, Zenon
  <1>4. CASE p \in 1 .. l
    <2>1. t[p] = s[p]
      BY <1>3, <1>4
    <2>2. PICK y : y = PAXOS_MSG_SIZE(s[p])
      OBVIOUS
    <2>3. y \in Nat
      <3>1. s[p] \in Word(h) /\ s[p] # Torn
        BY <1>2, <1>4, <2>1
      <3>2. data_size(s[p]) \in Nat
        BY <3>1, SizeIs, Zenon DEF Word
      <3>3. QED
        BY <2>2, <3>2 DEF PAXOS_MSG_SIZE, paxos_msg
    <2>4. /\ p + y - 1 <= l
          /\ \A q \in p + 1 .. p + y - 1 : s[q] = Torn
          /\ p + y <= l => s[p + y] # Torn
      BY <1>2, <1>4, <2>1, <2>2, Zenon DEF Framed
    <2>5. p + y - 1 <= Len(t)
      BY <1>1, <1>3, <2>3, <2>4
    <2>6. \A q \in p + 1 .. p + y - 1 : t[q] = Torn
      BY <1>3, <1>4, <2>3, <2>4
    <2>7. p + y <= Len(t) => t[p + y] # Torn
      <3>1. CASE p + y <= l
        <4>1. p + y \in 1 .. l
          BY <1>4, <2>3, <3>1
        <4>2. QED
          BY <1>3, <2>4, <3>1, <4>1
      <3>2. CASE ~(p + y <= l)
        <4>1. p + y = l + 1
          BY <1>4, <2>3, <2>4, <3>2
        <4>2. QED
          BY <1>3, <4>1, Zenon
      <3>3. QED
        BY <3>1, <3>2, Zenon
    <2>8. QED
      BY <2>1, <2>2, <2>5, <2>6, <2>7, Zenon
  <1>5. CASE p = l + 1
    <2>1. p + z - 1 = Len(t) /\ p + 1 = l + 2 /\ p + z - 1 = l + z
      BY <1>1, <1>3, <1>5
    <2>2. t[p] = m
      BY <1>3, <1>5, Zenon
    <2>3. p + z - 1 <= Len(t) /\ ~(p + z <= Len(t))
      BY <1>1, <1>3, <1>5
    <2>4. \A q \in p + 1 .. p + z - 1 : t[q] = Torn
      BY <1>3, <2>1, Zenon
    <2>5. QED
      BY <1>1, <2>2, <2>3, <2>4, Zenon
  <1>6. p \in 1 .. l \/ p = l + 1
    <2>1. p \in 1 .. l + z
      BY <1>3, Zenon
    <2>2. p \in 1 .. l \/ p = l + 1 \/ p \in l + 2 .. l + z
      BY <1>1, <2>1
    <2>3. QED
      BY <1>3, <2>2, Zenon
  <1>7. QED
    BY <1>4, <1>5, <1>6, Zenon

\* Writing a message changes nothing of what has been read.
LEMMA AddKeeps ==
  ASSUME NEW h \in Hops, NEW s, NEW a, NEW d, NEW c, ConnectionInv(h, s, a, d, c),
         NEW m \in Message(h)
  PROVE  ConnectionInv(h, s \o words(m), a, d, c)
  <1>1. s \in Seq(Word(h)) /\ Framed(s) /\ Boundary(s, d) /\ c = sublist(s, wanted(s, d))
    BY DEF ConnectionInv
  <1>2. a \in Nat /\ d \in Nat /\ d <= a /\ a <= Len(s) /\ Len(s) \in Nat
    BY <1>1 DEF ConnectionInv
  <1>3. PICK t \in Seq(Word(h)) : t = s \o words(m)
    <2>1. words(m) \in Seq(Word(h))
      BY WordsType, Zenon
    <2>2. QED
      BY <1>1, <2>1, ConcatItems, Zenon
  <1>4. Added(s, m, t)
    BY <1>1, <1>3, WordsAdded, Zenon
  <1>5. Framed(t)
    BY <1>1, <1>4, AddKeepsFrames, Zenon
  <1>6. PICK z \in Nat : z = PAXOS_MSG_SIZE(m) /\ z >= 3
    BY <1>4 DEF Added
  <1>7. /\ Len(t) = Len(s) + z
        /\ \A p \in 1 .. Len(s) : t[p] = s[p]
        /\ t[Len(s) + 1] = m /\ m # Torn
    BY <1>4, <1>6, Zenon DEF Added
  <1>8. a <= Len(t)
    BY <1>2, <1>6, <1>7
  <1>9. /\ Boundary(t, d)
        /\ message_at(t, d) # Torn /\ ~Empty(message_at(t, d)) =>
             a - d < PAXOS_MSG_SIZE(message_at(t, d))
    <2>1. CASE d < Len(s)
      <3>1. d + 1 \in 1 .. Len(s) /\ d < Len(t)
        BY <1>2, <1>6, <1>7, <2>1
      <3>2. t[d + 1] = s[d + 1]
        BY <1>7, <3>1, Zenon
      <3>3. Boundary(t, d)
        BY <1>1, <2>1, <3>2, Zenon DEF Boundary
      <3>4. message_at(t, d) = message_at(s, d)
        BY <2>1, <3>1, <3>2, Zenon DEF message_at
      <3>5. QED
        BY <3>3, <3>4, Zenon DEF ConnectionInv
    <2>2. CASE ~(d < Len(s))
      <3>1. d = Len(s) /\ a - d = 0 /\ d < Len(t)
        BY <1>2, <1>6, <1>7, <2>2
      <3>2. t[d + 1] = m
        BY <1>7, <3>1, Zenon
      <3>3. Boundary(t, d)
        BY <1>7, <3>2, Zenon DEF Boundary
      <3>4. message_at(t, d) = m
        BY <3>1, <3>2, Zenon DEF message_at
      <3>5. a - d < PAXOS_MSG_SIZE(message_at(t, d))
        BY <1>6, <3>1, <3>4
      <3>6. QED
        BY <3>3, <3>5, Zenon
    <2>3. QED
      BY <2>1, <2>2, Zenon
  <1>10. sublist(t, wanted(t, d)) = sublist(s, wanted(s, d))
    <2>1. \A p \in 1 .. d : t[p] = s[p]
      BY <1>2, <1>7
    <2>2. wanted(t, d) = wanted(s, d)
      BY <2>1, Zenon DEF wanted
    <2>3. PICK K : K = wanted(s, d)
      OBVIOUS
    <2>4. K \in SUBSET (1 .. d)
      BY <2>3 DEF wanted
    <2>5. \A j \in 1 .. Cardinality(K) : nth(K, j) \in K
      BY <1>2, <2>4, NthPosition, Zenon
    <2>6. \A j \in 1 .. Cardinality(K) : t[nth(K, j)] = s[nth(K, j)]
      BY <2>1, <2>4, <2>5, Zenon
    <2>7. sublist(t, K) = sublist(s, K)
      BY <2>6, Zenon DEF sublist
    <2>8. QED
      BY <2>2, <2>3, <2>7, Zenon
  <1>11. ConnectionInv(h, t, a, d, c)
    BY <1>1, <1>2, <1>5, <1>8, <1>9, <1>10, Zenon DEF ConnectionInv
  <1>12. QED
    BY <1>3, <1>11, Zenon

\* The read callback takes what it can and calls the handlers with it.
LEMMA ReadKeeps ==
  ASSUME NEW h \in Hops, NEW s, NEW a, NEW d, NEW c, ConnectionInv(h, s, a, d, c),
         NEW n \in a + 1 .. Len(s), NEW b, b = on_read(s, d, n)
  PROVE  /\ ConnectionInv(h, s, n, b.end, c \o b.calls)
         /\ c \in Seq(Message(h)) /\ b.calls \in Seq(Message(h))
  <1>1. s \in Seq(Word(h)) /\ Framed(s) /\ Boundary(s, d) /\ c = sublist(s, wanted(s, d))
    BY DEF ConnectionInv
  <1>2. a \in Nat /\ d \in Nat /\ d <= a /\ a <= Len(s) /\ Len(s) \in Nat
    BY <1>1 DEF ConnectionInv
  <1>3. n \in 0 .. Len(s) /\ n \in Nat /\ d \in 0 .. n /\ d \in 0 .. Len(s)
    BY <1>2
  <1>4. Reads(h, s, n, d, b)
    BY <1>1, <1>3, LoopReads, Zenon
  <1>5. /\ b.end \in d .. n
        /\ Boundary(s, b.end)
        /\ ~complete(n - b.end, message_at(s, b.end))
        /\ b.calls \in Seq(Message(h))
        /\ c \o b.calls = sublist(s, wanted(s, b.end))
    BY <1>1, <1>4, Zenon DEF Reads
  <1>6. PICK e \in Nat : e = b.end /\ d <= e /\ e <= n
    BY <1>2, <1>3, <1>5
  <1>7. c \in Seq(Message(h))
    BY <1>1, <1>3, WantedList, Zenon
  <1>8. ASSUME message_at(s, e) # Torn, ~Empty(message_at(s, e))
        PROVE  n - e < PAXOS_MSG_SIZE(message_at(s, e))
    <2>1. PICK m : m = message_at(s, e)
      OBVIOUS
    <2>2. m \in Message(h)
      <3>1. m \in Word(h)
        BY <1>1, <1>6, <2>1, HeaderHasSize
      <3>2. QED
        BY <1>8, <2>1, <3>1, Zenon DEF Word
    <2>3. data_size(m) \in Nat /\ data_size(m) > 0
      BY <1>8, <2>1, <2>2, SizeIs, Zenon
    <2>4. ~complete(n - e, m)
      BY <1>5, <1>6, <2>1, Zenon
    <2>5. n - e < PAXOS_MSG_SIZE(m)
      BY <1>3, <1>6, <2>3, <2>4 DEF complete, PAXOS_MSG_SIZE, paxos_msg
    <2>6. QED
      BY <2>1, <2>5, Zenon
  <1>9. n <= Len(s)
    BY <1>2
  <1>10. ConnectionInv(h, s, n, e, c \o b.calls)
    BY <1>1, <1>3, <1>5, <1>6, <1>8, <1>9, Zenon DEF ConnectionInv
  <1>11. QED
    BY <1>5, <1>6, <1>7, <1>10, Zenon
-----------------------------------------------------------------------------
(* The three connections *)

\* The value of a message was submitted by a client.
Submitted(m) == \E q \in 1 .. Len(sent[1]) : sent[1][q] = [m EXCEPT !.type = Carrier[1]]

\* A value that travels was submitted: from the acceptor on, as long as that has not
\* written beyond a record.
Origin ==
  \A h \in Hops : (h = 3 => intact) => \A p \in 1 .. Len(sent[h]) :
    sent[h][p].type = Carrier[h] => Submitted(sent[h][p])

\* The inductive invariant of the connections.
FramingInv ==
  /\ sent \in [Hops -> Seq(Words)] /\ handled \in [Hops -> Seq(Words)]
  /\ arrived \in [Hops -> Nat] /\ drained \in [Hops -> Nat] /\ passed \in [Hops -> Nat]
  /\ \A h \in Hops : ConnectionInv(h, sent[h], arrived[h], drained[h], handled[h])
  /\ \A h \in Hops : passed[h] <= Len(handled[h])
  /\ record_size \in Nat /\ intact \in BOOLEAN
  /\ Origin

\* Words of a connection are words.
LEMMA WordsOfHop ==
  ASSUME NEW h \in Hops, NEW s \in Seq(Word(h))
  PROVE  s \in Seq(Words)
  <1>1. \A x \in Word(h) : x \in Words
    BY Zenon DEF Words
  <1>2. QED
    BY <1>1

\* Writing a message keeps the invariant when the value in it was submitted.
LEMMA SendStep ==
  ASSUME FramingInv, NEW h \in Hops, NEW m \in Message(h), sendbuf_add(h, m),
         arrived' = arrived, drained' = drained, handled' = handled,
         passed' \in [Hops -> Nat], \A g \in Hops : passed'[g] <= Len(handled[g]),
         record_size' = record_size, intact' \in BOOLEAN, intact' => intact,
         m.type = Carrier[h] /\ (h = 3 => intact') => h = 1 \/ Submitted(m)
  PROVE  FramingInv'
  <1>1. \A g \in Hops : ConnectionInv(g, sent[g], arrived[g], drained[g], handled[g])
    BY Zenon DEF FramingInv
  <1>2. PICK t : t = sent[h] \o words(m)
    BY Zenon
  <1>3. ConnectionInv(h, t, arrived[h], drained[h], handled[h])
    BY <1>1, <1>2, AddKeeps
  <1>4. sent \in [Hops -> Seq(Words)] /\ sent' = [sent EXCEPT ![h] = t]
    BY <1>2 DEF FramingInv, sendbuf_add
  <1>5. t \in Seq(Word(h)) /\ t \in Seq(Words)
    <2>1. t \in Seq(Word(h))
      BY <1>3, Zenon DEF ConnectionInv
    <2>2. QED
      BY <2>1, WordsOfHop, Zenon
  <1>6. /\ sent' \in [Hops -> Seq(Words)]
        /\ sent'[h] = t
        /\ \A g \in Hops : g # h => sent'[g] = sent[g]
    BY <1>4, <1>5
  <1>7. \A g \in Hops : ConnectionInv(g, sent'[g], arrived'[g], drained'[g], handled'[g])
    BY <1>1, <1>3, <1>6, Zenon
  <1>8. \A g \in Hops : sent[g] \in Seq(Word(g))
    BY <1>1, Zenon DEF ConnectionInv
  <1>9. Added(sent[h], m, t)
    <2>1. sent[h] \in Seq(Word(h))
      BY <1>8, Zenon
    <2>2. QED
      BY <1>2, <1>5, <2>1, WordsAdded, Zenon
  <1>10. /\ Len(t) \in Nat /\ Len(sent[h]) \in Nat
         /\ Len(sent[h]) < Len(t)
         /\ \A p \in 1 .. Len(sent[h]) : t[p] = sent[h][p]
         /\ t[Len(sent[h]) + 1] = m
         /\ \A p \in Len(sent[h]) + 2 .. Len(t) : t[p] = Torn
    <2>1. Len(t) \in Nat /\ Len(sent[h]) \in Nat
      BY <1>5, <1>8
    <2>2. Len(sent[h]) < Len(t)
      BY <1>9, <2>1 DEF Added
    <2>3. QED
      BY <1>9, <2>1, <2>2, Zenon DEF Added
  <1>11. \A g \in Hops : \A p \in 1 .. Len(sent[g]) :
           p \in 1 .. Len(sent'[g]) /\ sent'[g][p] = sent[g][p]
    <2> TAKE g \in Hops
    <2>1. CASE g = h
      BY <1>6, <1>10, <2>1
    <2>2. CASE g # h
      BY <1>6, <2>2, Zenon
    <2>3. QED
      BY <2>1, <2>2, Zenon
  <1>12. \A x : Submitted(x) => Submitted(x)'
    <2>1. 1 \in Hops
      BY DEF Hops
    <2>2. QED
      BY <1>11, <2>1, Zenon DEF Submitted
  <1>13. ASSUME NEW g \in Hops, g = 3 => intact', NEW p \in 1 .. Len(sent'[g]), sent'[g][p].type = Carrier[g]
         PROVE  Submitted(sent[g][p])'
    <2>1. CASE p \in 1 .. Len(sent[g])
      <3>0. g = 3 => intact
        BY <1>13, Zenon
      <3>1. sent'[g][p] = sent[g][p]
        BY <1>11, <2>1, Zenon
      <3>2. Submitted(sent[g][p])
        BY <1>13, <2>1, <3>0, <3>1, Zenon DEF FramingInv, Origin
      <3>3. PICK x : x = sent[g][p]
        OBVIOUS
      <3>4. Submitted(x)'
        BY <1>12, <3>2, <3>3, Zenon
      <3>5. QED
        BY <3>1, <3>3, <3>4, Zenon DEF Submitted
    <2>2. CASE ~(p \in 1 .. Len(sent[g]))
      <3>1. g = h
        BY <1>6, <2>2, Zenon
      <3>2. p = Len(sent[h]) + 1 \/ p \in Len(sent[h]) + 2 .. Len(t)
        BY <1>6, <1>10, <2>2, <3>1
      <3>3. Carrier[h] # "torn" /\ Torn.type = "torn"
        <4>1. h = 1 \/ h = 2 \/ h = 3
          BY DEF Hops
        <4>2. QED
          BY <4>1 DEF Carrier, Torn
      <3>4. sent'[g][p] = m /\ p = Len(sent[h]) + 1
        BY <1>6, <1>10, <1>13, <3>1, <3>2, <3>3, Zenon
      <3>5. Submitted(m)'
        <4>1. CASE h = 1
          <5>1. [m EXCEPT !.type = Carrier[1]] = m
            <6>1. m.type = Carrier[1]
              BY <1>13, <3>1, <3>4, <4>1, Zenon
            <6>2. QED
              BY <6>1 DEF Message
          <5>2. p \in 1 .. Len(sent'[1]) /\ sent'[1][p] = m
            BY <3>1, <3>4, <4>1, Zenon
          <5>3. QED
            BY <5>1, <5>2, Zenon DEF Submitted
        <4>2. CASE h # 1
          BY <1>12, <1>13, <3>1, <3>4, <4>2, Zenon
        <4>3. QED
          BY <4>1, <4>2, Zenon
      <3>6. QED
        BY <3>4, <3>5, Zenon DEF Submitted
    <2>3. QED
      BY <2>1, <2>2, Zenon
  <1>14. Origin'
    BY <1>13, Zenon DEF Origin
  <1>15. record_size' \in Nat
    BY Zenon DEF FramingInv
  <1>16. QED
    BY <1>6, <1>7, <1>14, <1>15, Zenon DEF FramingInv

\* The messages c were read from the words s: they are among them, and none is discarded.
ReadFrom(h, s, c) ==
  /\ c \in Seq(Message(h))
  /\ \A k \in 1 .. Len(c) : \E p \in 1 .. Len(s) : c[k] = s[p]
  /\ \A k \in 1 .. Len(c) : ~discarded(c[k])

\* The handlers are called with messages of their connection.
LEMMA HandledType ==
  ASSUME NEW h \in Hops, NEW s, NEW a, NEW d, NEW c, ConnectionInv(h, s, a, d, c)
  PROVE  ReadFrom(h, s, c)
  <1>1. /\ s \in Seq(Word(h)) /\ c = sublist(s, wanted(s, d)) /\ Len(s) \in Nat
        /\ d \in 0 .. Len(s) /\ d \in Nat
    BY DEF ConnectionInv
  <1>2. wanted(s, d) \in SUBSET (1 .. d) /\ c \in Seq(Message(h))
    BY <1>1, WantedList, Zenon
  <1>3. PICK K \in SUBSET (1 .. d) : K = wanted(s, d)
    BY <1>2
  <1>4. Cardinality(K) \in Nat
    <2>1. IsFiniteSet(1 .. d)
      BY <1>1, FS_Interval
    <2>2. QED
      BY <2>1, FS_Subset, FS_CardinalityType, Zenon
  <1>5. Len(c) = Cardinality(K) /\ \A k \in 1 .. Cardinality(K) : c[k] = s[nth(K, k)]
    BY <1>1, <1>3, <1>4 DEF sublist
  <1>6. \A k \in 1 .. Cardinality(K) : nth(K, k) \in K
    BY <1>1, NthPosition, Zenon
  <1>7. \A p \in K : p \in 1 .. Len(s) /\ ~discarded(s[p])
    <2>1. \A p \in K : p \in 1 .. Len(s)
      BY <1>1
    <2>2. QED
      BY <1>3, <2>1, Zenon DEF wanted
  <1>8. QED
    BY <1>2, <1>5, <1>6, <1>7, Zenon DEF ReadFrom

\* A read callback keeps the invariant.
LEMMA ReadStep ==
  ASSUME FramingInv, NEW h \in Hops, Read(h)
  PROVE  FramingInv'
  <1>1. PICK n \in arrived[h] + 1 .. Len(sent[h]) :
          /\ arrived' = [arrived EXCEPT ![h] = n]
          /\ drained' = [drained EXCEPT ![h] = on_read(sent[h], drained[h], n).end]
          /\ handled' = [handled EXCEPT ![h] = @ \o on_read(sent[h], drained[h], n).calls]
    BY Zenon DEF Read
  <1>2. sent' = sent /\ passed' = passed /\ record_size' = record_size /\ intact' = intact
    BY DEF Read
  <1>3. PICK b : b = on_read(sent[h], drained[h], n)
    OBVIOUS
  <1>4. \A g \in Hops : ConnectionInv(g, sent[g], arrived[g], drained[g], handled[g])
    BY Zenon DEF FramingInv
  <1>5. /\ ConnectionInv(h, sent[h], n, b.end, handled[h] \o b.calls)
        /\ handled[h] \in Seq(Message(h)) /\ b.calls \in Seq(Message(h))
    BY <1>3, <1>4, ReadKeeps
  <1>6. PICK c : c = handled[h] \o b.calls
    BY Zenon
  <1>7. PICK e : e = b.end
    OBVIOUS
  <1>8. n \in Nat /\ e \in Nat
    BY <1>5, <1>7, Zenon DEF ConnectionInv
  <1>9. c \in Seq(Message(h)) /\ Len(handled[h]) <= Len(c) /\ Len(c) \in Nat
    BY <1>5, <1>6, ConcatItems, Zenon
  <1>10. c \in Seq(Words)
    <2>1. \A x \in Message(h) : x \in Word(h)
      BY Zenon DEF Word
    <2>2. c \in Seq(Word(h))
      BY <1>9, <2>1
    <2>3. QED
      BY <2>2, WordsOfHop, Zenon
  <1>11. /\ arrived \in [Hops -> Nat] /\ drained \in [Hops -> Nat] /\ passed \in [Hops -> Nat]
         /\ handled \in [Hops -> Seq(Words)] /\ sent \in [Hops -> Seq(Words)]
         /\ \A g \in Hops : passed[g] <= Len(handled[g])
    BY Zenon DEF FramingInv
  <1>12. /\ arrived' = [arrived EXCEPT ![h] = n] /\ drained' = [drained EXCEPT ![h] = e]
         /\ handled' = [handled EXCEPT ![h] = c]
    BY <1>1, <1>3, <1>6, <1>7
  <1>13. /\ arrived' \in [Hops -> Nat] /\ arrived'[h] = n
         /\ \A g \in Hops : g # h => arrived'[g] = arrived[g]
    BY <1>8, <1>11, <1>12
  <1>14. /\ drained' \in [Hops -> Nat] /\ drained'[h] = e
         /\ \A g \in Hops : g # h => drained'[g] = drained[g]
    BY <1>8, <1>11, <1>12
  <1>15. /\ handled' \in [Hops -> Seq(Words)] /\ handled'[h] = c
         /\ \A g \in Hops : g # h => handled'[g] = handled[g]
    BY <1>10, <1>11, <1>12
  <1>16. ASSUME NEW g \in Hops
         PROVE  /\ ConnectionInv(g, sent'[g], arrived'[g], drained'[g], handled'[g])
                /\ passed'[g] <= Len(handled'[g])
    <2>1. CASE g = h
      <3>1. ConnectionInv(g, sent'[g], arrived'[g], drained'[g], handled'[g])
        BY <1>2, <1>5, <1>6, <1>7, <1>13, <1>14, <1>15, <2>1, Zenon
      <3>2. passed[h] \in Nat /\ passed[h] <= Len(handled[h]) /\ Len(handled[h]) \in Nat
        BY <1>5, <1>11
      <3>3. passed'[g] <= Len(handled'[g])
        BY <1>2, <1>9, <1>15, <2>1, <3>2
      <3>4. QED
        BY <3>1, <3>3, Zenon
    <2>2. CASE g # h
      BY <1>2, <1>4, <1>11, <1>13, <1>14, <1>15, <2>2, Zenon
    <2>3. QED
      BY <2>1, <2>2, Zenon
  <1>17. Origin'
    <2>1. \A x : Submitted(x) => Submitted(x)'
      BY <1>2, Zenon DEF Submitted
    <2>2. Origin
      BY Zenon DEF FramingInv
    <2>3. QED
      BY <1>2, <2>1, <2>2, Zenon DEF Origin, Submitted
  <1>18. /\ sent' \in [Hops -> Seq(Words)] /\ passed' \in [Hops -> Nat]
         /\ record_size' \in Nat /\ intact' \in BOOLEAN
    BY <1>2, <1>11, Zenon DEF FramingInv
  <1>19. QED
    BY <1>13, <1>14, <1>15, <1>16, <1>17, <1>18, Zenon DEF FramingInv

\* Dealing with a message keeps the invariant: its value goes on unchanged, or the
\* acceptor has written beyond a record.
LEMMA PassStep ==
  ASSUME FramingInv, NEW h \in Hops, Pass(h)
  PROVE  FramingInv'
  <1>1. /\ passed[h] < Len(handled[h])
        /\ passed' = [passed EXCEPT ![h] = @ + 1]
        /\ arrived' = arrived /\ drained' = drained /\ handled' = handled
        /\ record_size' = record_size
    BY DEF Pass
  <1>2. /\ arrived \in [Hops -> Nat] /\ drained \in [Hops -> Nat] /\ passed \in [Hops -> Nat]
        /\ handled \in [Hops -> Seq(Words)] /\ sent \in [Hops -> Seq(Words)]
        /\ \A g \in Hops : passed[g] <= Len(handled[g])
        /\ \A g \in Hops : ConnectionInv(g, sent[g], arrived[g], drained[g], handled[g])
        /\ record_size \in Nat /\ intact \in BOOLEAN
        /\ Origin
    BY Zenon DEF FramingInv
  <1>3. \A g \in Hops : Len(handled[g]) \in Nat /\ passed[g] \in Nat
    BY <1>2
  <1>4. passed' \in [Hops -> Nat] /\ \A g \in Hops : passed'[g] <= Len(handled[g])
    BY <1>1, <1>2, <1>3
  <1>5. PICK m : m = handled[h][passed[h] + 1]
    OBVIOUS
  <1>6. passed[h] + 1 \in 1 .. Len(handled[h])
    BY <1>1, <1>3
  <1>7. m \in Message(h) /\ \E p \in 1 .. Len(sent[h]) : m = sent[h][p]
    <2>1. ConnectionInv(h, sent[h], arrived[h], drained[h], handled[h])
      BY <1>2, Zenon
    <2>2. /\ handled[h] \in Seq(Message(h))
          /\ \A k \in 1 .. Len(handled[h]) : \E p \in 1 .. Len(sent[h]) : handled[h][k] = sent[h][p]
      <3>1. ReadFrom(h, sent[h], handled[h])
        BY <2>1, HandledType, Zenon
      <3>2. QED
        BY <3>1, Zenon DEF ReadFrom
    <2>3. handled[h][passed[h] + 1] \in Message(h)
      BY <1>6, <2>2
    <2>4. QED
      BY <1>5, <1>6, <2>2, <2>3, Zenon
  <1>8. CASE h < 3 /\ m.type = Carrier[h]
    <2>1. PICK y : y = [m EXCEPT !.type = Carrier[h + 1]]
      BY Zenon
    <2>2. /\ intact' = (intact /\ (h = 2 => fits(m)))
          /\ \E x \in forwarded(h, m, intact') : sendbuf_add(h + 1, x)
      BY <1>5, <1>8, Zenon DEF Pass
    <2>3. intact' \in BOOLEAN /\ (intact' => intact)
      BY <1>2, <2>2, Zenon
    <2>4. PICK x : /\ sendbuf_add(h + 1, x)
                   /\ x = y \/ (h = 2 /\ ~intact' /\ x \in damaged_record)
      BY <2>1, <2>2, Zenon DEF forwarded
    <2>5. h + 1 \in Hops /\ h + 1 # 1 /\ (h = 2 <=> h + 1 = 3)
      BY <1>8 DEF Hops
    <2>6. x \in Message(h + 1)
      <3>1. y \in Message(h + 1)
        BY <1>7, <2>1 DEF Message
      <3>2. damaged_record \subseteq Message(3)
        BY FramingAssumption, Zenon DEF damaged_record, Message, Carrier
      <3>3. QED
        BY <2>4, <2>5, <3>1, <3>2, Zenon
    <2>7. Submitted(m)
      <3>1. h # 3
        BY <1>8
      <3>2. QED
        BY <1>2, <1>7, <1>8, <3>1, Zenon DEF Origin
    <2>8. Submitted(y)
      <3>1. [y EXCEPT !.type = Carrier[1]] = [m EXCEPT !.type = Carrier[1]]
        BY <1>7, <2>1, Zenon DEF Message
      <3>2. QED
        BY <2>7, <3>1, Zenon DEF Submitted
    <2>9. (h + 1 = 3 => intact') => Submitted(x)
      BY <2>4, <2>5, <2>8, Zenon
    <2>10. QED
      BY <1>1, <1>4, <2>3, <2>4, <2>5, <2>6, <2>9, SendStep, Zenon
  <1>9. CASE ~(h < 3 /\ m.type = Carrier[h])
    <2>1. sent' = sent /\ intact' = intact
      BY <1>5, <1>9, Zenon DEF Pass
    <2>2. Origin'
      <3>1. \A x : Submitted(x) => Submitted(x)'
        BY <2>1, Zenon DEF Submitted
      <3>2. QED
        BY <1>2, <2>1, <3>1, ZenonT(30) DEF Origin, Submitted
    <2>3. \A g \in Hops : ConnectionInv(g, sent'[g], arrived'[g], drained'[g], handled'[g])
      BY <1>1, <1>2, <2>1, Zenon
    <2>4. QED
      BY <1>1, <1>2, <1>4, <2>1, <2>2, <2>3, Zenon DEF FramingInv
  <1>10. QED
    BY <1>8, <1>9, Zenon

\* At first nothing is there.
LEMMA FramingStart ==
  ASSUME Init
  PROVE  FramingInv
  <1>1. /\ sent = [h \in Hops |-> <<>>] /\ handled = [h \in Hops |-> <<>>]
        /\ arrived = [h \in Hops |-> 0] /\ drained = [h \in Hops |-> 0]
        /\ passed = [h \in Hops |-> 0]
    BY Zenon DEF Init
  <1>2. /\ sent \in [Hops -> Seq(Words)] /\ handled \in [Hops -> Seq(Words)]
        /\ arrived \in [Hops -> Nat] /\ drained \in [Hops -> Nat] /\ passed \in [Hops -> Nat]
    BY <1>1
  <1>3. \A h \in Hops : /\ sent[h] = <<>> /\ handled[h] = <<>>
                        /\ arrived[h] = 0 /\ drained[h] = 0 /\ passed[h] = 0
    BY <1>1
  <1>4. ASSUME NEW h \in Hops
        PROVE  ConnectionInv(h, <<>>, 0, 0, <<>>)
    <2>1. <<>> \in Seq(Word(h)) /\ Len(<<>>) = 0 /\ ~(0 < 0) /\ 0 <= 0 /\ 0 \in Nat
      OBVIOUS
    <2>2. \A p : ~(p \in 1 .. 0)
      OBVIOUS
    <2>3. Framed(<<>>)
      BY <2>1, <2>2, Zenon DEF Framed
    <2>4. Boundary(<<>>, 0) /\ message_at(<<>>, 0) = Torn
      BY <2>1, Zenon DEF Boundary, message_at
    <2>5. wanted(<<>>, 0) = {}
      BY <2>2, Zenon DEF wanted
    <2>6. sublist(<<>>, {}) = <<>>
      <3>1. Cardinality({}) = 0
        BY FS_EmptySet, Zenon
      <3>2. QED
        BY <3>1 DEF sublist
    <2>7. QED
      BY <2>1, <2>3, <2>4, <2>5, <2>6, Zenon DEF ConnectionInv
  <1>5. \A h \in Hops : ConnectionInv(h, sent[h], arrived[h], drained[h], handled[h])
    BY <1>3, <1>4, Zenon
  <1>6. \A h \in Hops : passed[h] <= Len(handled[h])
    BY <1>3
  <1>7. Origin
    BY <1>3 DEF Origin
  <1>8. record_size \in Nat /\ intact \in BOOLEAN
    BY FramingAssumption DEF Init
  <1>9. QED
    BY <1>2, <1>5, <1>6, <1>7, <1>8, Zenon DEF FramingInv

\* A count of messages is a natural number.
LEMMA CountType ==
  ASSUME FramingInv, NEW h \in Hops, NEW type
  PROVE  count(h, type) \in Nat
  <1>1. sent[h] \in Seq(Words)
    BY DEF FramingInv
  <1>2. Len(sent[h]) \in Nat
    BY <1>1
  <1>3. IsFiniteSet(1 .. Len(sent[h]))
    BY <1>2, FS_Interval
  <1>4. IsFiniteSet({p \in 1 .. Len(sent[h]) : sent[h][p].type = type})
    BY <1>3, FS_Subset, Zenon
  <1>5. QED
    BY <1>4, FS_CardinalityType, Zenon DEF count

\* The invariant of the connections holds, for any sizes and any number of values and
\* requests, however the words are cut into pieces.
THEOREM FramingInvariance == Spec => []FramingInv
  <1>1. Init => FramingInv
    BY FramingStart, Zenon
  <1>2. FramingInv /\ [Next]_vars => FramingInv'
    <2> SUFFICES ASSUME FramingInv, [Next]_vars
                 PROVE  FramingInv'
      OBVIOUS
    <2>1. /\ passed \in [Hops -> Nat]
          /\ \A g \in Hops : passed[g] <= Len(handled[g])
          /\ intact \in BOOLEAN
      BY Zenon DEF FramingInv
    <2>2. CASE \E size \in ValueSizes : paxos_submit(size)
      <3>1. PICK size \in ValueSizes : paxos_submit(size)
        BY <2>2, Zenon
      <3>2. 1 \in Hops /\ Carrier[1] = "submit"
        BY DEF Hops, Carrier
      <3>3. PICK c \in Nat : c = count(1, Carrier[1])
        BY <3>2, CountType
      <3>4. PICK m : m = [type |-> Carrier[1], id |-> c + 1, value_size |-> size]
        BY Zenon
      <3>5. /\ c < MaxValues
            /\ sendbuf_add(1, m)
            /\ arrived' = arrived /\ drained' = drained /\ handled' = handled /\ passed' = passed
            /\ record_size' = record_size /\ intact' = intact
        BY <3>1, <3>3, <3>4 DEF paxos_submit
      <3>6. m \in Message(1)
        <4>1. c + 1 \in Ids
          BY <3>5, FramingAssumption DEF Ids
        <4>2. QED
          BY <3>4, <4>1 DEF Message
      <3>7. QED
        BY <2>1, <3>2, <3>5, <3>6, SendStep, Zenon
    <2>3. CASE send_prepare
      <3>1. /\ sendbuf_add(2, prepare_req)
            /\ arrived' = arrived /\ drained' = drained /\ handled' = handled /\ passed' = passed
            /\ record_size' = record_size /\ intact' = intact
        BY <2>3 DEF send_prepare
      <3>2. 2 \in Hops /\ prepare_req \in Message(2) /\ prepare_req.type # Carrier[2]
        BY DEF Hops, Message, prepare_req, Carrier
      <3>3. QED
        BY <2>1, <3>1, <3>2, SendStep, Zenon
    <2>4. CASE \E h \in Hops : Step(h)
      BY <2>4, ReadStep, PassStep, Zenon DEF Step
    <2>5. CASE UNCHANGED vars
      <3>1. /\ sent' = sent /\ arrived' = arrived /\ drained' = drained
            /\ handled' = handled /\ passed' = passed
            /\ record_size' = record_size /\ intact' = intact
        BY <2>5 DEF vars
      <3>2. \A x : Submitted(x) => Submitted(x)'
        BY <3>1, Zenon DEF Submitted
      <3>3. Origin'
        BY <3>1, <3>2, ZenonT(30) DEF FramingInv, Origin, Submitted
      <3>4. QED
        BY <3>1, <3>3, Zenon DEF FramingInv
    <2>6. QED
      BY <2>2, <2>3, <2>4, <2>5, Zenon DEF Next
  <1>3. QED
    BY <1>1, <1>2, PTL DEF Spec

\* The variables keep their types: no handler is called with a part of a message, and
\* no more is taken than has arrived, or arrives than was written.
THEOREM FramingTypes == Spec => []TypeOK
  <1>1. FramingInv => TypeOK
    <2> SUFFICES ASSUME FramingInv
                 PROVE  TypeOK
      OBVIOUS
    <2>1. ASSUME NEW h \in Hops
          PROVE  /\ sent[h] \in Seq(Word(h))
                 /\ handled[h] \in Seq(Message(h))
                 /\ drained[h] <= arrived[h]
                 /\ arrived[h] <= Len(sent[h])
      <3>1. ConnectionInv(h, sent[h], arrived[h], drained[h], handled[h])
        BY Zenon DEF FramingInv
      <3>2. handled[h] \in Seq(Message(h))
        BY <3>1, HandledType, Zenon DEF ReadFrom
      <3>3. QED
        BY <3>1, <3>2, Zenon DEF ConnectionInv
    <2>2. QED
      BY <2>1, Zenon DEF FramingInv, TypeOK
  <1>2. QED
    BY <1>1, FramingInvariance, PTL

\* The read callbacks of tcp_receiver.c, evproposer.c and evlearner.c call the handlers
\* with the messages that were written, in order, but for those that are too large.
THEOREM HandlersGetWhatWasSent == Spec => []HandledIsSent
  <1>1. FramingInv => HandledIsSent
    BY Zenon DEF FramingInv, ConnectionInv, Boundary, HandledIsSent
  <1>2. QED
    BY <1>1, FramingInvariance, PTL

\* No whole message waits in a buffer when a read callback has returned, save a header
\* without data.
THEOREM NoMessageWaits == Spec => []NothingLeftBehind
  <1>1. FramingInv => NothingLeftBehind
    BY Zenon DEF FramingInv, ConnectionInv, NothingLeftBehind
  <1>2. QED
    BY <1>1, FramingInvariance, PTL

\* Every value that a handler is called with is one that a client submitted, with its
\* id and its size, and fits in the buffer: at the learner, as long as no value was too
\* large for a record of the acceptor.
ValuesAreSubmitted ==
  \A h \in Hops : (h = 3 => intact) => \A k \in 1 .. Len(handled[h]) :
    handled[h][k].type = Carrier[h] => Submitted(handled[h][k]) /\ ~discarded(handled[h][k])

\* No handler is called with a value that no client submitted, unless storage_save_accept
\* has written beyond a record.
THEOREM NoValueMadeUp == Spec => []ValuesAreSubmitted
  <1>1. FramingInv => ValuesAreSubmitted
    <2> SUFFICES ASSUME FramingInv, NEW h \in Hops, h = 3 => intact,
                        NEW k \in 1 .. Len(handled[h]), handled[h][k].type = Carrier[h]
                 PROVE  Submitted(handled[h][k]) /\ ~discarded(handled[h][k])
      BY Zenon DEF ValuesAreSubmitted
    <2>1. ConnectionInv(h, sent[h], arrived[h], drained[h], handled[h])
      BY Zenon DEF FramingInv
    <2>2. /\ \E p \in 1 .. Len(sent[h]) : handled[h][k] = sent[h][p]
          /\ ~discarded(handled[h][k])
      <3>1. ReadFrom(h, sent[h], handled[h])
        BY <2>1, HandledType, Zenon
      <3>2. QED
        BY <3>1, Zenon DEF ReadFrom
    <2>3. QED
      BY <2>2, Zenon DEF FramingInv, Origin
  <1>2. QED
    BY <1>1, FramingInvariance, PTL
=============================================================================
