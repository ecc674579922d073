---------------------------- MODULE CarrayProofs ----------------------------
(***************************************************************************)
(* The circular array of carray.c implements the sequence of Deque, for    *)
(* any items, any initial size and any growth.  The invariant says where   *)
(* the items are: from the head on, across the end of the array, up to the *)
(* tail.                                                                   *)
(***************************************************************************)
EXTENDS Carray, QuorumTheorems

\* The slot of the i-th item from the head.
place(c, i) == (c.head + i) % c.size

\* A struct carray: the tail is `count` slots after the head, and the slots from the
\* head on, as many as there are items, hold items.
WellFormed(c) ==
  /\ c.size \in Nat \ {0}
  /\ c \in [head  : 0 .. c.size - 1,
            tail  : 0 .. c.size - 1,
            size  : {c.size},
            count : 0 .. c.size,
            array : [0 .. c.size - 1 -> Item \cup {Garbage}]]
  /\ c.tail = place(c, c.count)
  /\ \A i \in 0 .. c.count - 1 : c.array[place(c, i)] \in Item

\* The inductive invariant of the array.
CarrayInv ==
  /\ WellFormed(arr)
  /\ arr.size <= MaxSize
  /\ result \in Item \cup {Null}

\* Where the i-th item is.
LEMMA PlaceIs ==
  ASSUME NEW c, c.size \in Nat \ {0}, c.head \in 0 .. c.size - 1, NEW i \in 0 .. c.size
  PROVE  /\ c.head + i < c.size => place(c, i) = c.head + i
         /\ c.head + i >= c.size => place(c, i) = c.head + i - c.size
         /\ place(c, i) \in 0 .. c.size - 1
  <1>1. PICK n \in Nat \ {0} : n = c.size
    OBVIOUS
  <1>2. PICK m \in 0 .. 2 * n - 1 : m = c.head + i
    BY <1>1
  <1>3. place(c, i) = m % n
    BY <1>1, <1>2 DEF place
  <1>4. (m < n => m % n = m) /\ (m >= n => m % n = m - n)
    BY WrapsOnce, Zenon
  <1>5. QED
    BY <1>1, <1>2, <1>3, <1>4

\* Sequences are equal when they agree at every position.
LEMMA SameItems ==
  ASSUME NEW s \in Seq(Item), NEW t \in Seq(Item), Len(s) = Len(t),
         \A i \in 1 .. Len(s) : s[i] = t[i]
  PROVE  s = t
  OBVIOUS

\* A sublist is a list, no longer than the list it comes from.
LEMMA SublistType ==
  ASSUME NEW s \in Seq(Item), NEW K \in SUBSET (1 .. Len(s))
  PROVE  sublist(s, K) \in Seq(Item) /\ Len(sublist(s, K)) <= Len(s)
  <1>1. Len(s) \in Nat
    OBVIOUS
  <1>2. \A j \in 1 .. Cardinality(K) : nth(K, j) \in 1 .. Len(s)
    BY <1>1, NthPosition, Zenon
  <1>3. Cardinality(K) \in Nat /\ Cardinality(K) <= Len(s)
    <2>1. 1 \in Int /\ Len(s) \in Int
      BY <1>1
    <2>2. /\ IsFiniteSet(1 .. Len(s))
          /\ Cardinality(1 .. Len(s)) = IF 1 > Len(s) THEN 0 ELSE Len(s) - 1 + 1
      BY <2>1, FS_Interval, Zenon
    <2>3. IsFiniteSet(K) /\ Cardinality(K) <= Cardinality(1 .. Len(s))
      BY <2>2, FS_Subset, Zenon
    <2>4. Cardinality(K) \in Nat
      BY <2>3, FS_CardinalityType, Zenon
    <2>5. QED
      BY <1>1, <2>2, <2>3, <2>4
  <1>4. QED
    BY <1>2, <1>3, SMTT(20) DEF sublist
-----------------------------------------------------------------------------
(* The sequence a carray stands for *)

\* The contents are items, found from the head on.
LEMMA ContentsAre ==
  ASSUME NEW c, WellFormed(c)
  PROVE  /\ contents(c) \in Seq(Item)
         /\ Len(contents(c)) = c.count
         /\ \A i \in 1 .. c.count : contents(c)[i] = c.array[place(c, i - 1)]
  <1>1. c.count \in Nat
    BY DEF WellFormed
  <1>2. ASSUME NEW i \in 1 .. c.count
        PROVE  carray_at(c, i - 1) = c.array[place(c, i - 1)]
               /\ carray_at(c, i - 1) \in Item
    <2>1. i - 1 \in 0 .. c.count - 1 /\ c.count # 0
      BY <1>1
    <2>2. QED
      BY <2>1, Zenon DEF WellFormed, carray_at, carray_empty, place
  <1>3. QED
    BY <1>1, <1>2 DEF contents

\* Two arrays with the same number of items, found in the same order, are one sequence.
LEMMA SameContents ==
  ASSUME NEW c, WellFormed(c), NEW s \in Seq(Item), Len(s) = c.count,
         \A i \in 1 .. c.count : c.array[place(c, i - 1)] = s[i]
  PROVE  contents(c) = s
  <1>1. /\ contents(c) \in Seq(Item) /\ Len(contents(c)) = Len(s)
        /\ \A i \in 1 .. Len(contents(c)) : contents(c)[i] = s[i]
    BY ContentsAre
  <1>2. QED
    BY <1>1, SameItems

\* A new array that takes the items of a sequence holds that sequence.
LEMMA FilledArray ==
  ASSUME NEW n \in Nat \ {0}, NEW s \in Seq(Item), Len(s) <= n
  PROVE  LET c == carray_of(n, s)
         IN WellFormed(c) /\ contents(c) = s /\ c.size = n /\ c.count = Len(s)
  <1> DEFINE c == carray_of(n, s)
  <1>1. /\ c.head = 0 /\ c.tail = Len(s) % n /\ c.size = n /\ c.count = Len(s)
        /\ c.array = [i \in 0 .. n - 1 |-> IF i < Len(s) THEN s[i + 1] ELSE Garbage]
    BY DEF carray_of
  <1>2. c \in [head  : 0 .. n - 1, tail : 0 .. n - 1, size : {n}, count : 0 .. n,
               array : [0 .. n - 1 -> Item \cup {Garbage}]]
    <2>1. Len(s) % n \in 0 .. n - 1 /\ Len(s) \in 0 .. n
      OBVIOUS
    <2>2. [i \in 0 .. n - 1 |-> IF i < Len(s) THEN s[i + 1] ELSE Garbage]
            \in [0 .. n - 1 -> Item \cup {Garbage}]
      OBVIOUS
    <2>3. QED
      BY <2>1, <2>2 DEF carray_of
  <1> HIDE DEF c
  <1>3. c.tail = place(c, c.count)
    BY <1>1 DEF place
  <1>4. ASSUME NEW i \in 0 .. c.count - 1
        PROVE  c.array[place(c, i)] = s[i + 1] /\ s[i + 1] \in Item
    <2>1. place(c, i) = i
      <3>1. /\ c.size \in Nat \ {0} /\ c.head \in 0 .. c.size - 1 /\ i \in 0 .. c.size
            /\ c.head + i < c.size /\ c.head + i = i
        BY <1>1
      <3>2. QED
        BY <3>1, PlaceIs, Zenon
    <2>2. i \in 0 .. n - 1 /\ i < Len(s) /\ i + 1 \in 1 .. Len(s)
      BY <1>1
    <2>3. QED
      BY <1>1, <2>1, <2>2
  <1>5. WellFormed(c)
    BY <1>1, <1>2, <1>3, <1>4, Zenon DEF WellFormed
  <1>6. contents(c) = s
    <2>1. ASSUME NEW i \in 1 .. c.count
          PROVE  c.array[place(c, i - 1)] = s[i]
      <3>1. i - 1 \in 0 .. c.count - 1 /\ (i - 1) + 1 = i
        BY <1>1
      <3>2. QED
        BY <1>4, <3>1
    <2>2. QED
      BY <1>1, <1>5, <2>1, SameContents, Zenon
  <1>7. QED
    BY <1>1, <1>5, <1>6 DEF c

\* carray_grow, when there is no room, moves the items and keeps their order.
LEMMA RoomMade ==
  ASSUME NEW c, WellFormed(c)
  PROVE  LET r == with_room(c)
         IN /\ WellFormed(r)
            /\ contents(r) = contents(c)
            /\ r.count = c.count
            /\ r.count < r.size
            /\ carray_full(c) => r.size = c.size * 2
            /\ ~ carray_full(c) => r.size = c.size
  <1> DEFINE r == with_room(c)
  <1>1. c.count \in 0 .. c.size /\ c.size \in Nat \ {0}
    BY DEF WellFormed
  <1>2. CASE ~ carray_full(c)
    BY <1>1, <1>2 DEF with_room, carray_full
  <1>3. CASE carray_full(c)
    <2>1. r = carray_of(c.size * 2, contents(c)) /\ c.count = c.size
      BY <1>3 DEF with_room, carray_grow, carray_full
    <2>2. contents(c) \in Seq(Item) /\ Len(contents(c)) = c.count
      BY ContentsAre
    <2>3. c.size * 2 \in Nat \ {0} /\ Len(contents(c)) <= c.size * 2 /\ c.count < c.size * 2
      BY <1>1, <2>1, <2>2
    <2>4. /\ WellFormed(r) /\ contents(r) = contents(c)
          /\ r.size = c.size * 2 /\ r.count = Len(contents(c))
      <3>1. PICK n \in Nat \ {0} : n = c.size * 2
        BY <2>3
      <3>2. PICK s \in Seq(Item) : s = contents(c)
        BY <2>2
      <3>3. r = carray_of(n, s) /\ Len(s) <= n
        BY <2>1, <2>3, <3>1, <3>2, Zenon
      <3>4. LET f == carray_of(n, s)
            IN WellFormed(f) /\ contents(f) = s /\ f.size = n /\ f.count = Len(s)
        BY <3>3, FilledArray, Zenon
      <3>5. QED
        BY <3>1, <3>2, <3>3, <3>4, Zenon
    <2>5. QED
      BY <1>3, <2>2, <2>3, <2>4, Zenon
  <1>4. QED
    BY <1>2, <1>3, Zenon

\* The places of the items, and the free one after the last, are distinct.
LEMMA PlacesDistinct ==
  ASSUME NEW c, c.size \in Nat \ {0}, c.head \in 0 .. c.size - 1,
         NEW i \in 0 .. c.size - 1, NEW j \in 0 .. c.size - 1, place(c, i) = place(c, j)
  PROVE  i = j
  <1>1. i \in 0 .. c.size /\ j \in 0 .. c.size
    OBVIOUS
  <1>2. /\ c.head + i < c.size => place(c, i) = c.head + i
        /\ c.head + i >= c.size => place(c, i) = c.head + i - c.size
        /\ c.head + j < c.size => place(c, j) = c.head + j
        /\ c.head + j >= c.size => place(c, j) = c.head + j - c.size
    BY <1>1, PlaceIs, Zenon
  <1>3. QED
    BY <1>2

\* The array after x is written at the tail.
appended(r, x) ==
  [r EXCEPT !.array[r.tail] = x, !.tail = (@ + 1) % r.size, !.count = @ + 1]

\* Writing at the tail of an array with room appends to the sequence.
LEMMA AppendedIs ==
  ASSUME NEW r, WellFormed(r), r.count < r.size, NEW x \in Item
  PROVE  LET c == appended(r, x)
         IN /\ WellFormed(c)
            /\ contents(c) = Append(contents(r), x)
            /\ c.size = r.size
  <1> DEFINE c == appended(r, x)
  <1>1. /\ r.size \in Nat \ {0} /\ r.count \in 0 .. r.size - 1
        /\ r.head \in 0 .. r.size - 1 /\ r.tail \in 0 .. r.size - 1
        /\ r.array \in [0 .. r.size - 1 -> Item \cup {Garbage}]
        /\ r.tail = place(r, r.count)
        /\ \A i \in 0 .. r.count - 1 : r.array[place(r, i)] \in Item
    BY DEF WellFormed
  <1>2. /\ c.head = r.head /\ c.size = r.size /\ c.count = r.count + 1
        /\ c.tail = (r.tail + 1) % r.size
        /\ c.array = [r.array EXCEPT ![r.tail] = x]
    BY DEF WellFormed, appended
  <1>3. (r.tail + 1) % r.size \in 0 .. r.size - 1
    BY <1>1
  <1>4. c \in [head  : 0 .. c.size - 1, tail : 0 .. c.size - 1, size : {c.size}, count : 0 .. c.size,
               array : [0 .. c.size - 1 -> Item \cup {Garbage}]]
    <2>1. r \in [head  : 0 .. r.size - 1, tail : 0 .. r.size - 1, size : {r.size},
                 count : 0 .. r.size, array : [0 .. r.size - 1 -> Item \cup {Garbage}]]
      BY DEF WellFormed
    <2>2. r.count + 1 \in 0 .. r.size
      BY <1>1
    <2>3. QED
      BY <1>1, <1>2, <1>3, <2>1, <2>2, Zenon DEF appended
  <1> HIDE DEF c
  <1>5. \A i : place(c, i) = place(r, i)
    BY <1>2 DEF place
  <1>6. c.tail = place(c, c.count)
    <2>1. PICK n \in Nat \ {0} : n = r.size
      BY <1>1
    <2>2. /\ r.head + r.count < n => r.tail = r.head + r.count
          /\ r.head + r.count >= n => r.tail = r.head + r.count - n
      <3>1. r.count \in 0 .. r.size
        BY <1>1
      <3>2. QED
        BY <1>1, <2>1, <3>1, PlaceIs, Zenon
    <2>3. /\ r.head + (r.count + 1) < n => place(r, r.count + 1) = r.head + (r.count + 1)
          /\ r.head + (r.count + 1) >= n => place(r, r.count + 1) = r.head + (r.count + 1) - n
      <3>1. r.count + 1 \in 0 .. r.size
        BY <1>1
      <3>2. QED
        BY <1>1, <2>1, <3>1, PlaceIs, Zenon
    <2>4. PICK m \in 0 .. 2 * n - 1 : m = r.tail + 1
      BY <1>1, <2>1
    <2>5. PICK k : k = m % n /\ (m < n => k = m) /\ (m >= n => k = m - n)
      BY WrapsOnce, Zenon
    <2>6. k = place(r, r.count + 1)
      <3>1. r.head \in Nat /\ r.count \in Nat /\ r.head < n /\ r.count < n /\ m = r.tail + 1
        BY <1>1, <2>1, <2>4
      <3>2. QED
        BY <2>2, <2>3, <2>5, <3>1
    <2>7. c.tail = m % n /\ c.count = r.count + 1
      BY <1>2, <2>1, <2>4
    <2>8. QED
      BY <1>5, <2>5, <2>6, <2>7, Zenon
  <1>7. ASSUME NEW i \in 0 .. r.count - 1
        PROVE  c.array[place(c, i)] = r.array[place(r, i)]
    <2>1. i \in 0 .. r.size - 1 /\ i \in 0 .. r.size /\ i # r.count
      BY <1>1
    <2>2. place(r, i) # r.tail
      BY <1>1, <2>1, PlacesDistinct, Zenon
    <2>3. place(r, i) \in 0 .. r.size - 1
      BY <1>1, <2>1, PlaceIs, Zenon
    <2>4. QED
      BY <1>1, <1>2, <1>5, <2>2, <2>3
  <1>8. c.array[place(c, r.count)] = x
    BY <1>1, <1>2, <1>5
  <1>9. WellFormed(c)
    <2>1. \A i \in 0 .. c.count - 1 : c.array[place(c, i)] \in Item
      <3>1. \A i \in 0 .. c.count - 1 : i \in 0 .. r.count - 1 \/ i = r.count
        BY <1>1, <1>2
      <3>2. QED
        BY <1>1, <1>7, <1>8, <3>1, Zenon
    <2>2. QED
      BY <1>1, <1>2, <1>4, <1>6, <2>1, Zenon DEF WellFormed
  <1>10. contents(c) = Append(contents(r), x)
    <2>1. /\ contents(r) \in Seq(Item) /\ Len(contents(r)) = r.count
          /\ \A i \in 1 .. r.count : contents(r)[i] = r.array[place(r, i - 1)]
      BY ContentsAre
    <2>2. /\ Append(contents(r), x) \in Seq(Item)
          /\ Len(Append(contents(r), x)) = c.count
          /\ \A i \in 1 .. r.count : Append(contents(r), x)[i] = contents(r)[i]
          /\ Append(contents(r), x)[r.count + 1] = x
      BY <1>2, <2>1
    <2>3. ASSUME NEW i \in 1 .. c.count
          PROVE  c.array[place(c, i - 1)] = Append(contents(r), x)[i]
      <3>1. CASE i \in 1 .. r.count
        <4>1. i - 1 \in 0 .. r.count - 1
          BY <1>1, <3>1
        <4>2. QED
          BY <1>7, <2>1, <2>2, <3>1, <4>1, Zenon
      <3>2. CASE i = r.count + 1
        <4>1. i - 1 = r.count
          BY <1>1, <3>2
        <4>2. QED
          BY <1>8, <2>2, <3>2, <4>1, Zenon
      <3>3. i \in 1 .. r.count \/ i = r.count + 1
        BY <1>1, <1>2, SMTT(20)
      <3>4. QED
        BY <3>1, <3>2, <3>3, Zenon
    <2>4. QED
      BY <1>9, <2>2, <2>3, SameContents, Zenon
  <1>11. QED
    BY <1>2, <1>9, <1>10 DEF c

\* carray_push_back appends to the sequence.
LEMMA PushedBack ==
  ASSUME NEW c, WellFormed(c), NEW x \in Item
  PROVE  LET d == carray_push_back(c, x)
         IN /\ WellFormed(d)
            /\ contents(d) = Append(contents(c), x)
            /\ d.size = with_room(c).size
  <1>1. carray_push_back(c, x) = appended(with_room(c), x)
    BY Zenon DEF carray_push_back, appended
  <1>2. PICK r : r = with_room(c)
    OBVIOUS
  <1>3. WellFormed(r) /\ contents(r) = contents(c) /\ r.count < r.size
    BY <1>2, RoomMade, Zenon
  <1>4. LET d == appended(r, x)
        IN WellFormed(d) /\ contents(d) = Append(contents(r), x) /\ d.size = r.size
    BY <1>3, AppendedIs, Zenon
  <1>5. QED
    BY <1>1, <1>2, <1>3, <1>4, Zenon

\* Places counted from the next slot.
LEMMA Shifted ==
  ASSUME NEW c, c.size \in Nat \ {0}, c.head \in 0 .. c.size - 1,
         NEW d, d.size = c.size, d.head = place(c, 1),
         NEW i \in 0 .. c.size - 1
  PROVE  place(d, i) = place(c, i + 1) /\ d.head \in 0 .. d.size - 1
  <1>1. 1 \in 0 .. c.size /\ i \in 0 .. c.size /\ i + 1 \in 0 .. c.size
    OBVIOUS
  <1>2. /\ c.head + 1 < c.size => d.head = c.head + 1
        /\ c.head + 1 >= c.size => d.head = c.head + 1 - c.size
        /\ d.head \in 0 .. d.size - 1
    BY <1>1, PlaceIs, Zenon
  <1>3. /\ c.head + (i + 1) < c.size => place(c, i + 1) = c.head + (i + 1)
        /\ c.head + (i + 1) >= c.size => place(c, i + 1) = c.head + (i + 1) - c.size
    BY <1>1, PlaceIs, Zenon
  <1>4. /\ d.head + i < d.size => place(d, i) = d.head + i
        /\ d.head + i >= d.size => place(d, i) = d.head + i - d.size
    <2>1. d.size \in Nat \ {0} /\ i \in 0 .. d.size
      BY <1>1, Zenon
    <2>2. QED
      BY <1>2, <2>1, PlaceIs, Zenon
  <1>5. QED
    BY <1>2, <1>3, <1>4

\* The array after x is written in front of the head.
prepended(r, x) ==
  [r EXCEPT !.head = before_head(r), !.array[before_head(r)] = x, !.count = @ + 1]

\* Writing in front of the head of an array with room adds to the sequence in front.
LEMMA PrependedIs ==
  ASSUME NEW r, WellFormed(r), r.count < r.size, NEW x \in Item
  PROVE  LET c == prepended(r, x)
         IN /\ WellFormed(c)
            /\ contents(c) = <<x>> \o contents(r)
            /\ c.size = r.size
  <1> DEFINE c == prepended(r, x)
  <1>1. /\ r.size \in Nat \ {0} /\ r.count \in 0 .. r.size - 1
        /\ r.head \in 0 .. r.size - 1 /\ r.tail \in 0 .. r.size - 1
        /\ r.array \in [0 .. r.size - 1 -> Item \cup {Garbage}]
        /\ r.tail = place(r, r.count)
        /\ \A i \in 0 .. r.count - 1 : r.array[place(r, i)] \in Item
    BY DEF WellFormed
  <1>2. /\ c.head = before_head(r) /\ c.size = r.size /\ c.count = r.count + 1
        /\ c.tail = r.tail
        /\ c.array = [r.array EXCEPT ![c.head] = x]
    BY DEF WellFormed, prepended
  <1>3. /\ r.head >= 1 => before_head(r) = r.head - 1
        /\ r.head = 0 => before_head(r) = r.size - 1
        /\ before_head(r) \in 0 .. r.size - 1
    BY <1>1 DEF before_head
  <1>4. c \in [head  : 0 .. c.size - 1, tail : 0 .. c.size - 1, size : {c.size}, count : 0 .. c.size,
               array : [0 .. c.size - 1 -> Item \cup {Garbage}]]
    <2>1. r \in [head  : 0 .. r.size - 1, tail : 0 .. r.size - 1, size : {r.size},
                 count : 0 .. r.size, array : [0 .. r.size - 1 -> Item \cup {Garbage}]]
      BY DEF WellFormed
    <2>2. r.count + 1 \in 0 .. r.size
      BY <1>1
    <2>3. QED
      BY <1>1, <1>2, <1>3, <2>1, <2>2, Zenon DEF prepended
  <1> HIDE DEF c
  <1>5. place(c, 0) = c.head /\ place(c, 1) = r.head
    <2>1. c.size \in Nat \ {0} /\ c.head \in 0 .. c.size - 1 /\ 0 \in 0 .. c.size /\ 1 \in 0 .. c.size
      BY <1>1, <1>2, <1>3
    <2>2. /\ c.head + 0 < c.size => place(c, 0) = c.head + 0
          /\ c.head + 1 < c.size => place(c, 1) = c.head + 1
          /\ c.head + 1 >= c.size => place(c, 1) = c.head + 1 - c.size
      BY <2>1, PlaceIs, Zenon
    <2>3. QED
      BY <1>1, <1>2, <1>3, <2>2
  <1>6. ASSUME NEW i \in 0 .. r.size - 1
        PROVE  place(r, i) = place(c, i + 1)
    BY <1>1, <1>2, <1>3, <1>5, Shifted
  <1>7. c.tail = place(c, c.count)
    BY <1>1, <1>2, <1>6, Zenon
  <1>8. ASSUME NEW i \in 0 .. r.count - 1
        PROVE  c.array[place(c, i + 1)] = r.array[place(r, i)]
    <2>1. i \in 0 .. r.size - 1 /\ i \in 0 .. r.size /\ i + 1 \in 0 .. r.size - 1 /\ 0 # i + 1
          /\ 0 \in 0 .. r.size - 1
      BY <1>1
    <2>2. place(c, i + 1) # c.head
      <3>1. c.size \in Nat \ {0} /\ c.head \in 0 .. c.size - 1
            /\ 0 \in 0 .. c.size - 1 /\ i + 1 \in 0 .. c.size - 1
        BY <1>1, <1>2, <1>3, <2>1, Zenon
      <3>2. QED
        BY <1>5, <2>1, <3>1, PlacesDistinct, Zenon
    <2>3. place(r, i) \in 0 .. r.size - 1
      BY <1>1, <2>1, PlaceIs, Zenon
    <2>4. place(r, i) = place(c, i + 1)
      BY <1>6, <2>1, Zenon
    <2>5. QED
      BY <1>1, <1>2, <2>2, <2>3, <2>4
  <1>9. c.array[place(c, 0)] = x
    BY <1>1, <1>2, <1>3, <1>5
  <1>10. WellFormed(c)
    <2>1. \A i \in 0 .. c.count - 1 : c.array[place(c, i)] \in Item
      <3>1. ASSUME NEW i \in 0 .. c.count - 1
            PROVE  i = 0 \/ (i - 1 \in 0 .. r.count - 1 /\ (i - 1) + 1 = i)
        BY <1>1, <1>2
      <3>2. QED
        BY <1>1, <1>8, <1>9, <3>1, SMTT(20)
    <2>2. QED
      BY <1>1, <1>2, <1>4, <1>7, <2>1, Zenon DEF WellFormed
  <1>11. contents(c) = <<x>> \o contents(r)
    <2>1. /\ contents(r) \in Seq(Item) /\ Len(contents(r)) = r.count
          /\ \A i \in 1 .. r.count : contents(r)[i] = r.array[place(r, i - 1)]
      BY ContentsAre
    <2>2. PICK s : s = <<x>> \o contents(r)
      BY Zenon
    <2>3. /\ s \in Seq(Item) /\ Len(s) = c.count
          /\ s[1] = x
          /\ \A i \in 1 .. r.count : s[i + 1] = contents(r)[i]
      BY <1>1, <1>2, <2>1, <2>2
    <2>4. ASSUME NEW i \in 1 .. c.count
          PROVE  c.array[place(c, i - 1)] = s[i]
      <3>1. CASE i = 1
        BY <1>9, <2>3, <3>1
      <3>2. CASE i # 1
        <4>1. /\ i - 1 \in 1 .. r.count /\ (i - 1) + 1 = i
              /\ (i - 1) - 1 \in 0 .. r.count - 1 /\ ((i - 1) - 1) + 1 = i - 1
          BY <1>1, <1>2, <3>2
        <4>2. s[i] = r.array[place(r, (i - 1) - 1)]
          BY <2>1, <2>3, <4>1, Zenon
        <4>3. c.array[place(c, i - 1)] = r.array[place(r, (i - 1) - 1)]
          BY <1>8, <4>1
        <4>4. QED
          BY <4>2, <4>3
      <3>3. QED
        BY <3>1, <3>2, Zenon
    <2>5. QED
      BY <1>10, <2>2, <2>3, <2>4, SameContents, Zenon
  <1>12. QED
    BY <1>2, <1>10, <1>11 DEF c

\* carray_push_front adds to the sequence in front, also when the array is empty and
\* the item goes to the back.
LEMMA PushedFront ==
  ASSUME NEW c, WellFormed(c), NEW x \in Item
  PROVE  LET d == carray_push_front(c, x)
         IN /\ WellFormed(d)
            /\ contents(d) = <<x>> \o contents(c)
            /\ d.size = with_room(c).size
  <1>1. PICK r : r = with_room(c)
    OBVIOUS
  <1>2. WellFormed(r) /\ contents(r) = contents(c) /\ r.count < r.size
    BY <1>1, RoomMade, Zenon
  <1>3. PICK d : d = carray_push_front(c, x)
    OBVIOUS
  <1>4. CASE carray_empty(r)
    <2>1. d = carray_push_back(r, x)
      BY <1>1, <1>3, <1>4, Zenon DEF carray_push_front
    <2>2. with_room(r) = r
      BY <1>2 DEF with_room, carray_full, WellFormed
    <2>3. WellFormed(d) /\ contents(d) = Append(contents(r), x) /\ d.size = r.size
      <3>1. LET e == carray_push_back(r, x)
            IN /\ WellFormed(e) /\ contents(e) = Append(contents(r), x)
               /\ e.size = with_room(r).size
        BY <1>2, PushedBack, Zenon
      <3>2. QED
        BY <2>1, <2>2, <3>1, Zenon
    <2>4. Append(contents(r), x) = <<x>> \o contents(r)
      <3>1. contents(r) = <<>>
        <4>1. contents(r) \in Seq(Item) /\ Len(contents(r)) = 0
          BY <1>2, <1>4, ContentsAre, Zenon DEF carray_empty
        <4>2. QED
          BY <4>1
      <3>2. QED
        BY <3>1
    <2>5. QED
      BY <1>1, <1>2, <1>3, <2>3, <2>4, Zenon
  <1>5. CASE ~ carray_empty(r)
    <2>1. d = prepended(r, x)
      BY <1>1, <1>3, <1>5, Zenon DEF carray_push_front, prepended
    <2>2. LET e == prepended(r, x)
          IN WellFormed(e) /\ contents(e) = <<x>> \o contents(r) /\ e.size = r.size
      BY <1>2, PrependedIs, Zenon
    <2>3. QED
      BY <1>1, <1>2, <1>3, <2>1, <2>2, Zenon
  <1>6. QED
    BY <1>4, <1>5, Zenon

\* carray_pop_front drops the first item of the sequence.
LEMMA PoppedFront ==
  ASSUME NEW r, WellFormed(r), ~ carray_empty(r)
  PROVE  LET c == carray_pop_front(r)
         IN /\ WellFormed(c)
            /\ contents(c) = Tail(contents(r))
            /\ c.size = r.size
  <1> DEFINE c == carray_pop_front(r)
  <1>1. /\ r.size \in Nat \ {0} /\ r.count \in 1 .. r.size
        /\ r.head \in 0 .. r.size - 1
        /\ r.tail = place(r, r.count)
        /\ \A i \in 0 .. r.count - 1 : r.array[place(r, i)] \in Item
    BY DEF WellFormed, carray_empty
  <1>2. /\ c.head = (r.head + 1) % r.size /\ c.size = r.size /\ c.count = r.count - 1
        /\ c.tail = r.tail /\ c.array = r.array
    BY DEF WellFormed, carray_pop_front
  <1>3. c.head = place(r, 1) /\ c.head \in 0 .. r.size - 1
    <2>1. 1 \in 0 .. r.size
      BY <1>1
    <2>2. place(r, 1) \in 0 .. r.size - 1
      BY <1>1, <2>1, PlaceIs, Zenon
    <2>3. QED
      BY <1>2, <2>2, Zenon DEF place
  <1>4. c \in [head  : 0 .. c.size - 1, tail : 0 .. c.size - 1, size : {c.size}, count : 0 .. c.size,
               array : [0 .. c.size - 1 -> Item \cup {Garbage}]]
    <2>1. r \in [head  : 0 .. r.size - 1, tail : 0 .. r.size - 1, size : {r.size},
                 count : 0 .. r.size, array : [0 .. r.size - 1 -> Item \cup {Garbage}]]
      BY DEF WellFormed
    <2>2. r.count - 1 \in 0 .. r.size /\ (r.head + 1) % r.size \in 0 .. r.size - 1
      BY <1>1, <1>2, <1>3
    <2>3. QED
      BY <1>2, <2>1, <2>2, Zenon DEF carray_pop_front
  <1> HIDE DEF c
  <1>5. ASSUME NEW i \in 0 .. r.size - 1
        PROVE  place(c, i) = place(r, i + 1)
    BY <1>1, <1>2, <1>3, Shifted, Zenon
  <1>6. c.tail = place(c, c.count)
    <2>1. c.count \in 0 .. r.size - 1 /\ c.count + 1 = r.count
      BY <1>1, <1>2
    <2>2. QED
      BY <1>1, <1>2, <1>5, <2>1, Zenon
  <1>7. \A i \in 0 .. c.count - 1 : i \in 0 .. r.size - 1 /\ i + 1 \in 0 .. r.count - 1
    BY <1>1, <1>2
  <1>8. WellFormed(c)
    <2>1. \A i \in 0 .. c.count - 1 : c.array[place(c, i)] \in Item
      BY <1>1, <1>2, <1>5, <1>7, Zenon
    <2>2. QED
      BY <1>1, <1>2, <1>4, <1>6, <2>1, Zenon DEF WellFormed
  <1>9. contents(c) = Tail(contents(r))
    <2>1. /\ contents(r) \in Seq(Item) /\ Len(contents(r)) = r.count
          /\ \A i \in 1 .. r.count : contents(r)[i] = r.array[place(r, i - 1)]
      BY ContentsAre
    <2>2. PICK s : s = Tail(contents(r))
      BY Zenon
    <2>3. /\ s \in Seq(Item) /\ Len(s) = c.count
          /\ \A i \in 1 .. c.count : s[i] = contents(r)[i + 1]
      BY <1>1, <1>2, <2>1, <2>2
    <2>4. ASSUME NEW i \in 1 .. c.count
          PROVE  c.array[place(c, i - 1)] = s[i]
      <3>1. /\ i - 1 \in 0 .. r.size - 1 /\ i + 1 \in 1 .. r.count
            /\ (i - 1) + 1 = (i + 1) - 1
        BY <1>1, <1>2
      <3>2. c.array[place(c, i - 1)] = r.array[place(r, (i - 1) + 1)]
        BY <1>2, <1>5, <3>1, Zenon
      <3>3. s[i] = r.array[place(r, (i + 1) - 1)]
        BY <2>1, <2>3, <3>1, Zenon
      <3>4. QED
        BY <3>1, <3>2, <3>3, Zenon
    <2>5. QED
      BY <1>8, <2>2, <2>3, <2>4, SameContents, Zenon
  <1>10. QED
    BY <1>2, <1>8, <1>9 DEF c

\* carray_front returns the first item of the sequence.
LEMMA FrontIs ==
  ASSUME NEW r, WellFormed(r)
  PROVE  /\ carray_empty(r) => carray_front(r) = Null /\ contents(r) = <<>>
         /\ ~ carray_empty(r) => /\ carray_front(r) = Head(contents(r))
                                 /\ carray_front(r) \in Item
                                 /\ contents(r) # <<>>
  <1>1. /\ r.size \in Nat \ {0} /\ r.count \in 0 .. r.size /\ r.head \in 0 .. r.size - 1
        /\ \A i \in 0 .. r.count - 1 : r.array[place(r, i)] \in Item
    BY DEF WellFormed
  <1>2. /\ contents(r) \in Seq(Item) /\ Len(contents(r)) = r.count
        /\ \A i \in 1 .. r.count : contents(r)[i] = r.array[place(r, i - 1)]
    BY ContentsAre
  <1>3. CASE carray_empty(r)
    BY <1>2, <1>3 DEF carray_empty, carray_front
  <1>4. CASE ~ carray_empty(r)
    <2>1. 1 \in 1 .. r.count /\ 0 \in 0 .. r.count - 1 /\ 1 - 1 = 0 /\ 0 \in 0 .. r.size
      BY <1>1, <1>4 DEF carray_empty
    <2>2. place(r, 0) = r.head
      BY <1>1, <2>1, PlaceIs
    <2>3. carray_front(r) = r.array[place(r, 0)]
      BY <1>4, <2>2, Zenon DEF carray_front
    <2>4. contents(r)[1] = r.array[place(r, 0)]
      BY <1>2, <2>1
    <2>5. contents(r) # <<>> /\ Head(contents(r)) = contents(r)[1]
      BY <1>2, <2>1
    <2>6. QED
      BY <1>1, <1>4, <2>1, <2>3, <2>4, <2>5, Zenon
  <1>5. QED
    BY <1>3, <1>4, Zenon

\* carray_first_match returns the first item of the sequence that matches.
LEMMA FirstMatchIs ==
  ASSUME NEW c, WellFormed(c), NEW S
  PROVE  LET found == {k \in 1 .. Len(contents(c)) : contents(c)[k] \in S}
             p == carray_first_match(c, S)
         IN /\ \/ found = {} /\ p = Null
               \/ \E k \in found : (\A l \in found : k <= l) /\ p = contents(c)[k]
            /\ p \in Item \cup {Null}
  <1> DEFINE found == {k \in 1 .. Len(contents(c)) : contents(c)[k] \in S}
             places == {i \in 0 .. c.count - 1 : carray_at(c, i) \in S}
             p == carray_first_match(c, S)
  <1>1. c.count \in Nat
    BY DEF WellFormed
  <1>2. contents(c) \in Seq(Item) /\ Len(contents(c)) = c.count
    BY ContentsAre, Zenon
  <1>3. \A k \in 1 .. c.count : contents(c)[k] = carray_at(c, k - 1)
    BY DEF contents
  <1>4. ASSUME NEW k \in found
        PROVE  k \in 1 .. c.count /\ k - 1 \in places
    BY <1>1, <1>2, <1>3
  <1>5. ASSUME NEW i \in places
        PROVE  i + 1 \in found /\ contents(c)[i + 1] = carray_at(c, i) /\ i \in Nat
    <2>1. i + 1 \in 1 .. c.count /\ (i + 1) - 1 = i /\ i \in Nat
      BY <1>1
    <2>2. QED
      BY <1>2, <1>3, <2>1
  <1>6. CASE places = {}
    <2>1. found = {}
      BY <1>4, <1>6, Zenon
    <2>2. p = Null
      BY <1>6, Zenon DEF carray_first_match
    <2>3. QED
      BY <2>1, <2>2, Zenon
  <1>7. CASE places # {}
    <2>1. \E i \in places : \A j \in places : i <= j
      <3>1. places \in SUBSET Nat
        BY <1>5, Zenon
      <3> HIDE DEF places
      <3>2. QED
        BY <1>7, <3>1, SmallestExists, Zenon
    <2>2. PICK i : i = CHOOSE k \in places : \A j \in places : k <= j
      OBVIOUS
    <2>3. i \in places /\ \A j \in places : i <= j
      BY <2>1, <2>2, Zenon
    <2>4. p = carray_at(c, i)
      BY <1>7, <2>2, Zenon DEF carray_first_match
    <2>5. i + 1 \in found /\ p = contents(c)[i + 1]
      BY <1>5, <2>3, <2>4, Zenon
    <2>6. ASSUME NEW l \in found
          PROVE  i + 1 <= l
      <3>1. l \in 1 .. c.count /\ i <= l - 1 /\ i \in Nat
        BY <1>4, <1>5, <2>3, Zenon
      <3>2. QED
        BY <1>1, <3>1
    <2>7. p \in Item
      <3>1. i + 1 \in 1 .. Len(contents(c))
        BY <2>5, Zenon
      <3>2. contents(c)[i + 1] \in Item
        BY <1>2, <3>1
      <3>3. QED
        BY <2>5, <3>2, Zenon
    <2>8. QED
      BY <2>5, <2>6, <2>7, Zenon
  <1>8. QED
    BY <1>6, <1>7, Zenon

\* carray_reject leaves the items that differ from x, in their order.
LEMMA RejectedIs ==
  ASSUME NEW c, WellFormed(c), NEW x
  PROVE  LET d == carray_reject(c, x)
         IN /\ WellFormed(d)
            /\ contents(d) = sublist(contents(c),
                               {k \in 1 .. Len(contents(c)) : contents(c)[k] # x})
            /\ d.size = c.size
  <1>1. c.size \in Nat \ {0} /\ c.count <= c.size
    BY DEF WellFormed
  <1>2. PICK s \in Seq(Item) : s = contents(c) /\ Len(s) = c.count
    BY ContentsAre
  <1>3. PICK K \in SUBSET (1 .. Len(s)) : K = {k \in 1 .. Len(s) : s[k] # x}
    BY Zenon
  <1>4. PICK t : t = sublist(s, K)
    OBVIOUS
  <1>5. t \in Seq(Item) /\ Len(t) <= Len(s)
    BY <1>4, SublistType, Zenon
  <1>6. Len(t) <= c.size
    <2>1. Len(t) \in Nat /\ c.count \in Nat
      BY <1>2, <1>5
    <2>2. QED
      BY <1>1, <1>2, <1>5, <2>1
  <1>7. carray_reject(c, x) = carray_of(c.size, t)
    BY <1>2, <1>3, <1>4, Zenon DEF carray_reject
  <1>8. LET f == carray_of(c.size, t)
        IN WellFormed(f) /\ contents(f) = t /\ f.size = c.size /\ f.count = Len(t)
    BY <1>1, <1>5, <1>6, FilledArray, Zenon
  <1>9. QED
    BY <1>2, <1>3, <1>4, <1>7, <1>8, Zenon
-----------------------------------------------------------------------------
(* The array implements the sequence *)

\* The initial array is empty.
LEMMA EmptyAtFirst ==
  ASSUME CarrayInit
  PROVE  CarrayInv /\ AsDeque!Init
  <1>1. InitialSize \in Nat \ {0} /\ InitialSize <= MaxSize
    BY CarrayAssumption
  <1>2. PICK s \in Seq(Item) : s = <<>> /\ Len(s) <= InitialSize
    <2>1. <<>> \in Seq(Item) /\ Len(<<>>) = 0
      OBVIOUS
    <2>2. Len(<<>>) <= InitialSize
      BY <1>1, <2>1
    <2>3. QED
      BY <2>1, <2>2, Zenon
  <1>3. LET c == carray_of(InitialSize, s)
        IN WellFormed(c) /\ contents(c) = s /\ c.size = InitialSize /\ c.count = Len(s)
    BY <1>1, <1>2, FilledArray, Zenon
  <1>4. arr = carray_of(InitialSize, s) /\ result = Null
    BY <1>2 DEF CarrayInit
  <1>5. QED
    BY <1>1, <1>2, <1>3, <1>4, Zenon DEF CarrayInv, AsDeque!Init

\* The bound on the growth.
LEMMA SizeBounded ==
  ASSUME CarrayInv, MayPush
  PROVE  with_room(arr).size <= MaxSize
  <1>1. WellFormed(arr) /\ arr.size <= MaxSize
    BY DEF CarrayInv
  <1>2. CASE carray_full(arr)
    BY <1>1, <1>2, RoomMade, Zenon DEF MayPush
  <1>3. CASE ~ carray_full(arr)
    BY <1>1, <1>3, RoomMade, Zenon
  <1>4. QED
    BY <1>2, <1>3, Zenon

\* Every operation keeps the invariant, and is the operation of the same name on the
\* sequence.
LEMMA OperationIs ==
  ASSUME CarrayInv, CarrayNext
  PROVE  CarrayInv' /\ AsDeque!Next
  <1>1. WellFormed(arr) /\ arr.size <= MaxSize
    BY DEF CarrayInv
  <1>2. ASSUME NEW x \in Item, PushBack(x)
        PROVE  CarrayInv' /\ AsDeque!PushBack(x)
    <2>1. /\ WellFormed(arr') /\ contents(arr') = Append(contents(arr), x)
          /\ arr'.size = with_room(arr).size
      BY <1>1, <1>2, PushedBack, Zenon DEF PushBack
    <2>2. with_room(arr).size <= MaxSize /\ result' = Null
      BY <1>2, SizeBounded, Zenon DEF PushBack
    <2>3. QED
      BY <2>1, <2>2, Zenon DEF CarrayInv, AsDeque!PushBack
  <1>3. ASSUME NEW x \in Item, PushFront(x)
        PROVE  CarrayInv' /\ AsDeque!PushFront(x)
    <2>1. /\ WellFormed(arr') /\ contents(arr') = <<x>> \o contents(arr)
          /\ arr'.size = with_room(arr).size
      BY <1>1, <1>3, PushedFront, Zenon DEF PushFront
    <2>2. with_room(arr).size <= MaxSize /\ result' = Null
      BY <1>3, SizeBounded, Zenon DEF PushFront
    <2>3. QED
      BY <2>1, <2>2, Zenon DEF CarrayInv, AsDeque!PushFront
  <1>4. ASSUME NEW x \in Item, Remove(x)
        PROVE  CarrayInv' /\ AsDeque!Remove(x)
    <2>1. /\ WellFormed(arr') /\ arr'.size = arr.size
          /\ contents(arr') = sublist(contents(arr),
                                {k \in 1 .. Len(contents(arr)) : contents(arr)[k] # x})
      BY <1>1, <1>4, RejectedIs, ZenonT(30) DEF Remove
    <2>2. result' = Null
      BY <1>4 DEF Remove
    <2>3. \A s, K : AsDeque!sublist(s, K) = sublist(s, K)
      BY ZenonT(30) DEF AsDeque!sublist, sublist, AsDeque!nth, nth, AsDeque!rank, rank,
                   AsDeque!Cardinality, Cardinality
    <2>4. QED
      BY <1>1, <2>1, <2>2, <2>3, Zenon DEF CarrayInv, AsDeque!Remove
  <1>5. ASSUME PopFront
        PROVE  CarrayInv' /\ AsDeque!PopFront
    <2>1. arr' = carray_pop_front(arr) /\ result' = carray_front(arr)
      BY <1>5, Zenon DEF PopFront
    <2>2. CASE carray_empty(arr)
      <3>1. arr' = arr
        BY <2>1, <2>2, Zenon DEF carray_pop_front
      <3>2. result' = Null /\ contents(arr) = <<>>
        BY <1>1, <2>1, <2>2, FrontIs, Zenon
      <3>3. QED
        BY <1>1, <3>1, <3>2, Zenon DEF CarrayInv, AsDeque!PopFront
    <2>3. CASE ~ carray_empty(arr)
      <3>1. /\ WellFormed(arr') /\ contents(arr') = Tail(contents(arr))
            /\ arr'.size = arr.size
        BY <1>1, <2>1, <2>3, PoppedFront, Zenon
      <3>2. result' = Head(contents(arr)) /\ result' \in Item /\ contents(arr) # <<>>
        BY <1>1, <2>1, <2>3, FrontIs, Zenon
      <3>3. QED
        BY <1>1, <3>1, <3>2, Zenon DEF CarrayInv, AsDeque!PopFront
    <2>4. QED
      BY <2>2, <2>3, Zenon
  <1>6. ASSUME Front
        PROVE  CarrayInv' /\ AsDeque!Front
    <2>1. arr' = arr /\ result' = carray_front(arr)
      BY <1>6, Zenon DEF Front
    <2>2. CASE carray_empty(arr)
      <3>1. result' = Null /\ contents(arr) = <<>>
        BY <1>1, <2>1, <2>2, FrontIs, Zenon
      <3>2. QED
        BY <1>1, <2>1, <3>1, Zenon DEF CarrayInv, AsDeque!Front, AsDeque!FirstOf
    <2>3. CASE ~ carray_empty(arr)
      <3>1. result' = Head(contents(arr)) /\ result' \in Item /\ contents(arr) # <<>>
        BY <1>1, <2>1, <2>3, FrontIs, Zenon
      <3>2. QED
        BY <1>1, <2>1, <3>1, Zenon DEF CarrayInv, AsDeque!Front, AsDeque!FirstOf
    <2>4. QED
      BY <2>2, <2>3, Zenon
  <1>7. ASSUME NEW S \in SUBSET Item, FirstMatch(S)
        PROVE  CarrayInv' /\ AsDeque!FirstMatch(S)
    <2>1. arr' = arr /\ result' = carray_first_match(arr, S)
      BY <1>7, Zenon DEF FirstMatch
    <2>2. LET found == {k \in 1 .. Len(contents(arr)) : contents(arr)[k] \in S}
          IN \/ found = {} /\ result' = Null
             \/ \E k \in found : (\A l \in found : k <= l) /\ result' = contents(arr)[k]
      BY <1>1, <2>1, FirstMatchIs, Zenon
    <2>3. result' \in Item \cup {Null}
      BY <1>1, <2>1, FirstMatchIs, Zenon
    <2>4. QED
      BY <1>1, <2>1, <2>2, <2>3, Zenon DEF CarrayInv, AsDeque!FirstMatch
  <1>8. QED
    BY <1>2, <1>3, <1>4, <1>5, <1>6, <1>7, Zenon DEF CarrayNext, AsDeque!Next

\* The array keeps its shape through wrap-around and growth.
THEOREM CarrayInvariance == CarraySpec => []CarrayInv
  <1>1. CarrayInit => CarrayInv
    BY EmptyAtFirst
  <1>2. CarrayInv /\ [CarrayNext]_carrayVars => CarrayInv'
    <2>1. CASE CarrayNext
      BY <2>1, OperationIs
    <2>2. CASE UNCHANGED carrayVars
      BY <2>2 DEF carrayVars, CarrayInv
    <2>3. QED
      BY <2>1, <2>2
  <1>3. QED
    BY <1>1, <1>2, PTL DEF CarraySpec

\* Indices and counts stay within the array, and only items and NULL are returned.
THEOREM CarrayTypes == CarraySpec => []CarrayTypeOK
  <1>1. CarrayInv => CarrayTypeOK
    BY CarrayAssumption DEF CarrayInv, WellFormed, CarrayTypeOK
  <1>2. QED
    BY <1>1, CarrayInvariance, PTL

\* To its users a carray is a sequence: whatever the initial size and the order of
\* the operations, no item is lost, repeated, reordered or read from a slot that
\* holds none, when the array wraps around and when it grows.
THEOREM CarrayImplementsDeque == CarraySpec => ImplementsDeque
  <1>1. CarrayInit => AsDeque!Init
    BY EmptyAtFirst
  <1>2. CarrayInv /\ [CarrayNext]_carrayVars => [AsDeque!Next]_<<contents(arr), result>>
    <2>1. CASE CarrayNext
      BY <2>1, OperationIs
    <2>2. CASE UNCHANGED carrayVars
      BY <2>2 DEF carrayVars
    <2>3. QED
      BY <2>1, <2>2
  <1>3. QED
    BY <1>1, <1>2, CarrayInvariance, PTL DEF CarraySpec, ImplementsDeque, AsDeque!Spec
=============================================================================
