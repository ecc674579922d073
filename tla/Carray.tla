------------------------------- MODULE Carray -------------------------------
(***************************************************************************)
(* The circular array of src/paxos/carray.c, which holds the proposer's    *)
(* value queue and instance lists, the learner's window and the            *)
(* connections of a tcp_receiver.  It grows when it is full.               *)
(***************************************************************************)
EXTENDS Sublists

CONSTANTS
  Item,         \* what the users store
  Null,         \* what an operation on an empty array returns
  Garbage,      \* the content of a slot that was never written
  InitialSize,  \* the argument of carray_new
  MaxSize       \* bound: the array does not grow beyond this size

ASSUME CarrayAssumption ==
  /\ MaxSize \in Nat
  /\ InitialSize \in 1 .. MaxSize
  /\ Null \notin Item
  /\ Garbage \notin Item

VARIABLES
  arr,     \* the struct
  result   \* what the last operation returned

carrayVars == <<arr, result>>

carray_full(c)  == c.count = c.size
carray_empty(c) == c.count = 0

carray_at(c, i) == IF carray_empty(c) THEN Null ELSE c.array[(c.head + i) % c.size]

contents(c) == [i \in 1 .. c.count |-> carray_at(c, i - 1)]

\* carray_new(n), then carray_push_back of the items of s, which fit.
carray_of(n, s) ==
  [head  |-> 0,
   tail  |-> Len(s) % n,
   size  |-> n,
   count |-> Len(s),
   array |-> [i \in 0 .. n - 1 |-> IF i < Len(s) THEN s[i + 1] ELSE Garbage]]

\* Mutant of carray_grow: the tail keeps its place.
carray_grow_KeepsTail(c) == [carray_of(c.size * 2, contents(c)) EXCEPT !.tail = c.tail]

\* The items move to an array of twice the size, in order, from slot 0.
carray_grow(c) == carray_of(c.size * 2, contents(c))

\* Room for one more item.
with_room(c) == IF carray_full(c) THEN carray_grow(c) ELSE c

carray_push_back(c, x) ==
  LET r == with_room(c)
  IN [r EXCEPT !.array[r.tail] = x, !.tail = (@ + 1) % r.size, !.count = @ + 1]

\* Mutant of the step to the slot before the head: no wrap-around.
before_head_NoWrap(c) == c.head - 1

before_head(c) == IF c.head - 1 >= 0 THEN c.head - 1 ELSE c.size - 1

carray_push_front(c, x) ==
  LET r == with_room(c)
      h == before_head(r)
  IN IF carray_empty(r)
       THEN carray_push_back(r, x)
       ELSE [r EXCEPT !.head = h, !.array[h] = x, !.count = @ + 1]

carray_front(c) == IF carray_empty(c) THEN Null ELSE c.array[c.head]

carray_pop_front(c) ==
  IF carray_empty(c) THEN c ELSE [c EXCEPT !.head = (@ + 1) % c.size, !.count = @ - 1]

\* The first item that matches, which is to say, lies in S.
carray_first_match(c, S) ==
  LET found == {i \in 0 .. c.count - 1 : carray_at(c, i) \in S}
  IN IF found = {} THEN Null ELSE carray_at(c, CHOOSE i \in found : \A j \in found : i <= j)

\* A new array of the same size with the items that do not match.
carray_reject(c, x) ==
  carray_of(c.size, sublist(contents(c), {i \in 1 .. c.count : contents(c)[i] # x}))
-----------------------------------------------------------------------------
CarrayInit ==
  /\ arr = carray_of(InitialSize, <<>>)
  /\ result = Null

\* The bound on the growth of the array.
MayPush == carray_full(arr) => arr.size * 2 <= MaxSize

PushBack(x) ==
  /\ MayPush
  /\ arr' = carray_push_back(arr, x)
  /\ result' = Null

PushFront(x) ==
  /\ MayPush
  /\ arr' = carray_push_front(arr, x)
  /\ result' = Null

PopFront ==
  /\ arr' = carray_pop_front(arr)
  /\ result' = carray_front(arr)

Front ==
  /\ result' = carray_front(arr)
  /\ UNCHANGED arr

FirstMatch(S) ==
  /\ result' = carray_first_match(arr, S)
  /\ UNCHANGED arr

\* instance_remove of the proposer.
Remove(x) ==
  /\ arr' = carray_reject(arr, x)
  /\ result' = Null

CarrayNext ==
  \/ PopFront
  \/ Front
  \/ \E S \in SUBSET Item : FirstMatch(S)
  \/ \E x \in Item : PushBack(x) \/ PushFront(x) \/ Remove(x)

CarraySpec == CarrayInit /\ [][CarrayNext]_carrayVars
-----------------------------------------------------------------------------
CarrayTypeOK ==
  /\ arr.size \in 1 .. MaxSize
  /\ arr.head \in 0 .. arr.size - 1
  /\ arr.tail \in 0 .. arr.size - 1
  /\ arr.count \in 0 .. arr.size
  /\ arr.array \in [0 .. arr.size - 1 -> Item \cup {Garbage}]
  /\ result \in Item \cup {Null}

\* The users of a carray see a sequence: no item is lost, repeated, reordered or
\* read from a slot that holds none, when the array wraps around and when it grows.
AsDeque == INSTANCE Deque WITH items <- contents(arr)
ImplementsDeque == AsDeque!Spec
=============================================================================
