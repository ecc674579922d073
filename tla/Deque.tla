------------------------------- MODULE Deque -------------------------------
(***************************************************************************)
(* What a carray promises its users: a sequence of items, added at either  *)
(* end and taken from the front, without a limit on its length.            *)
(***************************************************************************)
EXTENDS Sublists

CONSTANTS Item, Null

VARIABLES
  items,   \* the sequence
  result   \* what the last operation returned

Init ==
  /\ items = <<>>
  /\ result = Null

PushBack(x) ==
  /\ items' = Append(items, x)
  /\ result' = Null

PushFront(x) ==
  /\ items' = <<x>> \o items
  /\ result' = Null

PopFront ==
  IF items = <<>>
    THEN items' = items /\ result' = Null
    ELSE items' = Tail(items) /\ result' = Head(items)

FirstOf(s) == IF s = <<>> THEN Null ELSE Head(s)

Front ==
  /\ result' = FirstOf(items)
  /\ UNCHANGED items

FirstMatch(S) ==
  LET found == {k \in 1 .. Len(items) : items[k] \in S}
  IN /\ \/ found = {} /\ result' = Null
        \/ \E k \in found : (\A l \in found : k <= l) /\ result' = items[k]
     /\ UNCHANGED items

Remove(x) ==
  /\ items' = sublist(items, {k \in 1 .. Len(items) : items[k] # x})
  /\ result' = Null

Next ==
  \/ PopFront
  \/ Front
  \/ \E S \in SUBSET Item : FirstMatch(S)
  \/ \E x \in Item : PushBack(x) \/ PushFront(x) \/ Remove(x)

Spec == Init /\ [][Next]_<<items, result>>
=============================================================================
