--------------------------------- MODULE List ---------------------------------
(***************************************************************************)
(* Lists of src/utils/list.cpp that share their items, as the scheduler    *)
(* and the semaphores use them: an item is linked only when it is on no    *)
(* list, and any operation may be called in any order.  erase leaves the   *)
(* links of the item it took out as they were, so a free item may point    *)
(* anywhere.                                                               *)
(***************************************************************************)
EXTENDS Integers, FiniteSets, Sequences

CONSTANTS Items, Lists, NULL,
          MaxPos   \* bound: positions passed to insert and erase

ASSUME ListAssumption ==
  /\ Items \cap Lists = {}
  /\ NULL \notin Items \cup Lists
  /\ IsFiniteSet(Items)
  /\ MaxPos \in Nat

VARIABLES
  links,   \* of the items and of the heads of the lists
  call     \* the last call: the operation, its list and its arguments
vars == <<links, call>>

L == INSTANCE IntrusiveList

content == [l \in Lists |-> L!Contents(links, l)]

OnLists(x) == {l \in Lists : \E i \in DOMAIN content[l] : content[l][i] = x}

Free == {x \in Items : OnLists(x) = {}}

Init == links = L!EmptyLinks /\ call = NULL

\* A call c that leaves the links h.
Call(c, h) == call' = c /\ links' = h

PushBack(l, x) == x \in Free /\ Call(<<"push_back", l, x>>, L!PushBack(links, l, x))
PushFront(l, x) == x \in Free /\ Call(<<"push_front", l, x>>, L!PushFront(links, l, x))
PopBack(l) == Call(<<"pop_back", l>>, L!PopBack(links, l))
PopFront(l) == Call(<<"pop_front", l>>, L!PopFront(links, l))
Insert(l, pos, x) ==
  x \in Free /\ Call(<<"insert", l, pos, x>>, L!Insert(links, l, pos, x))
ErasePos(l, pos) == Call(<<"erase_at", l, pos>>, L!ErasePos(links, l, pos))
EraseItem(l, x) == Call(<<"erase", l, x>>, L!EraseItem(links, l, x))

Next ==
  \E l \in Lists :
    \/ PopBack(l) \/ PopFront(l)
    \/ \E pos \in 0 .. MaxPos : ErasePos(l, pos)
    \/ \E x \in Items :
         \/ PushBack(l, x) \/ PushFront(l, x) \/ EraseItem(l, x)
         \/ \E pos \in 0 .. MaxPos : Insert(l, pos, x)

Spec == Init /\ [][Next]_vars

-----------------------------------------------------------------------------
\* The links read forwards and backwards are the same list, and it ends: each
\* item's previous is the node it follows, the first one's the head of its own
\* list (list.cpp:46-161).
Mirrored ==
  \A l \in Lists :
    /\ L!Terminates(links, l)
    /\ links.previous[l] = NULL
    /\ \A i \in DOMAIN content[l] :
         links.previous[content[l][i]] = IF i = 1 THEN l ELSE content[l][i - 1]

\* push_back of an item that is still on the list cuts off what followed it, and
\* changes no other list: what Scheduler!PushBack takes for granted
\* (list.cpp:46-54).
PushedTwice ==
  \A l \in Lists : \A i \in DOMAIN content[l] :
    LET h == L!PushBack(links, l, content[l][i])
    IN  /\ L!Contents(h, l) = SubSeq(content[l], 1, i)
        /\ \A m \in Lists \ {l} : L!Contents(h, m) = content[m]

\* The lists behave as sequences of items (list.h).
AbstractLists == INSTANCE ListSpec

ImplementsListSpec == AbstractLists!ListsOfItems
=============================================================================
