------------------------------- MODULE ListSpec -------------------------------
(***************************************************************************)
(* What include/list.h promises: every list is a sequence of items, and    *)
(* an operation on one list leaves the others alone.  An item is on at     *)
(* most one list.                                                          *)
(***************************************************************************)
EXTENDS Integers, SequencesExt

CONSTANTS Items, Lists, NULL, MaxPos

VARIABLES
  content,   \* the sequence of the items of each list
  call       \* the last call
specVars == <<content, call>>

Free == {x \in Items : \A L \in Lists : x \notin ToSet(content[L])}

SpecInit == content = [L \in Lists |-> <<>>] /\ call = NULL

\* A call c that turns list L into the sequence s.
SpecCall(c, L, s) == call' = c /\ content' = [content EXCEPT ![L] = s]

SpecPushBack(L, x) ==
  x \in Free /\ SpecCall(<<"push_back", L, x>>, L, Append(content[L], x))

SpecPushFront(L, x) ==
  x \in Free /\ SpecCall(<<"push_front", L, x>>, L, <<x>> \o content[L])

SpecPopBack(L) ==
  SpecCall(<<"pop_back", L>>, L, IF content[L] = <<>> THEN <<>> ELSE Front(content[L]))

SpecPopFront(L) ==
  SpecCall(<<"pop_front", L>>, L, IF content[L] = <<>> THEN <<>> ELSE Tail(content[L]))

SpecInsert(L, pos, x) ==
  /\ x \in Free
  /\ SpecCall(<<"insert", L, pos, x>>, L,
              IF pos <= Len(content[L]) THEN InsertAt(content[L], pos + 1, x)
                                        ELSE content[L])

SpecErasePos(L, pos) ==
  SpecCall(<<"erase_at", L, pos>>, L,
           IF pos < Len(content[L]) THEN RemoveAt(content[L], pos + 1) ELSE content[L])

SpecEraseItem(L, x) ==
  SpecCall(<<"erase", L, x>>, L, RemoveFirst(content[L], x))

SpecNext ==
  \E L \in Lists :
    \/ SpecPopBack(L) \/ SpecPopFront(L)
    \/ \E pos \in 0 .. MaxPos : SpecErasePos(L, pos)
    \/ \E x \in Items :
         \/ SpecPushBack(L, x) \/ SpecPushFront(L, x) \/ SpecEraseItem(L, x)
         \/ \E pos \in 0 .. MaxPos : SpecInsert(L, pos, x)

ListsOfItems == SpecInit /\ [][SpecNext]_specVars
=============================================================================
