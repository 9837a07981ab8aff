---------------------------- MODULE IntrusiveList ----------------------------
(***************************************************************************)
(* The doubly linked lists of src/utils/list.cpp as operators on the links *)
(* of the memory: h.next and h.previous map every node, that is every item *)
(* and every List::head, to a node or to NULL.  An item has one pair of    *)
(* links, whatever lists it is on: a PCB is put on readyPrograms and on    *)
(* the waiting list of a semaphore by the same tagInGeneralList.           *)
(*                                                                         *)
(* The statements of an operation are the EXCEPTs, in their order.         *)
(***************************************************************************)
EXTENDS Integers, FiniteSets, Sequences

CONSTANTS Items, Lists, NULL

Nodes == Items \cup Lists

\* List::initialize
EmptyLinks ==
  [next |-> [n \in Nodes |-> NULL], previous |-> [n \in Nodes |-> NULL]]

\* The node i items behind head.next, NULL once the list has ended.
Nth(h, L) ==
  LET nth[i \in 0 .. Cardinality(Items)] ==
        IF i = 0 THEN h.next[L]
        ELSE IF nth[i - 1] = NULL THEN NULL ELSE h.next[nth[i - 1]]
  IN  nth

\* The loops of size(), back() and erase() come to an end.
Terminates(h, L) == Nth(h, L)[Cardinality(Items)] = NULL

\* The items a loop from head.next to NULL visits.
Contents(h, L) ==
  LET nth == Nth(h, L)
  IN  [i \in 1 .. Cardinality({j \in DOMAIN nth : nth[j] # NULL}) |-> nth[i - 1]]

Size(h, L) == Len(Contents(h, L))

Front(h, L) == h.next[L]

Back(h, L) == IF Front(h, L) = NULL THEN NULL ELSE Contents(h, L)[Size(h, L)]

At(h, L, pos) == IF pos < Size(h, L) THEN Contents(h, L)[pos + 1] ELSE NULL

Find(h, L, x) ==
  IF \E i \in DOMAIN Contents(h, L) : Contents(h, L)[i] = x
  THEN (CHOOSE i \in DOMAIN Contents(h, L) :
          Contents(h, L)[i] = x /\ \A j \in 1 .. (i - 1) : Contents(h, L)[j] # x) - 1
  ELSE -1

-----------------------------------------------------------------------------
\* Mutant of PushBack: next of the new item keeps what it was.
PushBackKeepsNext(h, L, x) ==
  LET temp == IF Back(h, L) = NULL THEN L ELSE Back(h, L)
  IN  [next |-> [h.next EXCEPT ![temp] = x],
       previous |-> [h.previous EXCEPT ![x] = temp]]

PushBack(h, L, x) ==
  LET temp == IF Back(h, L) = NULL THEN L ELSE Back(h, L)
  IN  [next |-> [h.next EXCEPT ![temp] = x, ![x] = NULL],
       previous |-> [h.previous EXCEPT ![x] = temp]]

PopBack(h, L) ==
  LET temp == Back(h, L)
  IN  IF temp = NULL THEN h
      ELSE [next |-> [h.next EXCEPT ![h.previous[temp]] = NULL, ![temp] = NULL],
            previous |-> [h.previous EXCEPT ![temp] = NULL]]

PushFront(h, L, x) ==
  LET temp == h.next[L]
  IN  [next |-> [h.next EXCEPT ![L] = x, ![x] = temp],
       previous |-> [n \in Nodes |-> CASE n = x -> L
                                       [] n = temp /\ n # x -> x
                                       [] OTHER -> h.previous[n]]]

\* Mutant of PopFront: the new first item still points back at the old one.
PopFrontKeepsPrevious(h, L) ==
  LET temp == h.next[L]
  IN  IF temp = NULL THEN h
      ELSE [next |-> [h.next EXCEPT ![L] = h.next[temp], ![temp] = NULL],
            previous |-> [h.previous EXCEPT ![temp] = NULL]]

PopFront(h, L) ==
  LET temp == h.next[L]
  IN  IF temp = NULL THEN h
      ELSE [next |-> [h.next EXCEPT ![L] = h.next[temp], ![temp] = NULL],
            previous |-> [n \in Nodes |-> CASE n = temp -> NULL
                                            [] n = h.next[temp] /\ n # temp -> L
                                            [] OTHER -> h.previous[n]]]

\* Mutant of Insert: behind the end of the list, too, the item is appended.
InsertAtEnd(h, L, pos, x) ==
  LET temp == At(h, L, pos)
  IN  CASE pos = 0 -> PushFront(h, L, x)
        [] pos >= Size(h, L) /\ pos > 0 -> PushBack(h, L, x)
        [] pos > 0 /\ pos < Size(h, L) ->
             [next |-> [h.next EXCEPT ![x] = temp, ![h.previous[temp]] = x],
              previous |-> [h.previous EXCEPT ![x] = h.previous[temp], ![temp] = x]]
        [] OTHER -> h

\* insert: nothing happens behind the end of the list.
Insert(h, L, pos, x) ==
  LET temp == At(h, L, pos)
  IN  CASE pos = 0 -> PushFront(h, L, x)
        [] pos > 0 /\ pos = Size(h, L) -> PushBack(h, L, x)
        [] pos > 0 /\ pos < Size(h, L) ->
             [next |-> [h.next EXCEPT ![x] = temp, ![h.previous[temp]] = x],
              previous |-> [h.previous EXCEPT ![x] = h.previous[temp], ![temp] = x]]
        [] OTHER -> h

\* The end of both erase: temp is unlinked and keeps its own links.
Unlink(h, temp) ==
  [next |-> [h.next EXCEPT ![h.previous[temp]] = h.next[temp]],
   previous |-> [n \in Nodes |-> IF n = h.next[temp] THEN h.previous[temp]
                                                     ELSE h.previous[n]]]

ErasePos(h, L, pos) ==
  CASE pos = 0 -> PopFront(h, L)
    [] pos > 0 /\ pos < Size(h, L) -> Unlink(h, At(h, L, pos))
    [] OTHER -> h

\* erase of an item: the list is searched for it.
EraseItem(h, L, x) == IF Find(h, L, x) = -1 THEN h ELSE Unlink(h, x)
=============================================================================
