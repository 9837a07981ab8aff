------------------------------ MODULE ListProofs ------------------------------
(***************************************************************************)
(* Proofs about List.tla for every finite set of items and any lists: the  *)
(* lists that share their items' links never get into each other's way,    *)
(* and behave as the sequences of ListSpec.                                *)
(*                                                                         *)
(* The invariant says that the links are those of the sequences the loops  *)
(* of list.cpp read from them.  Each operation is one of two things, an    *)
(* item put behind a place of a list (Spliced) or the item at a place      *)
(* taken out (TakenOut), after which the links are those of the sequence   *)
(* the operation promises.                                                 *)
(***************************************************************************)
EXTENDS List, QueueTheorems

\* Links of the types of the model.
Typed(h) ==
  /\ h = [next |-> h.next, previous |-> h.previous]
  /\ h.next \in [L!Nodes -> Items \cup {NULL}]
  /\ h.previous \in [L!Nodes -> L!Nodes \cup {NULL}]

\* The lists c are what is linked from the heads, forwards and backwards.
ListsAre(h, c) ==
  /\ Typed(h)
  /\ c \in [Lists -> Seq(Items)]
  /\ \A l \in Lists : /\ IsInjective(c[l])
                      /\ Forwards(h.next, l, c[l], NULL)
                      /\ Backwards(h.previous, l, c[l], NULL)
                      /\ h.previous[l] = NULL
  /\ \A l, m \in Lists : l # m => ToSet(c[l]) \cap ToSet(c[m]) = {}

\* The inductive invariant.
IInv == ListsAre(links, content)

-----------------------------------------------------------------------------
\* IntrusiveList counts as this module does.
LEMMA SameCardinality == ASSUME NEW S PROVE L!Cardinality(S) = Cardinality(S)
  BY DEF L!Cardinality, Cardinality

\* The loops of list.cpp visit a list that is linked forwards, and end.
LEMMA Visited ==
  ASSUME NEW h, NEW l \in Lists, NEW s \in Seq(Items), IsInjective(s),
         Forwards(h.next, l, s, NULL)
  PROVE  L!Contents(h, l) = s /\ L!Terminates(h, l)
<1> DEFINE C == Cardinality(Items)
           next == h.next
           nth[i \in 0 .. C] ==
             IF i = 0 THEN next[l]
             ELSE IF nth[i - 1] = NULL THEN NULL ELSE next[nth[i - 1]]
<1>1. L!Nth(h, l) = nth
  BY SameCardinality, Zenon DEF L!Nth
<1>2. C \in Nat /\ Len(s) \in Nat /\ NULL \notin Items
      /\ \A i \in 1 .. Len(s) : s[i] \in Items /\ s[i] # NULL
  BY ListAssumption, FS_CardinalityType
<1> HIDE DEF C, next
<1>3. nth = [i \in 0 .. C |-> IF i = 0 THEN next[l]
                              ELSE IF nth[i - 1] = NULL THEN NULL ELSE next[nth[i - 1]]]
  <2> DEFINE g == [i \in 0 .. C |-> Place(s, l, NULL, i + 1)]
  <2>1. Forwards(next, l, s, NULL)
    BY DEF next
  <2>2. g = [i \in 0 .. C |-> IF i = 0 THEN next[l]
                              ELSE IF g[i - 1] = NULL THEN NULL ELSE next[g[i - 1]]]
    BY <1>2, <2>1, ListWalk
  <2> HIDE DEF g
  <2>3. QED
    BY <2>2, Zenon
<1> HIDE DEF nth
<1>4. /\ DOMAIN nth = 0 .. C /\ Len(s) <= C
      /\ \A i \in 0 .. C : nth[i] = Place(s, l, NULL, i + 1)
      /\ nth[C] = NULL
      /\ Cardinality({j \in DOMAIN nth : nth[j] # NULL}) = Len(s)
  <2>1. IsFiniteSet(Items) /\ Forwards(next, l, s, NULL)
    BY ListAssumption DEF next
  <2>2. Walk(nth, Cardinality(Items), next, l, NULL)
    BY <1>3 DEF C, Walk
  <2>3. Reads(nth, Cardinality(Items), s, l, NULL)
    BY <1>2, <2>1, <2>2, ListRead
  <2>4. DOMAIN nth = 0 .. C
    BY <1>3
  <2>5. QED
    BY <2>3, <2>4 DEF C, Reads
<1>5. L!Terminates(h, l)
  BY <1>1, <1>4, SameCardinality DEF L!Terminates, C
<1>6. L!Contents(h, l) = [i \in 1 .. Len(s) |-> nth[i - 1]]
  BY <1>1, <1>4, SameCardinality DEF L!Contents
<1>7. ASSUME NEW i \in 1 .. Len(s) PROVE nth[i - 1] = s[i]
  <2>1. i - 1 \in 0 .. C /\ (i - 1) + 1 = i
    BY <1>2, <1>4
  <2>2. QED
    BY <1>4, <2>1 DEF Place
<1>8. s = [i \in 1 .. Len(s) |-> s[i]]
  OBVIOUS
<1>9. QED
  BY <1>5, <1>6, <1>7, <1>8

\* So the contents of the links are what is linked.
LEMMA ContentsAre ==
  ASSUME NEW h, NEW c, ListsAre(h, c), NEW l \in Lists
  PROVE  L!Contents(h, l) = c[l] /\ L!Terminates(h, l)
<1>1. c[l] \in Seq(Items) /\ IsInjective(c[l]) /\ Forwards(h.next, l, c[l], NULL)
  BY DEF ListsAre
<1>2. QED
  BY <1>1, Visited

\* The nodes of the lists differ.
LEMMA NodesDiffer ==
  ASSUME NEW h, NEW c, ListsAre(h, c), NEW l \in Lists
  PROVE  /\ c[l] \in Seq(Items) /\ Len(c[l]) \in Nat /\ l \in L!Nodes /\ NULL \notin L!Nodes
         /\ Items \subseteq L!Nodes /\ l \notin Items
         /\ \A i \in 1 .. Len(c[l]) :
              /\ Place(c[l], l, NULL, i) = c[l][i]
              /\ c[l][i] \in Items /\ c[l][i] \in ToSet(c[l])
         /\ \A i \in 0 .. Len(c[l]) : Place(c[l], l, NULL, i) \in L!Nodes
         /\ Place(c[l], l, NULL, 0) = l /\ Place(c[l], l, NULL, Len(c[l]) + 1) = NULL
         /\ \A i, j \in 0 .. Len(c[l]) + 1 :
              Place(c[l], l, NULL, i) = Place(c[l], l, NULL, j) => i = j
         /\ \A m \in Lists : m # l =>
              \A i \in 0 .. Len(c[l]) : \A j \in 0 .. Len(c[m]) :
                Place(c[l], l, NULL, i) # Place(c[m], m, NULL, j)
<1>1. \A k \in Lists : /\ c[k] \in Seq(Items) /\ IsInjective(c[k])
                       /\ k \notin Items /\ NULL \notin Items /\ k # NULL
  BY ListAssumption DEF ListsAre
<1>2. \A k \in Lists :
        /\ Len(c[k]) \in Nat
        /\ \A i \in 1 .. Len(c[k]) : /\ Place(c[k], k, NULL, i) = c[k][i]
                                     /\ c[k][i] \in Items /\ c[k][i] \in ToSet(c[k])
        /\ Place(c[k], k, NULL, 0) = k /\ Place(c[k], k, NULL, Len(c[k]) + 1) = NULL
        /\ \A i, j \in 0 .. Len(c[k]) + 1 :
             Place(c[k], k, NULL, i) = Place(c[k], k, NULL, j) => i = j
  <2> TAKE k \in Lists
  <2>1. c[k] \in Seq(Items) /\ IsInjective(c[k]) /\ k \notin Items /\ NULL \notin Items /\ k # NULL
    BY <1>1
  <2>2. QED
    BY <2>1, PlacesDiffer
<1>3. l \in L!Nodes /\ NULL \notin L!Nodes /\ Items \subseteq L!Nodes
  BY ListAssumption DEF L!Nodes
<1>4. \A i \in 0 .. Len(c[l]) : Place(c[l], l, NULL, i) \in L!Nodes
  <2> TAKE i \in 0 .. Len(c[l])
  <2>1. i = 0 \/ i \in 1 .. Len(c[l])
    BY <1>2
  <2>2. QED
    BY <1>2, <1>3, <2>1
<1>5. ASSUME NEW m \in Lists, m # l,
             NEW i \in 0 .. Len(c[l]), NEW j \in 0 .. Len(c[m]),
             Place(c[l], l, NULL, i) = Place(c[m], m, NULL, j)
      PROVE  FALSE
  <2>1. (i = 0 \/ i \in 1 .. Len(c[l])) /\ (j = 0 \/ j \in 1 .. Len(c[m]))
    BY <1>2
  <2>2. ToSet(c[l]) \cap ToSet(c[m]) = {}
    BY <1>5 DEF ListsAre
  <2>3. QED
    BY <1>1, <1>2, <1>5, <2>1, <2>2
<1>6. QED
  BY <1>1, <1>2, <1>3, <1>4, <1>5

\* From links h to links g, an item x is linked behind place p of the list s of head l.
Put(h, g, l, s, p, x) ==
  /\ Typed(g)
  /\ \A n \in L!Nodes :
       g.next[n] = IF n = Place(s, l, NULL, p) THEN x
                   ELSE IF n = x THEN Place(s, l, NULL, p + 1) ELSE h.next[n]
  /\ \A n \in L!Nodes :
       g.previous[n] = IF n = x THEN Place(s, l, NULL, p)
                       ELSE IF n = Place(s, l, NULL, p + 1) THEN x ELSE h.previous[n]

\* The item at place p is taken out, whatever its own links become.
Taken(h, g, l, s, p) ==
  /\ Typed(g)
  /\ \A n \in L!Nodes :
       n # s[p] =>
         g.next[n] = IF n = Place(s, l, NULL, p - 1) THEN Place(s, l, NULL, p + 1)
                     ELSE h.next[n]
  /\ \A n \in L!Nodes :
       n # s[p] =>
         g.previous[n] = IF n = Place(s, l, NULL, p + 1) THEN Place(s, l, NULL, p - 1)
                         ELSE h.previous[n]

\* An item that is on no list of c.
Off(c, x) == x \in Items /\ \A m \in Lists : x \notin ToSet(c[m])

\* An item x put behind place p of list l, with the links around it.
LEMMA Spliced ==
  ASSUME NEW h, NEW c, ListsAre(h, c), NEW l \in Lists, NEW p \in 0 .. Len(c[l]),
         NEW x, Off(c, x), NEW r \in Seq(Items), Inserted(c[l], p, x, r),
         NEW g, Put(h, g, l, c[l], p, x)
  PROVE  ListsAre(g, [c EXCEPT ![l] = r])
<1> DEFINE d == [c EXCEPT ![l] = r]
           s == c[l]
           at(i) == Place(s, l, NULL, i)
<1>1. /\ g.next \in [L!Nodes -> Items \cup {NULL}]
      /\ g.previous \in [L!Nodes -> L!Nodes \cup {NULL}]
      /\ g = [next |-> g.next, previous |-> g.previous]
      /\ \A n \in L!Nodes : g.next[n] = IF n = at(p) THEN x
                                        ELSE IF n = x THEN at(p + 1) ELSE h.next[n]
      /\ \A n \in L!Nodes : g.previous[n] = IF n = x THEN at(p)
                                            ELSE IF n = at(p + 1) THEN x ELSE h.previous[n]
      /\ x \in Items /\ \A m \in Lists : x \notin ToSet(c[m])
  BY DEF Put, Typed, Off
<1>2. /\ s \in Seq(Items) /\ Len(s) \in Nat /\ l \in L!Nodes /\ NULL \notin L!Nodes
      /\ Items \subseteq L!Nodes /\ l \notin Items
      /\ \A i \in 1 .. Len(s) : at(i) = s[i] /\ s[i] \in Items /\ s[i] \in ToSet(s)
      /\ \A i \in 0 .. Len(s) : at(i) \in L!Nodes
      /\ at(0) = l /\ at(Len(s) + 1) = NULL
      /\ \A i, j \in 0 .. Len(s) + 1 : at(i) = at(j) => i = j
  BY NodesDiffer
<1>3. /\ IsInjective(s) /\ Forwards(h.next, l, s, NULL) /\ Backwards(h.previous, l, s, NULL)
      /\ c \in [Lists -> Seq(Items)] /\ h.previous[l] = NULL
  BY DEF ListsAre
<1>4. /\ p \in 0 .. Len(s) /\ x \in Items /\ x \notin ToSet(s) /\ l # NULL /\ NULL \notin Items
      /\ p \in 0 .. Len(s) + 1 /\ p + 1 \in 0 .. Len(s) + 1 /\ p + 1 # p
  BY <1>1, <1>2
<1>5. \A i \in 0 .. Len(s) : at(i) # x
  <2> TAKE i \in 0 .. Len(s)
  <2>1. i = 0 \/ i \in 1 .. Len(s)
    BY <1>2
  <2>2. QED
    BY <1>1, <1>2, <1>4, <2>1
<1>6. IsInjective(r) /\ ToSet(r) = ToSet(s) \cup {x}
  BY <1>1, <1>2, <1>3, <1>4, InsertedOnce
<1>7. Forwards(g.next, l, r, NULL)
  <2> DEFINE a == h.next
             b == g.next
  <2>1. b[at(p)] = x /\ b[x] = at(p + 1)
    BY <1>1, <1>2, <1>4, <1>5
  <2>2. \A i \in 0 .. Len(s) : i # p => b[at(i)] = a[at(i)]
    BY <1>1, <1>2, <1>4, <1>5
  <2> HIDE DEF a, b
  <2>3. NextPut(a, b, s, l, NULL, p, x)
    BY <2>1, <2>2 DEF NextPut
  <2>4. Forwards(a, l, s, NULL)
    BY <1>3 DEF a
  <2>5. Forwards(b, l, r, NULL)
    BY <1>2, <1>4, <2>3, <2>4, InsertedForwards
  <2>6. QED
    BY <2>5 DEF b
<1>8. Backwards(g.previous, l, r, NULL)
  <2> DEFINE a == h.previous
             b == g.previous
  <2>1. b[x] = at(p)
    BY <1>1, <1>2
  <2>2. p < Len(s) => b[at(p + 1)] = x
    <3>1. p < Len(s) => p + 1 \in 0 .. Len(s)
      BY <1>2
    <3>2. QED
      BY <1>1, <1>2, <1>5, <3>1
  <2>3. \A i \in 1 .. Len(s) : i # p + 1 => b[at(i)] = a[at(i)]
    <3> TAKE i \in 1 .. Len(s)
    <3>1. i \in 0 .. Len(s) /\ i \in 0 .. Len(s) + 1
      BY <1>2
    <3>2. QED
      BY <1>1, <1>2, <1>4, <1>5, <3>1
  <2> HIDE DEF a, b
  <2>4. PreviousPut(a, b, s, l, NULL, p, x)
    BY <2>1, <2>2, <2>3 DEF PreviousPut
  <2>5. Backwards(a, l, s, NULL)
    BY <1>3 DEF a
  <2>6. Backwards(b, l, r, NULL)
    BY <1>2, <1>4, <2>4, <2>5, InsertedBackwards
  <2>7. QED
    BY <2>6 DEF b
<1>9. g.previous[l] = NULL
  <2>1. l # x /\ l # at(p + 1)
    <3>1. 0 \in 0 .. Len(s) + 1 /\ p + 1 # 0
      BY <1>2
    <3>2. QED
      BY <1>2, <1>4, <3>1
  <2>2. QED
    BY <1>1, <1>2, <1>3, <2>1
<1>10. ASSUME NEW m \in Lists, m # l
       PROVE  /\ Forwards(g.next, m, c[m], NULL)
              /\ Backwards(g.previous, m, c[m], NULL)
              /\ g.previous[m] = NULL
  <2> DEFINE t == c[m]
             to(i) == Place(t, m, NULL, i)
  <2>1. /\ t \in Seq(Items) /\ Len(t) \in Nat /\ m \notin Items /\ to(0) = m
        /\ \A i \in 1 .. Len(t) : to(i) = t[i] /\ t[i] \in Items /\ t[i] \in ToSet(t)
        /\ \A i \in 0 .. Len(t) : to(i) \in L!Nodes
    BY NodesDiffer
  <2>2. /\ Forwards(h.next, m, t, NULL) /\ Backwards(h.previous, m, t, NULL)
        /\ h.previous[m] = NULL
    BY DEF ListsAre
  <2>3. \A i \in 0 .. Len(s) : \A j \in 0 .. Len(t) : at(i) # to(j)
    BY <1>10, NodesDiffer
  <2>4. \A j \in 0 .. Len(t) : to(j) \in L!Nodes /\ to(j) # x /\ to(j) # at(p) /\ to(j) # at(p + 1)
    <3> TAKE j \in 0 .. Len(t)
    <3>1. j = 0 \/ j \in 1 .. Len(t)
      BY <2>1
    <3>2. to(j) \in L!Nodes /\ to(j) # x
      BY <1>1, <2>1, <3>1
    <3>3. p + 1 \in 0 .. Len(s) \/ p + 1 = Len(s) + 1
      BY <1>2
    <3>4. QED
      BY <1>2, <1>4, <2>3, <3>2, <3>3
  <2>5. \A j \in 0 .. Len(t) : /\ g.next[to(j)] = h.next[to(j)]
                               /\ g.previous[to(j)] = h.previous[to(j)]
    BY <1>1, <2>4
  <2>6. Forwards(g.next, m, t, NULL)
    BY <2>2, <2>5 DEF Forwards
  <2>7. \A i \in 1 .. Len(t) : i \in 0 .. Len(t)
    BY <2>1
  <2>8. Backwards(g.previous, m, t, NULL)
    BY <2>2, <2>5, <2>7 DEF Backwards
  <2>9. 0 \in 0 .. Len(t)
    BY <2>1
  <2>10. QED
    BY <2>1, <2>2, <2>5, <2>6, <2>8, <2>9
<1>11. /\ d \in [Lists -> Seq(Items)] /\ d[l] = r
       /\ \A m \in Lists : m # l => d[m] = c[m]
  BY <1>3
<1> HIDE DEF d, at
<1>12. \A m \in Lists : /\ IsInjective(d[m])
                        /\ Forwards(g.next, m, d[m], NULL)
                        /\ Backwards(g.previous, m, d[m], NULL)
                        /\ g.previous[m] = NULL
  <2> TAKE m \in Lists
  <2>1. CASE m = l
    BY <1>6, <1>7, <1>8, <1>9, <1>11, <2>1
  <2>2. CASE m # l
    BY <1>10, <1>11, <2>2 DEF ListsAre
  <2>3. QED
    BY <2>1, <2>2
<1>13. \A k, m \in Lists : k # m => ToSet(d[k]) \cap ToSet(d[m]) = {}
  <2>1. \A k, m \in Lists : k # m => ToSet(c[k]) \cap ToSet(c[m]) = {}
    BY DEF ListsAre
  <2>2. \A m \in Lists : ToSet(d[m]) = IF m = l THEN ToSet(c[l]) \cup {x} ELSE ToSet(c[m])
    BY <1>6, <1>11
  <2>3. \A m \in Lists : x \notin ToSet(c[m])
    BY <1>1
  <2> TAKE k, m \in Lists
  <2>4. QED
    BY <2>1, <2>2, <2>3
<1>14. ListsAre(g, d)
  BY <1>1, <1>11, <1>12, <1>13 DEF ListsAre, Typed
<1>15. QED
  BY <1>14 DEF d

\* The item at place p of list l taken out, whatever its own links become.
LEMMA TakenOut ==
  ASSUME NEW h, NEW c, ListsAre(h, c), NEW l \in Lists, NEW p \in 1 .. Len(c[l]),
         NEW r \in Seq(Items), Removed(c[l], p, r), NEW g, Taken(h, g, l, c[l], p)
  PROVE  ListsAre(g, [c EXCEPT ![l] = r])
<1> DEFINE d == [c EXCEPT ![l] = r]
           s == c[l]
           at(i) == Place(s, l, NULL, i)
<1>1. /\ g.next \in [L!Nodes -> Items \cup {NULL}]
      /\ g.previous \in [L!Nodes -> L!Nodes \cup {NULL}]
      /\ g = [next |-> g.next, previous |-> g.previous]
      /\ \A n \in L!Nodes :
           n # s[p] => g.next[n] = IF n = at(p - 1) THEN at(p + 1) ELSE h.next[n]
      /\ \A n \in L!Nodes :
           n # s[p] => g.previous[n] = IF n = at(p + 1) THEN at(p - 1) ELSE h.previous[n]
  BY DEF Taken, Typed
<1>2. /\ s \in Seq(Items) /\ Len(s) \in Nat /\ l \in L!Nodes /\ NULL \notin L!Nodes
      /\ Items \subseteq L!Nodes /\ l \notin Items
      /\ \A i \in 1 .. Len(s) : at(i) = s[i] /\ s[i] \in Items /\ s[i] \in ToSet(s)
      /\ \A i \in 0 .. Len(s) : at(i) \in L!Nodes
      /\ at(0) = l /\ at(Len(s) + 1) = NULL
      /\ \A i, j \in 0 .. Len(s) + 1 : at(i) = at(j) => i = j
  BY NodesDiffer
<1>3. /\ IsInjective(s) /\ Forwards(h.next, l, s, NULL) /\ Backwards(h.previous, l, s, NULL)
      /\ c \in [Lists -> Seq(Items)] /\ h.previous[l] = NULL
  BY DEF ListsAre
<1>4. /\ p \in 1 .. Len(s) /\ p \in Int /\ p - 1 \in 0 .. Len(s) /\ at(p) = s[p]
      /\ p \in 0 .. Len(s) + 1 /\ p - 1 \in 0 .. Len(s) + 1 /\ p + 1 \in 0 .. Len(s) + 1
      /\ Removed(s, p, r)
  BY <1>2
<1>5. \A i \in 0 .. Len(s) + 1 : (at(i) = s[p] <=> i = p) /\ (at(i) = at(p - 1) <=> i = p - 1)
                                /\ (at(i) = at(p + 1) <=> i = p + 1)
  <2> HIDE DEF at
  <2>1. QED
    BY <1>2, <1>4
<1>6. IsInjective(r) /\ ToSet(r) = ToSet(s) \ {s[p]}
  BY <1>2, <1>3, <1>4, RemovedOnce
<1>7. Forwards(g.next, l, r, NULL)
  <2> DEFINE a == h.next
             b == g.next
  <2>1. b[at(p - 1)] = at(p + 1)
    <3>1. at(p - 1) # s[p] /\ at(p - 1) \in L!Nodes
      BY <1>2, <1>4, <1>5
    <3>2. QED
      BY <1>1, <3>1
  <2>2. \A i \in 0 .. Len(s) : i \notin {p - 1, p} => b[at(i)] = a[at(i)]
    <3> TAKE i \in 0 .. Len(s)
    <3>1. i \in 0 .. Len(s) + 1 /\ at(i) \in L!Nodes
      BY <1>2
    <3>2. QED
      BY <1>1, <1>5, <3>1
  <2> HIDE DEF a, b
  <2>3. NextTaken(a, b, s, l, NULL, p)
    BY <2>1, <2>2 DEF NextTaken
  <2>4. Forwards(a, l, s, NULL)
    BY <1>3 DEF a
  <2>5. Forwards(b, l, r, NULL)
    BY <1>2, <1>4, <2>3, <2>4, RemovedForwards
  <2>6. QED
    BY <2>5 DEF b
<1>8. Backwards(g.previous, l, r, NULL)
  <2> DEFINE a == h.previous
             b == g.previous
  <2>1. p < Len(s) => b[at(p + 1)] = at(p - 1)
    <3>1. p < Len(s) => p + 1 \in 0 .. Len(s) /\ p + 1 # p
      BY <1>2, <1>4
    <3>2. p < Len(s) => at(p + 1) \in L!Nodes /\ at(p + 1) # s[p]
      BY <1>2, <1>4, <1>5, <3>1
    <3>3. QED
      BY <1>1, <3>2
  <2>2. \A i \in 1 .. Len(s) : i \notin {p, p + 1} => b[at(i)] = a[at(i)]
    <3> TAKE i \in 1 .. Len(s)
    <3>1. i \in 0 .. Len(s) + 1 /\ i \in 0 .. Len(s)
      BY <1>2
    <3>2. at(i) \in L!Nodes
      BY <1>2, <3>1
    <3>3. QED
      BY <1>1, <1>5, <3>1, <3>2
  <2> HIDE DEF a, b
  <2>3. PreviousTaken(a, b, s, l, NULL, p)
    BY <2>1, <2>2 DEF PreviousTaken
  <2>4. Backwards(a, l, s, NULL)
    BY <1>3 DEF a
  <2>5. Backwards(b, l, r, NULL)
    BY <1>2, <1>4, <2>3, <2>4, RemovedBackwards
  <2>6. QED
    BY <2>5 DEF b
<1>9. g.previous[l] = NULL
  <2>1. 0 \in 0 .. Len(s) + 1 /\ 0 # p /\ 0 # p + 1
    BY <1>2, <1>4
  <2>2. l # s[p] /\ l # at(p + 1)
    BY <1>2, <1>5, <2>1
  <2>3. QED
    BY <1>1, <1>2, <1>3, <2>2
<1>10. ASSUME NEW m \in Lists, m # l
       PROVE  /\ Forwards(g.next, m, c[m], NULL)
              /\ Backwards(g.previous, m, c[m], NULL)
              /\ g.previous[m] = NULL
  <2> DEFINE t == c[m]
             to(i) == Place(t, m, NULL, i)
  <2>1. /\ t \in Seq(Items) /\ Len(t) \in Nat /\ m \notin Items /\ to(0) = m
        /\ \A i \in 0 .. Len(t) : to(i) \in L!Nodes
    BY NodesDiffer
  <2>2. /\ Forwards(h.next, m, t, NULL) /\ Backwards(h.previous, m, t, NULL)
        /\ h.previous[m] = NULL
    BY DEF ListsAre
  <2>3. \A i \in 0 .. Len(s) : \A j \in 0 .. Len(t) : at(i) # to(j)
    BY <1>10, NodesDiffer
  <2>4. \A j \in 0 .. Len(t) : /\ to(j) \in L!Nodes /\ to(j) # s[p]
                              /\ to(j) # at(p - 1) /\ to(j) # at(p + 1)
    <3> TAKE j \in 0 .. Len(t)
    <3>1. p + 1 \in 0 .. Len(s) \/ p + 1 = Len(s) + 1
      BY <1>2, <1>4
    <3>2. p \in 0 .. Len(s) /\ to(j) \in L!Nodes
      BY <1>2, <1>4, <2>1
    <3> HIDE DEF at, to
    <3>3. QED
      BY <1>2, <1>4, <2>3, <3>1, <3>2
  <2>5. \A j \in 0 .. Len(t) : /\ g.next[to(j)] = h.next[to(j)]
                              /\ g.previous[to(j)] = h.previous[to(j)]
    BY <1>1, <2>4
  <2>6. Forwards(g.next, m, t, NULL)
    BY <2>2, <2>5 DEF Forwards
  <2>7. \A i \in 1 .. Len(t) : i \in 0 .. Len(t)
    BY <2>1
  <2>8. Backwards(g.previous, m, t, NULL)
    BY <2>2, <2>5, <2>7 DEF Backwards
  <2>9. 0 \in 0 .. Len(t)
    BY <2>1
  <2>10. QED
    BY <2>1, <2>2, <2>5, <2>6, <2>8, <2>9
<1>11. /\ d \in [Lists -> Seq(Items)] /\ d[l] = r
       /\ \A m \in Lists : m # l => d[m] = c[m]
  BY <1>3
<1> HIDE DEF d, at
<1>12. \A m \in Lists : /\ IsInjective(d[m])
                        /\ Forwards(g.next, m, d[m], NULL)
                        /\ Backwards(g.previous, m, d[m], NULL)
                        /\ g.previous[m] = NULL
  <2> TAKE m \in Lists
  <2>1. CASE m = l
    BY <1>6, <1>7, <1>8, <1>9, <1>11, <2>1
  <2>2. CASE m # l
    BY <1>10, <1>11, <2>2 DEF ListsAre
  <2>3. QED
    BY <2>1, <2>2
<1>13. \A k, m \in Lists : k # m => ToSet(d[k]) \cap ToSet(d[m]) = {}
  <2>1. \A k, m \in Lists : k # m => ToSet(c[k]) \cap ToSet(c[m]) = {}
    BY DEF ListsAre
  <2>2. \A m \in Lists : ToSet(d[m]) \subseteq ToSet(c[m])
    BY <1>6, <1>11
  <2> TAKE k, m \in Lists
  <2>3. QED
    BY <2>1, <2>2
<1>14. ListsAre(g, d)
  BY <1>1, <1>11, <1>12, <1>13 DEF ListsAre, Typed
<1>15. QED
  BY <1>14 DEF d

-----------------------------------------------------------------------------
\* front(), back(), at() and find() of a list.
LEMMA ReadsAre ==
  ASSUME NEW h, NEW c, ListsAre(h, c), NEW l \in Lists
  PROVE  /\ h.next[l] = Place(c[l], l, NULL, 1)
         /\ h.next[l] = NULL <=> c[l] = <<>>
         /\ L!Size(h, l) = Len(c[l])
         /\ L!Back(h, l) = IF c[l] = <<>> THEN NULL ELSE c[l][Len(c[l])]
         /\ \A pos \in Nat : L!At(h, l, pos) = IF pos < Len(c[l]) THEN c[l][pos + 1] ELSE NULL
         /\ \A x \in Items : L!Find(h, l, x) = -1 <=> x \notin ToSet(c[l])
<1> DEFINE s == c[l]
<1>1. /\ s \in Seq(Items) /\ Len(s) \in Nat /\ NULL \notin Items
      /\ \A i \in 1 .. Len(s) : s[i] \in Items
      /\ s = <<>> <=> Len(s) = 0
  BY ListAssumption DEF ListsAre
<1>2. L!Contents(h, l) = s
  BY ContentsAre
<1>3. h.next[l] = Place(s, l, NULL, 1)
  <2>1. h.next[Place(s, l, NULL, 0)] = Place(s, l, NULL, 0 + 1)
    <3>1. Forwards(h.next, l, s, NULL) /\ 0 \in 0 .. Len(s)
      BY <1>1 DEF ListsAre
    <3>2. QED
      BY <3>1 DEF Forwards
  <2>2. Place(s, l, NULL, 0) = l /\ 0 + 1 = 1
    BY DEF Place
  <2>3. QED
    BY <2>1, <2>2
<1>4. h.next[l] = NULL <=> s = <<>>
  BY <1>1, <1>3 DEF Place
<1>5. L!Size(h, l) = Len(s)
  BY <1>2 DEF L!Size
<1>6. L!Back(h, l) = IF s = <<>> THEN NULL ELSE s[Len(s)]
  BY <1>2, <1>4, <1>5 DEF L!Back, L!Front
<1>7. \A pos \in Nat : L!At(h, l, pos) = IF pos < Len(s) THEN s[pos + 1] ELSE NULL
  BY <1>2, <1>5 DEF L!At
<1> HIDE DEF s
<1>8. ASSUME NEW x \in Items
      PROVE  L!Find(h, l, x) = -1 <=> x \notin ToSet(s)
  <2>1. CASE x \notin ToSet(s)
    <3>1. \A i \in DOMAIN s : s[i] # x
      BY <2>1 DEF ToSet
    <3>2. QED
      BY <1>2, <2>1, <3>1 DEF L!Find
  <2>2. CASE x \in ToSet(s)
    <3> DEFINE T == {i \in 1 .. Len(s) : s[i] = x}
    <3>1. T # {} /\ T \subseteq Nat /\ DOMAIN s = 1 .. Len(s)
      BY <1>1, <2>2 DEF ToSet
    <3>2. PICK i \in T : \A j \in T : i <= j
      <4> HIDE DEF T
      <4>1. QED
        BY <3>1, Least
    <3>3. i \in DOMAIN s /\ s[i] = x /\ \A j \in 1 .. (i - 1) : s[j] # x
      BY <1>1, <3>1, <3>2
    <3> DEFINE k == CHOOSE j \in DOMAIN s : s[j] = x /\ \A n \in 1 .. (j - 1) : s[n] # x
    <3>4. k \in DOMAIN s
      BY <3>3
    <3> HIDE DEF k
    <3>5. k - 1 # -1
      BY <3>1, <3>4
    <3>6. L!Find(h, l, x) = k - 1
      BY <1>2, <3>3 DEF L!Find, k
    <3>7. QED
      BY <2>2, <3>5, <3>6
  <2>3. QED
    BY <2>1, <2>2
<1>9. QED
  BY <1>3, <1>4, <1>5, <1>6, <1>7, <1>8 DEF s

\* back() alone, which is what the operations at the end of a list need.
LEMMA BackIs ==
  ASSUME NEW h, NEW c, ListsAre(h, c), NEW l \in Lists
  PROVE  L!Back(h, l) = IF c[l] = <<>> THEN NULL ELSE c[l][Len(c[l])]
  BY ReadsAre

\* push_back
LEMMA PushBackIs ==
  ASSUME NEW h, NEW c, ListsAre(h, c), NEW l \in Lists, NEW x, Off(c, x)
  PROVE  ListsAre(L!PushBack(h, l, x), [c EXCEPT ![l] = Append(c[l], x)])
<1> DEFINE s == c[l]
           at(i) == Place(s, l, NULL, i)
           temp == IF L!Back(h, l) = NULL THEN l ELSE L!Back(h, l)
           a == [h.next EXCEPT ![temp] = x, ![x] = NULL]
           b == [h.previous EXCEPT ![x] = temp]
           g == [next |-> a, previous |-> b]
<1>1. /\ s \in Seq(Items) /\ Len(s) \in Nat /\ l \in L!Nodes /\ NULL \notin L!Nodes
      /\ Items \subseteq L!Nodes /\ l \notin Items
      /\ \A i \in 1 .. Len(s) : at(i) = s[i] /\ s[i] \in Items /\ s[i] \in ToSet(s)
      /\ \A i \in 0 .. Len(s) : at(i) \in L!Nodes
      /\ at(0) = l /\ at(Len(s) + 1) = NULL
  BY NodesDiffer
<1>2. temp = at(Len(s)) /\ temp \in L!Nodes /\ temp # x
  <2>1. s = <<>> <=> Len(s) = 0
    BY <1>1
  <2>2. L!Back(h, l) = IF s = <<>> THEN NULL ELSE s[Len(s)]
    BY BackIs
  <2>3. x \in Items /\ x \notin ToSet(s)
    BY DEF Off
  <2>4. CASE Len(s) = 0
    BY <1>1, <2>1, <2>2, <2>3, <2>4
  <2>5. CASE Len(s) # 0
    <3>1. Len(s) \in 1 .. Len(s)
      BY <1>1, <2>5
    <3>2. QED
      BY <1>1, <2>1, <2>2, <2>3, <2>5, <3>1
  <2>6. QED
    BY <2>4, <2>5
<1>3. L!PushBack(h, l, x) = g
  BY DEF L!PushBack
<1> HIDE DEF temp
<1>4. x \in Items /\ h.next \in [L!Nodes -> Items \cup {NULL}]
      /\ h.previous \in [L!Nodes -> L!Nodes \cup {NULL}]
  BY DEF Off, ListsAre, Typed
<1>5. g = [next |-> g.next, previous |-> g.previous] /\ g.next = a /\ g.previous = b
  OBVIOUS
<1>6. a \in [L!Nodes -> Items \cup {NULL}] /\ b \in [L!Nodes -> L!Nodes \cup {NULL}]
  BY <1>1, <1>2, <1>4
<1>7. \A n \in L!Nodes : a[n] = IF n = at(Len(s)) THEN x
                                ELSE IF n = x THEN at(Len(s) + 1) ELSE h.next[n]
  BY <1>1, <1>2, <1>4
<1>8. \A n \in L!Nodes : b[n] = IF n = x THEN at(Len(s))
                                ELSE IF n = at(Len(s) + 1) THEN x ELSE h.previous[n]
  BY <1>1, <1>2, <1>4
<1>9. Append(s, x) \in Seq(Items) /\ Inserted(s, Len(s), x, Append(s, x))
  BY <1>1, <1>4, Insertions
<1> DEFINE r == Append(s, x)
<1> HIDE DEF a, b, g, r, s
<1>10. Put(h, g, l, s, Len(s), x)
  BY <1>5, <1>6, <1>7, <1>8 DEF Put, Typed
<1>11. Len(s) \in 0 .. Len(s)
  BY <1>1
<1>12. ListsAre(g, [c EXCEPT ![l] = r])
  BY <1>9, <1>10, <1>11, Spliced DEF r, s
<1>13. QED
  BY <1>3, <1>12 DEF r, s

\* push_front
LEMMA PushFrontIs ==
  ASSUME NEW h, NEW c, ListsAre(h, c), NEW l \in Lists, NEW x, Off(c, x)
  PROVE  ListsAre(L!PushFront(h, l, x), [c EXCEPT ![l] = <<x>> \o c[l]])
<1> DEFINE s == c[l]
           at(i) == Place(s, l, NULL, i)
           temp == h.next[l]
           a == [h.next EXCEPT ![l] = x, ![x] = temp]
           b == [n \in L!Nodes |-> CASE n = x -> l
                                     [] n = temp /\ n # x -> x
                                     [] OTHER -> h.previous[n]]
           g == [next |-> a, previous |-> b]
           r == <<x>> \o s
<1>1. /\ s \in Seq(Items) /\ Len(s) \in Nat /\ l \in L!Nodes /\ l \notin Items
      /\ Items \subseteq L!Nodes /\ at(0) = l
  BY NodesDiffer
<1>2. L!PushFront(h, l, x) = g
  BY DEF L!PushFront
<1>3. x \in Items /\ h.next \in [L!Nodes -> Items \cup {NULL}]
      /\ h.previous \in [L!Nodes -> L!Nodes \cup {NULL}]
  BY DEF Off, ListsAre, Typed
<1>4. temp = at(1) /\ temp \in Items \cup {NULL}
  BY <1>1, <1>3, ReadsAre
<1> HIDE DEF temp, at
<1>5. g = [next |-> g.next, previous |-> g.previous] /\ g.next = a /\ g.previous = b
  OBVIOUS
<1>6. a \in [L!Nodes -> Items \cup {NULL}] /\ b \in [L!Nodes -> L!Nodes \cup {NULL}]
  BY <1>1, <1>3, <1>4
<1>7. \A n \in L!Nodes : a[n] = IF n = at(0) THEN x ELSE IF n = x THEN at(0 + 1) ELSE h.next[n]
  BY <1>1, <1>3, <1>4
<1>8. \A n \in L!Nodes : b[n] = IF n = x THEN at(0) ELSE IF n = at(0 + 1) THEN x ELSE h.previous[n]
  BY <1>1, <1>3, <1>4
<1>9. r \in Seq(Items) /\ Inserted(s, 0, x, r)
  BY <1>1, <1>3, Insertions
<1> HIDE DEF a, b, g, r, s
<1>10. Put(h, g, l, s, 0, x)
  BY <1>5, <1>6, <1>7, <1>8 DEF Put, Typed, at
<1>11. 0 \in 0 .. Len(s)
  BY <1>1
<1>12. ListsAre(g, [c EXCEPT ![l] = r])
  BY <1>9, <1>10, <1>11, Spliced DEF r, s
<1>13. QED
  BY <1>2, <1>12 DEF r, s

\* insert
LEMMA InsertIs ==
  ASSUME NEW h, NEW c, ListsAre(h, c), NEW l \in Lists, NEW x, Off(c, x), NEW pos \in Nat
  PROVE  ListsAre(L!Insert(h, l, pos, x),
                  [c EXCEPT ![l] = IF pos <= Len(c[l]) THEN InsertAt(c[l], pos + 1, x) ELSE c[l]])
<1> DEFINE s == c[l]
           at(i) == Place(s, l, NULL, i)
           temp == L!At(h, l, pos)
           a == [h.next EXCEPT ![x] = temp, ![h.previous[temp]] = x]
           b == [h.previous EXCEPT ![x] = h.previous[temp], ![temp] = x]
           g == [next |-> a, previous |-> b]
           r == InsertAt(s, pos + 1, x)
<1>1. /\ s \in Seq(Items) /\ Len(s) \in Nat /\ l \in L!Nodes /\ l \notin Items
      /\ Items \subseteq L!Nodes
      /\ \A i \in 1 .. Len(s) : at(i) = s[i] /\ s[i] \in Items /\ s[i] \in ToSet(s)
      /\ \A i \in 0 .. Len(s) : at(i) \in L!Nodes
      /\ \A i, j \in 0 .. Len(s) + 1 : at(i) = at(j) => i = j
      /\ at(0) = l
  BY NodesDiffer
<1>2. L!Size(h, l) = Len(s) /\ temp = IF pos < Len(s) THEN s[pos + 1] ELSE NULL
  BY ReadsAre
<1>3. /\ x \in Items /\ x \notin ToSet(s)
      /\ h.next \in [L!Nodes -> Items \cup {NULL}]
      /\ h.previous \in [L!Nodes -> L!Nodes \cup {NULL}]
      /\ Backwards(h.previous, l, s, NULL)
      /\ c \in [Lists -> Seq(Items)]
  BY DEF Off, ListsAre, Typed
<1>4. CASE pos = 0
  <2>1. L!Insert(h, l, pos, x) = L!PushFront(h, l, x)
    BY <1>4 DEF L!Insert
  <2>2. <<x>> \o s = r
    <3>1. 0 \in 0 .. Len(s) /\ pos <= Len(s)
      BY <1>1, <1>4
    <3>2. /\ <<x>> \o s \in Seq(Items) /\ Inserted(s, 0, x, <<x>> \o s)
          /\ r \in Seq(Items) /\ Inserted(s, 0, x, r)
      BY <1>1, <1>3, <1>4, <3>1, Insertions
    <3> HIDE DEF r
    <3>3. QED
      BY <1>1, <1>3, <3>1, <3>2, InsertedSame
  <2>3. pos <= Len(s)
    BY <1>1, <1>4
  <2>4. QED
    BY <2>1, <2>2, <2>3, PushFrontIs
<1>5. CASE pos > 0 /\ pos = Len(s)
  <2>1. L!Insert(h, l, pos, x) = L!PushBack(h, l, x)
    BY <1>2, <1>5 DEF L!Insert
  <2>2. Append(s, x) = r
    <3>1. pos \in 0 .. Len(s)
      BY <1>1, <1>5
    <3>2. /\ Append(s, x) \in Seq(Items) /\ Inserted(s, pos, x, Append(s, x))
          /\ r \in Seq(Items) /\ Inserted(s, pos, x, r)
      BY <1>1, <1>3, <1>5, <3>1, Insertions
    <3> HIDE DEF r
    <3>3. QED
      BY <1>1, <1>3, <3>1, <3>2, InsertedSame
  <2>3. QED
    BY <1>5, <2>1, <2>2, PushBackIs
<1>6. CASE pos > 0 /\ pos < Len(s)
  <2>1. L!Insert(h, l, pos, x) = g
    BY <1>2, <1>6 DEF L!Insert
  <2>2. /\ pos \in 0 .. Len(s) /\ pos + 1 \in 1 .. Len(s) /\ pos + 1 \in 0 .. Len(s)
        /\ pos \in 0 .. Len(s) + 1 /\ pos + 1 \in 0 .. Len(s) + 1 /\ (pos + 1) - 1 = pos
        /\ pos \in 1 .. Len(s) /\ pos # pos + 1
    BY <1>1, <1>6
  <2>3. temp = at(pos + 1) /\ temp \in Items /\ temp # x /\ at(pos) # temp /\ at(pos) # x
        /\ at(pos) \in Items
    BY <1>1, <1>2, <1>3, <1>6, <2>2
  <2>4. h.previous[temp] = at(pos)
    BY <1>3, <2>2, <2>3 DEF Backwards
  <2> HIDE DEF temp, at
  <2>5. g = [next |-> g.next, previous |-> g.previous] /\ g.next = a /\ g.previous = b
    OBVIOUS
  <2>6. a \in [L!Nodes -> Items \cup {NULL}] /\ b \in [L!Nodes -> L!Nodes \cup {NULL}]
    BY <1>1, <1>3, <2>3, <2>4
  <2>7. \A n \in L!Nodes :
          a[n] = IF n = at(pos) THEN x ELSE IF n = x THEN at(pos + 1) ELSE h.next[n]
    BY <1>1, <1>3, <2>3, <2>4
  <2>8. \A n \in L!Nodes :
          b[n] = IF n = x THEN at(pos) ELSE IF n = at(pos + 1) THEN x ELSE h.previous[n]
    BY <1>1, <1>3, <2>3, <2>4
  <2>9. r \in Seq(Items) /\ Inserted(s, pos, x, r)
    BY <1>1, <1>3, <2>2, Insertions
  <2> HIDE DEF a, b, g, r, s
  <2>10. Put(h, g, l, s, pos, x)
    BY <2>5, <2>6, <2>7, <2>8 DEF Put, Typed, at
  <2>11. ListsAre(g, [c EXCEPT ![l] = r])
    BY <2>2, <2>9, <2>10, Spliced DEF s
  <2>12. pos <= Len(s)
    BY <1>1, <1>6
  <2>13. QED
    BY <2>1, <2>11, <2>12 DEF r, s
<1>7. CASE pos > Len(s)
  <2>1. L!Insert(h, l, pos, x) = h
    BY <1>1, <1>2, <1>7 DEF L!Insert
  <2>2. [c EXCEPT ![l] = IF pos <= Len(c[l]) THEN InsertAt(c[l], pos + 1, x) ELSE c[l]] = c
    BY <1>1, <1>3, <1>7
  <2>3. QED
    BY <2>1, <2>2
<1>8. QED
  BY <1>1, <1>4, <1>5, <1>6, <1>7

\* pop_back
LEMMA PopBackIs ==
  ASSUME NEW h, NEW c, ListsAre(h, c), NEW l \in Lists
  PROVE  ListsAre(L!PopBack(h, l),
                  [c EXCEPT ![l] = IF c[l] = <<>> THEN <<>> ELSE Front(c[l])])
<1>0. L!Back(h, l) = IF c[l] = <<>> THEN NULL ELSE c[l][Len(c[l])]
  BY BackIs
<1> DEFINE s == c[l]
           k == Len(s)
           at(i) == Place(s, l, NULL, i)
           temp == L!Back(h, l)
           a == [h.next EXCEPT ![h.previous[temp]] = NULL, ![temp] = NULL]
           b == [h.previous EXCEPT ![temp] = NULL]
           g == [next |-> a, previous |-> b]
           r == Front(s)
<1>1. /\ s \in Seq(Items) /\ k \in Nat /\ NULL \notin L!Nodes
      /\ Items \subseteq L!Nodes /\ at(k + 1) = NULL
      /\ \A i \in 1 .. Len(s) : at(i) = s[i] /\ s[i] \in Items
      /\ \A i \in 0 .. Len(s) : at(i) \in L!Nodes
      /\ \A i, j \in 0 .. Len(s) + 1 : at(i) = at(j) => i = j
  <2>1. Len(s) \in Nat /\ at(Len(s) + 1) = NULL
    BY NodesDiffer
  <2>2. /\ s \in Seq(Items) /\ NULL \notin L!Nodes /\ Items \subseteq L!Nodes
        /\ \A i \in 1 .. Len(s) : at(i) = s[i] /\ s[i] \in Items
        /\ \A i \in 0 .. Len(s) : at(i) \in L!Nodes
        /\ \A i, j \in 0 .. Len(s) + 1 : at(i) = at(j) => i = j
    BY NodesDiffer
  <2> QED BY <2>1, <2>2
<1>2. temp = IF s = <<>> THEN NULL ELSE s[k]
  BY <1>0
<1>3. /\ h.next \in [L!Nodes -> Items \cup {NULL}]
      /\ h.previous \in [L!Nodes -> L!Nodes \cup {NULL}]
      /\ Backwards(h.previous, l, s, NULL)
      /\ c \in [Lists -> Seq(Items)]
  BY DEF ListsAre, Typed
<1>4. CASE s = <<>>
  <2>1. L!PopBack(h, l) = h
    BY <1>2, <1>4 DEF L!PopBack
  <2>2. [c EXCEPT ![l] = IF c[l] = <<>> THEN <<>> ELSE Front(c[l])] = c
    BY <1>3, <1>4
  <2>3. QED
    BY <2>1, <2>2
<1>5. CASE s # <<>>
  <2>1. k \in 1 .. k /\ k \in 0 .. k + 1 /\ k - 1 \in 0 .. k /\ k - 1 \in 0 .. k + 1 /\ k - 1 # k
    BY <1>1, <1>5
  <2>2. temp = at(k) /\ temp = s[k] /\ temp \in Items /\ at(k - 1) \in L!Nodes /\ at(k - 1) # temp
    BY <1>1, <1>2, <1>5, <2>1
  <2>3. h.previous[temp] = at(k - 1)
    BY <1>3, <2>1, <2>2 DEF Backwards
  <2>4. L!PopBack(h, l) = g
    BY <1>1, <2>2 DEF L!PopBack
  <2> HIDE DEF temp, at
  <2>5. g = [next |-> g.next, previous |-> g.previous] /\ g.next = a /\ g.previous = b
    OBVIOUS
  <2>6. a \in [L!Nodes -> Items \cup {NULL}] /\ b \in [L!Nodes -> L!Nodes \cup {NULL}]
    BY <1>1, <1>3, <2>2, <2>3
  <2>7. \A n \in L!Nodes :
          n # s[k] => a[n] = IF n = at(k - 1) THEN at(k + 1) ELSE h.next[n]
    BY <1>1, <1>3, <2>2, <2>3
  <2>8. \A n \in L!Nodes :
          n # s[k] => b[n] = IF n = at(k + 1) THEN at(k - 1) ELSE h.previous[n]
    BY <1>1, <1>3, <2>2, <2>3
  <2>9. r \in Seq(Items) /\ Removed(s, k, r)
    BY <1>1, <1>5, Removals
  <2> HIDE DEF a, b, g, r, k, s
  <2>10. Taken(h, g, l, s, k)
    BY <2>5, <2>6, <2>7, <2>8 DEF Taken, Typed, at
  <2>11. ListsAre(g, [c EXCEPT ![l] = r])
    BY <2>1, <2>9, <2>10, TakenOut DEF s, k
  <2>12. QED
    BY <1>5, <2>4, <2>11 DEF r, s
<1>6. QED
  BY <1>4, <1>5

\* pop_front
LEMMA PopFrontIs ==
  ASSUME NEW h, NEW c, ListsAre(h, c), NEW l \in Lists
  PROVE  ListsAre(L!PopFront(h, l),
                  [c EXCEPT ![l] = IF c[l] = <<>> THEN <<>> ELSE Tail(c[l])])
<1> DEFINE s == c[l]
           at(i) == Place(s, l, NULL, i)
           temp == h.next[l]
           a == [h.next EXCEPT ![l] = h.next[temp], ![temp] = NULL]
           b == [n \in L!Nodes |-> CASE n = temp -> NULL
                                     [] n = h.next[temp] /\ n # temp -> l
                                     [] OTHER -> h.previous[n]]
           g == [next |-> a, previous |-> b]
           r == Tail(s)
<1>1. /\ s \in Seq(Items) /\ Len(s) \in Nat /\ NULL \notin L!Nodes /\ l \in L!Nodes
      /\ l \notin Items /\ Items \subseteq L!Nodes /\ at(0) = l
      /\ \A i \in 1 .. Len(s) : at(i) = s[i] /\ s[i] \in Items
      /\ \A i, j \in 0 .. Len(s) + 1 : at(i) = at(j) => i = j
  BY NodesDiffer
<1>2. temp = at(1) /\ (temp = NULL <=> s = <<>>)
  BY ReadsAre
<1>3. /\ h.next \in [L!Nodes -> Items \cup {NULL}]
      /\ h.previous \in [L!Nodes -> L!Nodes \cup {NULL}]
      /\ Forwards(h.next, l, s, NULL)
      /\ c \in [Lists -> Seq(Items)]
  BY DEF ListsAre, Typed
<1>4. CASE s = <<>>
  <2>1. L!PopFront(h, l) = h
    BY <1>2, <1>4 DEF L!PopFront
  <2>2. [c EXCEPT ![l] = IF c[l] = <<>> THEN <<>> ELSE Tail(c[l])] = c
    BY <1>3, <1>4
  <2>3. QED
    BY <2>1, <2>2
<1>5. CASE s # <<>>
  <2>1. /\ 1 \in 1 .. Len(s) /\ 1 \in 0 .. Len(s) /\ 1 \in 0 .. Len(s) + 1 /\ 2 \in 0 .. Len(s) + 1
        /\ 1 - 1 = 0 /\ 1 + 1 = 2 /\ 1 # 2
    BY <1>1, <1>5
  <2>2. temp = s[1] /\ temp \in Items /\ temp # l /\ temp # NULL /\ at(2) # temp
    BY <1>1, <1>2, <1>5, <2>1
  <2>3. h.next[temp] = at(2)
    BY <1>2, <1>3, <2>1, <2>2 DEF Forwards
  <2>4. L!PopFront(h, l) = g
    BY <2>2 DEF L!PopFront
  <2> HIDE DEF temp, at
  <2>5. g = [next |-> g.next, previous |-> g.previous] /\ g.next = a /\ g.previous = b
    OBVIOUS
  <2>6. a \in [L!Nodes -> Items \cup {NULL}] /\ b \in [L!Nodes -> L!Nodes \cup {NULL}]
    BY <1>1, <1>3, <2>2, <2>3
  <2>7. \A n \in L!Nodes :
          n # s[1] => a[n] = IF n = at(1 - 1) THEN at(1 + 1) ELSE h.next[n]
    BY <1>1, <1>3, <2>1, <2>2, <2>3
  <2>8. \A n \in L!Nodes :
          n # s[1] => b[n] = IF n = at(1 + 1) THEN at(1 - 1) ELSE h.previous[n]
    BY <1>1, <1>3, <2>1, <2>2, <2>3
  <2>9. r \in Seq(Items) /\ Removed(s, 1, r)
    BY <1>1, <1>5, Removals
  <2> HIDE DEF a, b, g, r, s
  <2>10. Taken(h, g, l, s, 1)
    BY <2>5, <2>6, <2>7, <2>8 DEF Taken, Typed, at
  <2>11. ListsAre(g, [c EXCEPT ![l] = r])
    BY <2>1, <2>9, <2>10, TakenOut DEF s
  <2>12. QED
    BY <1>5, <2>4, <2>11 DEF r, s
<1>6. QED
  BY <1>4, <1>5

\* The end of both erase.
LEMMA UnlinkIs ==
  ASSUME NEW h, NEW c, ListsAre(h, c), NEW l \in Lists, NEW p \in 1 .. Len(c[l])
  PROVE  ListsAre(L!Unlink(h, c[l][p]), [c EXCEPT ![l] = RemoveAt(c[l], p)])
<1> DEFINE s == c[l]
           at(i) == Place(s, l, NULL, i)
           temp == s[p]
           a == [h.next EXCEPT ![h.previous[temp]] = h.next[temp]]
           b == [n \in L!Nodes |-> IF n = h.next[temp] THEN h.previous[temp]
                                                        ELSE h.previous[n]]
           g == [next |-> a, previous |-> b]
           r == RemoveAt(s, p)
<1>1. /\ s \in Seq(Items) /\ Len(s) \in Nat /\ Items \subseteq L!Nodes
      /\ \A i \in 1 .. Len(s) : at(i) = s[i] /\ s[i] \in Items
      /\ \A i \in 0 .. Len(s) : at(i) \in L!Nodes
  BY NodesDiffer
<1>2. /\ h.next \in [L!Nodes -> Items \cup {NULL}]
      /\ h.previous \in [L!Nodes -> L!Nodes \cup {NULL}]
      /\ Forwards(h.next, l, s, NULL) /\ Backwards(h.previous, l, s, NULL)
  BY DEF ListsAre, Typed
<1>3. p \in 1 .. Len(s) /\ p \in 0 .. Len(s) /\ p - 1 \in 0 .. Len(s)
  BY <1>1
<1>4. temp = at(p) /\ temp \in L!Nodes /\ at(p - 1) \in L!Nodes
  BY <1>1, <1>3
<1>5. h.next[temp] = at(p + 1) /\ h.previous[temp] = at(p - 1)
  BY <1>2, <1>3, <1>4 DEF Forwards, Backwards
<1>6. L!Unlink(h, temp) = g
  BY DEF L!Unlink
<1> HIDE DEF temp, at
<1>7. g = [next |-> g.next, previous |-> g.previous] /\ g.next = a /\ g.previous = b
  OBVIOUS
<1>8. a \in [L!Nodes -> Items \cup {NULL}] /\ b \in [L!Nodes -> L!Nodes \cup {NULL}]
  BY <1>1, <1>2, <1>4, <1>5
<1>9. \A n \in L!Nodes :
        n # s[p] => a[n] = IF n = at(p - 1) THEN at(p + 1) ELSE h.next[n]
  BY <1>2, <1>4, <1>5
<1>10. \A n \in L!Nodes :
         n # s[p] => b[n] = IF n = at(p + 1) THEN at(p - 1) ELSE h.previous[n]
  BY <1>2, <1>4, <1>5
<1>11. r \in Seq(Items) /\ Removed(s, p, r)
  BY <1>1, <1>3, Removals
<1> HIDE DEF a, b, g, r, s
<1>12. Taken(h, g, l, s, p)
  BY <1>7, <1>8, <1>9, <1>10 DEF Taken, Typed, at
<1>13. ListsAre(g, [c EXCEPT ![l] = r])
  BY <1>3, <1>11, <1>12, TakenOut DEF s
<1>14. QED
  BY <1>6, <1>13 DEF r, s, temp

\* erase of the item at a position
LEMMA ErasePosIs ==
  ASSUME NEW h, NEW c, ListsAre(h, c), NEW l \in Lists, NEW pos \in Nat
  PROVE  ListsAre(L!ErasePos(h, l, pos),
                  [c EXCEPT ![l] = IF pos < Len(c[l]) THEN RemoveAt(c[l], pos + 1) ELSE c[l]])
<1> DEFINE s == c[l]
<1>1. s \in Seq(Items) /\ c \in [Lists -> Seq(Items)] /\ Len(s) \in Nat /\ (s = <<>> <=> Len(s) = 0)
  BY DEF ListsAre
<1>2. L!Size(h, l) = Len(s) /\ L!At(h, l, pos) = IF pos < Len(s) THEN s[pos + 1] ELSE NULL
  BY ReadsAre
<1>3. CASE pos = 0 /\ s # <<>>
  <2>1. L!ErasePos(h, l, pos) = L!PopFront(h, l)
    BY <1>3 DEF L!ErasePos
  <2>2. Tail(s) = RemoveAt(s, pos + 1)
    <3>1. 1 \in 1 .. Len(s) /\ pos + 1 = 1
      BY <1>1, <1>3
    <3>2. /\ Tail(s) \in Seq(Items) /\ Removed(s, 1, Tail(s))
          /\ RemoveAt(s, 1) \in Seq(Items) /\ Removed(s, 1, RemoveAt(s, 1))
      BY <1>1, <1>3, <3>1, Removals
    <3>3. QED
      BY <1>1, <3>1, <3>2, RemovedSame
  <2>3. pos < Len(s)
    BY <1>1, <1>3
  <2>4. ListsAre(L!PopFront(h, l), [c EXCEPT ![l] = IF c[l] = <<>> THEN <<>> ELSE Tail(c[l])])
    BY PopFrontIs
  <2>5. [c EXCEPT ![l] = IF c[l] = <<>> THEN <<>> ELSE Tail(c[l])]
          = [c EXCEPT ![l] = IF pos < Len(c[l]) THEN RemoveAt(c[l], pos + 1) ELSE c[l]]
    BY <1>3, <2>2, <2>3
  <2>6. QED
    BY <2>1, <2>4, <2>5
<1>4. CASE pos > 0 /\ pos < Len(s)
  <2>1. L!ErasePos(h, l, pos) = L!Unlink(h, s[pos + 1])
    BY <1>2, <1>4 DEF L!ErasePos
  <2>2. pos + 1 \in 1 .. Len(s)
    BY <1>1, <1>4
  <2>3. ListsAre(L!Unlink(h, s[pos + 1]), [c EXCEPT ![l] = RemoveAt(s, pos + 1)])
    BY <2>2, UnlinkIs
  <2>4. QED
    BY <1>4, <2>1, <2>3
<1>5. CASE pos >= Len(s)
  <2>1. L!ErasePos(h, l, pos) = h
    <3>1. CASE pos = 0
      <4>1. L!PopFront(h, l) = h
        <5>1. h.next[l] = NULL
          BY <1>1, <1>5, <3>1, ReadsAre
        <5>2. QED
          BY <5>1 DEF L!PopFront
      <4>2. QED
        BY <3>1, <4>1 DEF L!ErasePos
    <3>2. CASE pos > 0
      BY <1>1, <1>2, <1>5, <3>2 DEF L!ErasePos
    <3>3. QED
      BY <3>1, <3>2
  <2>2. [c EXCEPT ![l] = IF pos < Len(c[l]) THEN RemoveAt(c[l], pos + 1) ELSE c[l]] = c
    BY <1>1, <1>5
  <2>3. QED
    BY <2>1, <2>2
<1>6. QED
  BY <1>1, <1>3, <1>4, <1>5

\* erase of an item
LEMMA EraseItemIs ==
  ASSUME NEW h, NEW c, ListsAre(h, c), NEW l \in Lists, NEW x \in Items
  PROVE  ListsAre(L!EraseItem(h, l, x), [c EXCEPT ![l] = RemoveFirst(c[l], x)])
<1>1. /\ c[l] \in Seq(Items) /\ IsInjective(c[l]) /\ c \in [Lists -> Seq(Items)]
      /\ L!Find(h, l, x) = -1 <=> x \notin ToSet(c[l])
  BY ReadsAre DEF ListsAre
<1>2. CASE x \notin ToSet(c[l])
  <2>1. RemoveFirst(c[l], x) = c[l]
    BY <1>1, <1>2 DEF RemoveFirst, ToSet
  <2>2. [c EXCEPT ![l] = RemoveFirst(c[l], x)] = c
    BY <1>1, <2>1
  <2>3. QED
    BY <1>1, <1>2, <2>2 DEF L!EraseItem
<1>3. CASE x \in ToSet(c[l])
  <2>1. PICK p \in 1 .. Len(c[l]) : c[l][p] = x
    BY <1>1, <1>3 DEF ToSet
  <2>2. RemoveFirst(c[l], x) = RemoveAt(c[l], p)
    BY <1>1, <2>1, RemoveFirstAt
  <2>3. L!EraseItem(h, l, x) = L!Unlink(h, c[l][p])
    BY <1>1, <1>3, <2>1 DEF L!EraseItem
  <2>4. QED
    BY <2>2, <2>3, UnlinkIs
<1>4. QED
  BY <1>2, <1>3

-----------------------------------------------------------------------------
\* The free items are those on no list.
LEMMA FreeIs == ASSUME IInv, NEW x \in Items PROVE x \in Free <=> Off(content, x)
<1>1. \A l \in Lists : l \in OnLists(x) <=> x \in ToSet(content[l])
  BY DEF OnLists, ToSet
<1>2. QED
  BY <1>1 DEF Free, Off, OnLists

\* A step that leaves the lists c.
LEMMA Arrives ==
  ASSUME NEW c, ListsAre(links', c)
  PROVE  content' = c /\ IInv'
<1>1. \A l \in Lists : L!Contents(links', l) = c[l]
  BY ContentsAre
<1>2. c \in [Lists -> Seq(Items)]
  BY DEF ListsAre
<1>3. content' = c
  BY <1>1, <1>2 DEF content
<1>4. QED
  BY <1>3 DEF IInv

\* Initially the lists are empty.
LEMMA InitLists == Init => IInv /\ content = [l \in Lists |-> <<>>]
<1> SUFFICES ASSUME Init PROVE IInv /\ content = [l \in Lists |-> <<>>]
  OBVIOUS
<1> DEFINE c == [l \in Lists |-> <<>>]
<1>1. links = [next |-> [n \in L!Nodes |-> NULL], previous |-> [n \in L!Nodes |-> NULL]]
  BY DEF Init, L!EmptyLinks
<1>2. Typed(links) /\ \A n \in L!Nodes : links.next[n] = NULL /\ links.previous[n] = NULL
  BY <1>1 DEF Typed
<1>3. \A l \in Lists : l \in L!Nodes
  BY DEF L!Nodes
<1>4. ASSUME NEW l \in Lists
      PROVE  /\ IsInjective(c[l])
             /\ Forwards(links.next, l, c[l], NULL)
             /\ Backwards(links.previous, l, c[l], NULL)
             /\ links.previous[l] = NULL
  <2>1. c[l] = <<>> /\ Len(<<>>) = 0
    OBVIOUS
  <2>2. links.next[l] = NULL /\ links.previous[l] = NULL
    BY <1>2, <1>3
  <2>3. Forwards(links.next, l, <<>>, NULL)
    BY <2>1, <2>2 DEF Forwards, Place
  <2>4. Backwards(links.previous, l, <<>>, NULL) /\ IsInjective(<<>>)
    BY <2>1 DEF Backwards, IsInjective
  <2>5. QED
    BY <2>1, <2>2, <2>3, <2>4
<1>5. c \in [Lists -> Seq(Items)] /\ \A l \in Lists : ToSet(c[l]) = {}
  BY DEF ToSet
<1>6. ListsAre(links, c)
  BY <1>2, <1>4, <1>5 DEF ListsAre
<1>7. \A l \in Lists : L!Contents(links, l) = c[l]
  BY <1>6, ContentsAre
<1>8. content = c
  BY <1>7 DEF content
<1>9. QED
  BY <1>6, <1>8 DEF IInv

\* The operators on sequences of ListSpec are those of this module.
LEMMA SameSequences ==
  ASSUME NEW s, NEW i, NEW x
  PROVE  /\ AbstractLists!ToSet(s) = ToSet(s)
         /\ AbstractLists!Front(s) = Front(s)
         /\ AbstractLists!InsertAt(s, i, x) = InsertAt(s, i, x)
         /\ AbstractLists!RemoveAt(s, i) = RemoveAt(s, i)
         /\ AbstractLists!RemoveFirst(s, x) = RemoveFirst(s, x)
<1>1. AbstractLists!ToSet(s) = ToSet(s) /\ AbstractLists!Front(s) = Front(s)
  BY DEF AbstractLists!ToSet, ToSet, AbstractLists!Front, Front
<1>2. /\ AbstractLists!InsertAt(s, i, x) = InsertAt(s, i, x)
      /\ AbstractLists!RemoveAt(s, i) = RemoveAt(s, i)
  BY DEF AbstractLists!InsertAt, InsertAt, AbstractLists!RemoveAt, RemoveAt
<1>3. AbstractLists!RemoveFirst(s, x) = RemoveFirst(s, x)
  BY DEF AbstractLists!RemoveFirst, RemoveFirst, AbstractLists!RemoveAt, RemoveAt,
         AbstractLists!SelectInSeq, SelectInSeq, AbstractLists!Min, Min
<1>4. QED
  BY <1>1, <1>2, <1>3

\* Every operation does to the contents of the lists what ListSpec says.
LEMMA NextLists == IInv /\ Next => IInv' /\ AbstractLists!SpecNext
<1> SUFFICES ASSUME IInv, Next PROVE IInv' /\ AbstractLists!SpecNext
  OBVIOUS
<1>1. ListsAre(links, content)
  BY DEF IInv
<1>2. AbstractLists!Free = Free
  <2>1. \A x \in Items : x \in Free <=> x \in AbstractLists!Free
    BY FreeIs, SameSequences DEF AbstractLists!Free, Off
  <2>2. QED
    BY <2>1 DEF Free, AbstractLists!Free
<1>3. PICK l \in Lists :
        \/ PopBack(l) \/ PopFront(l)
        \/ \E pos \in 0 .. MaxPos : ErasePos(l, pos)
        \/ \E x \in Items :
             \/ PushBack(l, x) \/ PushFront(l, x) \/ EraseItem(l, x)
             \/ \E pos \in 0 .. MaxPos : Insert(l, pos, x)
  BY DEF Next
<1>4. CASE PopBack(l)
  <2>1. ListsAre(links', [content EXCEPT ![l] = IF content[l] = <<>> THEN <<>>
                                                ELSE Front(content[l])])
    BY <1>1, <1>4, PopBackIs DEF PopBack, Call
  <2>2. IInv' /\ AbstractLists!SpecPopBack(l)
    BY <1>4, <2>1, Arrives, SameSequences
      DEF PopBack, Call, AbstractLists!SpecPopBack, AbstractLists!SpecCall
  <2>3. QED
    BY <2>2 DEF AbstractLists!SpecNext
<1>5. CASE PopFront(l)
  <2>1. ListsAre(links', [content EXCEPT ![l] = IF content[l] = <<>> THEN <<>>
                                                ELSE Tail(content[l])])
    BY <1>1, <1>5, PopFrontIs DEF PopFront, Call
  <2>2. IInv' /\ AbstractLists!SpecPopFront(l)
    BY <1>5, <2>1, Arrives, SameSequences
      DEF PopFront, Call, AbstractLists!SpecPopFront, AbstractLists!SpecCall
  <2>3. QED
    BY <2>2 DEF AbstractLists!SpecNext
<1>6. ASSUME NEW pos \in 0 .. MaxPos, ErasePos(l, pos)
      PROVE  IInv' /\ AbstractLists!SpecNext
  <2>1. ListsAre(links', [content EXCEPT ![l] = IF pos < Len(content[l])
                                                THEN RemoveAt(content[l], pos + 1)
                                                ELSE content[l]])
    <3>1. pos \in Nat
      BY ListAssumption
    <3>2. QED
      BY <1>1, <1>6, <3>1, ErasePosIs DEF ErasePos, Call
  <2>2. IInv' /\ AbstractLists!SpecErasePos(l, pos)
    BY <1>6, <2>1, Arrives, SameSequences
      DEF ErasePos, Call, AbstractLists!SpecErasePos, AbstractLists!SpecCall
  <2>3. QED
    BY <2>2 DEF AbstractLists!SpecNext
<1>7. ASSUME NEW x \in Items, PushBack(l, x)
      PROVE  IInv' /\ AbstractLists!SpecNext
  <2>1. x \in Free /\ Off(content, x)
    BY <1>7, FreeIs DEF PushBack
  <2>2. ListsAre(links', [content EXCEPT ![l] = Append(content[l], x)])
    BY <1>1, <1>7, <2>1, PushBackIs DEF PushBack, Call
  <2>3. IInv' /\ AbstractLists!SpecPushBack(l, x)
    BY <1>2, <1>7, <2>1, <2>2, Arrives, SameSequences
      DEF PushBack, Call, AbstractLists!SpecPushBack, AbstractLists!SpecCall
  <2>4. QED
    BY <2>3 DEF AbstractLists!SpecNext
<1>8. ASSUME NEW x \in Items, PushFront(l, x)
      PROVE  IInv' /\ AbstractLists!SpecNext
  <2>1. x \in Free /\ Off(content, x)
    BY <1>8, FreeIs DEF PushFront
  <2>2. ListsAre(links', [content EXCEPT ![l] = <<x>> \o content[l]])
    BY <1>1, <1>8, <2>1, PushFrontIs DEF PushFront, Call
  <2>3. IInv' /\ AbstractLists!SpecPushFront(l, x)
    BY <1>2, <1>8, <2>1, <2>2, Arrives, SameSequences
      DEF PushFront, Call, AbstractLists!SpecPushFront, AbstractLists!SpecCall
  <2>4. QED
    BY <2>3 DEF AbstractLists!SpecNext
<1>9. ASSUME NEW x \in Items, EraseItem(l, x)
      PROVE  IInv' /\ AbstractLists!SpecNext
  <2>1. ListsAre(links', [content EXCEPT ![l] = RemoveFirst(content[l], x)])
    BY <1>1, <1>9, EraseItemIs DEF EraseItem, Call
  <2>2. IInv' /\ AbstractLists!SpecEraseItem(l, x)
    BY <1>9, <2>1, Arrives, SameSequences
      DEF EraseItem, Call, AbstractLists!SpecEraseItem, AbstractLists!SpecCall
  <2>3. QED
    BY <2>2 DEF AbstractLists!SpecNext
<1>10. ASSUME NEW x \in Items, NEW pos \in 0 .. MaxPos, Insert(l, pos, x)
       PROVE  IInv' /\ AbstractLists!SpecNext
  <2>1. x \in Free /\ Off(content, x)
    BY <1>10, FreeIs DEF Insert
  <2>2. ListsAre(links', [content EXCEPT ![l] = IF pos <= Len(content[l])
                                                THEN InsertAt(content[l], pos + 1, x)
                                                ELSE content[l]])
    <3>1. pos \in Nat
      BY ListAssumption
    <3>2. QED
      BY <1>1, <1>10, <2>1, <3>1, InsertIs DEF Insert, Call
  <2>3. IInv' /\ AbstractLists!SpecInsert(l, pos, x)
    BY <1>2, <1>10, <2>1, <2>2, Arrives, SameSequences
      DEF Insert, Call, AbstractLists!SpecInsert, AbstractLists!SpecCall
  <2>4. QED
    BY <2>3 DEF AbstractLists!SpecNext
<1>11. QED
  BY <1>3, <1>4, <1>5, <1>6, <1>7, <1>8, <1>9, <1>10

\* Links and contents are always what the invariant says.
THEOREM InvariantTheorem == Spec => []IInv
<1>1. Init => IInv
  BY InitLists
<1>2. IInv /\ [Next]_vars => IInv'
  <2>1. IInv /\ UNCHANGED vars => IInv'
    BY DEF IInv, vars, content
  <2>2. QED
    BY <2>1, NextLists
<1>3. QED
  BY <1>1, <1>2, PTL DEF Spec

\* The loops of list.cpp end, and previous mirrors next, for any number of items and lists
\* (list.cpp:46-161).
THEOREM MirroredTheorem == Spec => []Mirrored
<1>1. IInv => Mirrored
  <2> SUFFICES ASSUME IInv PROVE Mirrored
    OBVIOUS
  <2>1. ASSUME NEW l \in Lists
        PROVE  /\ L!Terminates(links, l)
               /\ links.previous[l] = NULL
               /\ \A i \in DOMAIN content[l] :
                    links.previous[content[l][i]] = IF i = 1 THEN l ELSE content[l][i - 1]
    <3>1. ListsAre(links, content)
      BY DEF IInv
    <3> DEFINE s == content[l]
    <3> HIDE DEF s
    <3>2. L!Terminates(links, l) /\ links.previous[l] = NULL
      BY <3>1, ContentsAre DEF ListsAre
    <3>3. s \in Seq(Items) /\ Backwards(links.previous, l, s, NULL)
      BY <3>1 DEF ListsAre, s
    <3>4. ASSUME NEW i \in DOMAIN s
          PROVE  links.previous[s[i]] = IF i = 1 THEN l ELSE s[i - 1]
      <4>1. i \in 1 .. Len(s) /\ i \in Nat /\ i # 0
        BY <3>3
      <4>2. links.previous[Place(s, l, NULL, i)] = Place(s, l, NULL, i - 1)
        BY <3>3, <4>1 DEF Backwards
      <4>3. Place(s, l, NULL, i) = s[i]
        BY <4>1 DEF Place
      <4>4. Place(s, l, NULL, i - 1) = IF i = 1 THEN l ELSE s[i - 1]
        BY <3>3, <4>1 DEF Place
      <4>5. QED
        BY <4>2, <4>3, <4>4
    <3>5. QED
      BY <3>2, <3>4 DEF s
  <2>2. QED
    BY <2>1 DEF Mirrored
<1>2. QED
  BY <1>1, InvariantTheorem, PTL

\* push_back of an item that is still on the list cuts off what followed it, and changes
\* no other list (list.cpp:46-54).
THEOREM PushedTwiceTheorem == Spec => []PushedTwice
<1>1. IInv => PushedTwice
  <2> SUFFICES ASSUME IInv, NEW l \in Lists, NEW i \in DOMAIN content[l]
               PROVE  LET h == L!PushBack(links, l, content[l][i])
                      IN  /\ L!Contents(h, l) = SubSeq(content[l], 1, i)
                          /\ \A m \in Lists \ {l} : L!Contents(h, m) = content[m]
    BY DEF PushedTwice
  <2> DEFINE s == content[l]
             x == s[i]
             temp == IF L!Back(links, l) = NULL THEN l ELSE L!Back(links, l)
             a == [links.next EXCEPT ![temp] = x, ![x] = NULL]
             h == L!PushBack(links, l, x)
             r == SubSeq(s, 1, i)
             at(j) == Place(s, l, NULL, j)
  <2>1. ListsAre(links, content)
    BY DEF IInv
  <2>2. /\ s \in Seq(Items) /\ Len(s) \in Nat /\ NULL \notin L!Nodes
        /\ Items \subseteq L!Nodes
        /\ \A j \in 1 .. Len(s) : at(j) = s[j] /\ s[j] \in Items /\ s[j] \in ToSet(s)
        /\ \A j \in 0 .. Len(s) : at(j) \in L!Nodes
        /\ \A j, k \in 0 .. Len(s) + 1 : at(j) = at(k) => j = k
    BY <2>1, NodesDiffer
  <2>3. /\ links.next \in [L!Nodes -> Items \cup {NULL}] /\ IsInjective(s)
        /\ Forwards(links.next, l, s, NULL)
    BY <2>1 DEF ListsAre, Typed
  <2>4. i \in 1 .. Len(s) /\ Len(s) \in 1 .. Len(s) /\ s # <<>>
    BY <2>2
  <2>5. temp = s[Len(s)] /\ temp \in Items /\ temp # NULL
    <3>1. L!Back(links, l) = IF s = <<>> THEN NULL ELSE s[Len(s)]
      BY <2>1, BackIs
    <3>2. QED
      BY <2>2, <2>4, <3>1
  <2>6. h.next = a
    BY DEF L!PushBack
  <2> HIDE DEF h, temp
  <2>7. \A n \in L!Nodes : a[n] = IF n = x THEN NULL ELSE IF n = temp THEN x ELSE links.next[n]
    BY <2>2, <2>3, <2>4, <2>5
  <2>8. /\ r \in Seq(Items) /\ Len(r) = i /\ \A j \in 1 .. i : r[j] = s[j]
    BY <2>2, <2>4, SubSeqProperties
  <2> HIDE DEF a, r
  <2>9. L!Contents(h, l) = r
    <3>1. IsInjective(r)
      BY <2>2, <2>3, <2>4, <2>8 DEF IsInjective
    <3>2. \A j \in 0 .. i : Place(r, l, NULL, j) = at(j)
      BY <2>2, <2>4, <2>8 DEF Place
    <3>3. ASSUME NEW j \in 0 .. Len(r)
          PROVE  h.next[Place(r, l, NULL, j)] = Place(r, l, NULL, j + 1)
      <4>1. j \in 0 .. i /\ j \in 0 .. Len(s) /\ j \in 0 .. Len(s) + 1 /\ i \in 0 .. Len(s) + 1
            /\ Len(s) \in 0 .. Len(s) + 1
        BY <2>2, <2>4, <2>8
      <4>2. CASE j = i
        <5>1. Place(r, l, NULL, j) = x /\ Place(r, l, NULL, j + 1) = NULL
          BY <2>4, <2>8, <4>2 DEF Place
        <5>2. x \in L!Nodes
          BY <2>2, <2>4
        <5>3. QED
          BY <2>6, <2>7, <5>1, <5>2
      <4>3. CASE j < i
        <5>1. j + 1 \in 0 .. i
          BY <2>4, <4>1, <4>3
        <5>2. Place(r, l, NULL, j) = at(j) /\ Place(r, l, NULL, j + 1) = at(j + 1)
          BY <3>2, <4>1, <5>1
        <5>3. x = at(i) /\ temp = at(Len(s)) /\ j # i /\ j # Len(s)
          BY <2>2, <2>4, <2>5, <4>1, <4>3
        <5>4. at(j) # x /\ at(j) # temp /\ at(j) \in L!Nodes
          BY <2>2, <4>1, <5>3
        <5>5. links.next[at(j)] = at(j + 1)
          BY <2>3, <4>1 DEF Forwards
        <5>6. QED
          BY <2>6, <2>7, <5>2, <5>4, <5>5
      <4>4. QED
        BY <2>4, <4>1, <4>2, <4>3
    <3>4. Forwards(h.next, l, r, NULL)
      BY <3>3 DEF Forwards
    <3>5. QED
      BY <2>8, <3>1, <3>4, Visited
  <2>10. ASSUME NEW m \in Lists \ {l} PROVE L!Contents(h, m) = content[m]
    <3> DEFINE t == content[m]
               to(j) == Place(t, m, NULL, j)
    <3>1. /\ t \in Seq(Items) /\ IsInjective(t) /\ Forwards(links.next, m, t, NULL)
      BY <2>1 DEF ListsAre
    <3>2. \A j \in 0 .. Len(t) : to(j) \in L!Nodes
      BY <2>1, NodesDiffer
    <3>3. \A k \in 0 .. Len(s) : \A j \in 0 .. Len(t) : at(k) # to(j)
      BY <2>1, NodesDiffer
    <3>4. \A j \in 0 .. Len(t) : to(j) # x /\ to(j) # temp
      <4> TAKE j \in 0 .. Len(t)
      <4>1. i \in 0 .. Len(s) /\ Len(s) \in 0 .. Len(s) /\ x = at(i) /\ temp = at(Len(s))
        BY <2>2, <2>4, <2>5
      <4>2. QED
        BY <3>3, <4>1
    <3>5. Forwards(h.next, m, t, NULL)
      BY <2>6, <2>7, <3>1, <3>2, <3>4 DEF Forwards
    <3>6. QED
      BY <3>1, <3>5, Visited
  <2>11. QED
    BY <2>9, <2>10 DEF h, r
<1>2. QED
  BY <1>1, InvariantTheorem, PTL

\* The lists behave as sequences of items, whatever operations are called in whatever
\* order (list.h): the linked lists implement ListSpec.
THEOREM ImplementsTheorem == Spec => ImplementsListSpec
<1>1. Init => AbstractLists!SpecInit
  BY InitLists DEF Init, AbstractLists!SpecInit
<1>2. IInv /\ [Next]_vars => [AbstractLists!SpecNext]_(AbstractLists!specVars)
  <2>1. UNCHANGED vars => UNCHANGED AbstractLists!specVars
    BY DEF vars, AbstractLists!specVars, content
  <2>2. QED
    BY <2>1, NextLists
<1>3. QED
  BY <1>1, <1>2, InvariantTheorem, PTL
    DEF Spec, ImplementsListSpec, AbstractLists!ListsOfItems
===============================================================================
