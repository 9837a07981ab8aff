---------------------------- MODULE QueueTheorems ----------------------------
(***************************************************************************)
(* What the operations the kernel applies to its lists of PCBs do to a     *)
(* list without duplicates: push_back appends one element, pop_front       *)
(* removes the first one, and erase removes one wherever it is.  That a    *)
(* set of numbers has a least element, by which a proof looks at the first *)
(* of several steps that goes wrong.  And how a list is held by links: the *)
(* loop that reads it, and what the links are once an item is put behind a *)
(* place of it or taken out.                                               *)
(***************************************************************************)
EXTENDS Integers, SequencesExt, SequenceTheorems, FiniteSetTheorems, FunctionTheorems,
        WellFoundedInduction, TLAPS

\* A sequence r that has x behind the first p elements of s, and the others.
Inserted(s, p, x, r) ==
  /\ Len(r) = Len(s) + 1
  /\ \A i \in 1 .. Len(r) : r[i] = IF i <= p THEN s[i] ELSE IF i = p + 1 THEN x ELSE s[i - 1]

\* There is one such sequence.
LEMMA InsertedSame ==
  ASSUME NEW S, NEW s \in Seq(S), NEW x \in S, NEW p \in 0 .. Len(s),
         NEW q \in Seq(S), Inserted(s, p, x, q), NEW r \in Seq(S), Inserted(s, p, x, r)
  PROVE  q = r
<1>1. Len(q) = Len(r) /\ \A i \in 1 .. Len(q) : q[i] = r[i]
  BY DEF Inserted
<1>2. QED
  BY <1>1, SeqEqual

\* Insertion of an item x that is not on the list.
LEMMA InsertedOnce ==
  ASSUME NEW S, NEW s \in Seq(S), IsInjective(s), NEW x \in S, x \notin ToSet(s),
         NEW p \in 0 .. Len(s), NEW r \in Seq(S), Inserted(s, p, x, r)
  PROVE  IsInjective(r) /\ ToSet(r) = ToSet(s) \cup {x}
<1>1. /\ Len(s) \in Nat /\ p \in Nat /\ p <= Len(s)
      /\ \A i \in 1 .. Len(s) : s[i] # x
      /\ \A i, j \in 1 .. Len(s) : s[i] = s[j] => i = j
  BY DEF IsInjective, ToSet
<1>2. /\ Len(r) = Len(s) + 1
      /\ \A i \in 1 .. Len(s) + 1 :
           r[i] = IF i <= p THEN s[i] ELSE IF i = p + 1 THEN x ELSE s[i - 1]
  BY DEF Inserted
<1>3. IsInjective(r)
  <2>1. DOMAIN r = 1 .. Len(s) + 1
    BY <1>2
  <2>2. ASSUME NEW i \in 1 .. Len(s) + 1, NEW j \in 1 .. Len(s) + 1, i < j, r[i] = r[j]
        PROVE  FALSE
    <3>1. CASE j <= p
      BY <1>1, <1>2, <2>2, <3>1
    <3>2. CASE j = p + 1
      BY <1>1, <1>2, <2>2, <3>2
    <3>3. CASE j > p + 1
      <4>1. r[j] = s[j - 1] /\ j - 1 \in 1 .. Len(s)
        BY <1>1, <1>2, <2>2, <3>3
      <4>2. i <= p => r[i] = s[i] /\ i \in 1 .. Len(s)
        BY <1>1, <1>2, <2>2
      <4>3. i > p + 1 => r[i] = s[i - 1] /\ i - 1 \in 1 .. Len(s)
        BY <1>1, <1>2, <2>2
      <4>4. i = p + 1 => r[i] = x
        BY <1>2, <2>2
      <4>5. QED
        BY <1>1, <2>2, <3>3, <4>1, <4>2, <4>3, <4>4
    <3>4. QED
      BY <1>1, <3>1, <3>2, <3>3
  <2>3. QED
    BY <1>1, <2>1, <2>2 DEF IsInjective
<1>4. ToSet(r) \subseteq ToSet(s) \cup {x}
  <2>1. DOMAIN r = 1 .. Len(s) + 1 /\ \A i \in 1 .. Len(s) : s[i] \in ToSet(s)
    BY <1>1, <1>2 DEF ToSet
  <2>2. \A i \in 1 .. Len(s) + 1 : r[i] \in ToSet(s) \cup {x}
    <3> TAKE i \in 1 .. Len(s) + 1
    <3>1. i \in 1 .. Len(s) \/ i = p + 1 \/ (i > p + 1 /\ i - 1 \in 1 .. Len(s))
      BY <1>1
    <3>2. CASE i \in 1 .. Len(s)
      <4>1. r[i] = s[i] \/ r[i] = x \/ (r[i] = s[i - 1] /\ i - 1 \in 1 .. Len(s))
        BY <1>1, <1>2, <3>2
      <4>2. QED
        BY <2>1, <3>2, <4>1
    <3>3. CASE i = p + 1
      BY <1>1, <1>2, <3>3
    <3>4. CASE i > p + 1 /\ i - 1 \in 1 .. Len(s)
      <4>1. r[i] = s[i - 1]
        BY <1>1, <1>2, <3>4
      <4>2. QED
        BY <2>1, <3>4, <4>1
    <3>5. QED
      BY <3>1, <3>2, <3>3, <3>4
  <2>3. QED
    BY <2>1, <2>2 DEF ToSet
<1>5. ASSUME NEW y \in ToSet(s)
      PROVE  y \in ToSet(r)
  <2>1. PICK i \in 1 .. Len(s) : s[i] = y
    BY DEF ToSet
  <2>2. CASE i <= p
    <3>1. r[i] = y /\ i \in 1 .. Len(r)
      BY <1>1, <1>2, <2>1, <2>2
    <3>2. QED
      BY <3>1 DEF ToSet
  <2>3. CASE i > p
    <3>1. r[i + 1] = y /\ i + 1 \in 1 .. Len(r)
      BY <1>1, <1>2, <2>1, <2>3
    <3>2. QED
      BY <3>1 DEF ToSet
  <2>4. QED
    BY <1>1, <2>1, <2>2, <2>3
<1>6. x \in ToSet(r)
  <2>1. r[p + 1] = x /\ p + 1 \in 1 .. Len(r)
    BY <1>1, <1>2
  <2>2. QED
    BY <2>1 DEF ToSet
<1>7. QED
  BY <1>3, <1>4, <1>5, <1>6

\* push_back, push_front and insert put an item into a list.
LEMMA Insertions ==
  ASSUME NEW S, NEW s \in Seq(S), NEW x \in S
  PROVE  /\ Append(s, x) \in Seq(S) /\ Inserted(s, Len(s), x, Append(s, x))
         /\ <<x>> \o s \in Seq(S) /\ Inserted(s, 0, x, <<x>> \o s)
         /\ \A p \in 0 .. Len(s) :
              InsertAt(s, p + 1, x) \in Seq(S) /\ Inserted(s, p, x, InsertAt(s, p + 1, x))
<1>1. Append(s, x) \in Seq(S) /\ Inserted(s, Len(s), x, Append(s, x))
  BY AppendProperties DEF Inserted
<1>2. <<x>> \in Seq(S) /\ Len(<<x>>) = 1 /\ <<x>>[1] = x /\ Len(s) \in Nat
  OBVIOUS
<1>3. <<x>> \o s \in Seq(S) /\ Inserted(s, 0, x, <<x>> \o s)
  <2>1. /\ <<x>> \o s \in Seq(S)
        /\ Len(<<x>> \o s) = 1 + Len(s)
        /\ \A i \in 1 .. 1 + Len(s) : (<<x>> \o s)[i] = IF i <= 1 THEN x ELSE s[i - 1]
    <3>1. /\ <<x>> \o s \in Seq(S)
          /\ Len(<<x>> \o s) = Len(<<x>>) + Len(s)
          /\ \A i \in 1 .. Len(<<x>>) + Len(s) : (<<x>> \o s)[i] =
                      IF i <= Len(<<x>>) THEN <<x>>[i] ELSE s[i - Len(<<x>>)]
      BY <1>2, ConcatProperties
    <3>2. QED
      BY <1>2, <3>1
  <2>2. QED
    BY <1>2, <2>1 DEF Inserted
<1>4. ASSUME NEW p \in 0 .. Len(s)
      PROVE  InsertAt(s, p + 1, x) \in Seq(S) /\ Inserted(s, p, x, InsertAt(s, p + 1, x))
  <2> DEFINE a == SubSeq(s, 1, p)
             b == SubSeq(s, p + 1, Len(s))
             d == a \o <<x>>
  <2>1. a \in Seq(S) /\ Len(a) = p /\ \A i \in 1 .. p : a[i] = s[i]
    BY <1>2, SubSeqProperties
  <2>2. b \in Seq(S) /\ Len(b) = Len(s) - p /\ \A i \in 1 .. (Len(s) - p) : b[i] = s[p + i]
    BY <1>2, SubSeqProperties
  <2>3. (p + 1) - 1 = p
    OBVIOUS
  <2>4. InsertAt(s, p + 1, x) = d \o b
    BY <2>3 DEF InsertAt
  <2> HIDE DEF a, b
  <2>5. d \in Seq(S) /\ Len(d) = p + 1 /\ \A i \in 1 .. p + 1 : d[i] = IF i <= p THEN s[i] ELSE x
    <3>1. /\ a \o <<x>> \in Seq(S)
          /\ Len(a \o <<x>>) = Len(a) + Len(<<x>>)
          /\ \A i \in 1 .. Len(a) + Len(<<x>>) : (a \o <<x>>)[i] =
                      IF i <= Len(a) THEN a[i] ELSE <<x>>[i - Len(a)]
      BY <1>2, <2>1, ConcatProperties
    <3>2. QED
      BY <1>2, <2>1, <3>1
  <2> HIDE DEF d
  <2>6. /\ d \o b \in Seq(S) /\ Len(d \o b) = Len(d) + Len(b)
        /\ \A i \in 1 .. Len(d) + Len(b) :
             (d \o b)[i] = IF i <= Len(d) THEN d[i] ELSE b[i - Len(d)]
    BY <2>2, <2>5, ConcatProperties
  <2>7. Len(d) + Len(b) = Len(s) + 1
    BY <1>2, <2>2, <2>5
  <2>8. ASSUME NEW i \in 1 .. Len(s) + 1
        PROVE  (d \o b)[i] = IF i <= p THEN s[i] ELSE IF i = p + 1 THEN x ELSE s[i - 1]
    <3>1. CASE i <= p + 1
      BY <1>2, <2>5, <2>6, <2>7, <3>1
    <3>2. CASE i > p + 1
      <4> DEFINE j == i - (p + 1)
      <4>1. p \in Int /\ i \in Int /\ i <= Len(s) + 1 /\ Len(s) \in Nat /\ i > p + 1
        BY <1>2, <3>2
      <4>2. /\ j \in 1 .. (Len(s) - p) /\ p + j = i - 1
            /\ ~(i <= p) /\ ~(i = p + 1)
        BY <4>1
      <4>3. (d \o b)[i] = b[j]
        BY <2>5, <2>6, <2>7, <4>1
      <4> HIDE DEF j
      <4>4. QED
        BY <2>2, <4>2, <4>3
    <3>3. i <= p + 1 \/ i > p + 1
      OBVIOUS
    <3>4. QED
      BY <3>1, <3>2, <3>3
  <2>9. Inserted(s, p, x, d \o b)
    BY <2>6, <2>7, <2>8 DEF Inserted
  <2>10. QED
    BY <2>4, <2>6, <2>9
<1>5. QED
  BY <1>1, <1>3, <1>4

\* A sequence r that has the items of s but the one at place p.
Removed(s, p, r) ==
  /\ Len(r) = Len(s) - 1
  /\ \A i \in 1 .. Len(r) : r[i] = IF i < p THEN s[i] ELSE s[i + 1]

\* There is one such sequence.
LEMMA RemovedSame ==
  ASSUME NEW S, NEW s \in Seq(S), NEW p \in 1 .. Len(s),
         NEW q \in Seq(S), Removed(s, p, q), NEW r \in Seq(S), Removed(s, p, r)
  PROVE  q = r
<1>1. Len(q) = Len(r) /\ \A i \in 1 .. Len(q) : q[i] = r[i]
  BY DEF Removed
<1>2. QED
  BY <1>1, SeqEqual

\* Removal of the item at a place.
LEMMA RemovedOnce ==
  ASSUME NEW S, NEW s \in Seq(S), IsInjective(s), NEW p \in 1 .. Len(s), NEW r \in Seq(S),
         Removed(s, p, r)
  PROVE  IsInjective(r) /\ ToSet(r) = ToSet(s) \ {s[p]}
<1>1. /\ Len(s) \in Nat /\ Len(r) = Len(s) - 1
      /\ \A i \in 1 .. Len(r) : r[i] = IF i < p THEN s[i] ELSE s[i + 1]
      /\ \A i, j \in 1 .. Len(s) : s[i] = s[j] => i = j
  BY DEF Removed, IsInjective
<1>2. IsInjective(r)
  BY <1>1 DEF IsInjective
<1>3. ToSet(r) \subseteq ToSet(s) \ {s[p]}
  BY <1>1 DEF ToSet
<1>4. ASSUME NEW x \in ToSet(s) \ {s[p]} PROVE x \in ToSet(r)
  <2>1. PICK i \in 1 .. Len(s) : s[i] = x /\ i # p
    BY <1>1, <1>4 DEF ToSet
  <2>2. CASE i < p
    BY <1>1, <2>1, <2>2 DEF ToSet
  <2>3. CASE i > p
    <3>1. i - 1 \in 1 .. Len(r) /\ r[i - 1] = x
      BY <1>1, <2>1, <2>3
    <3>2. QED
      BY <3>1 DEF ToSet
  <2>4. QED
    BY <2>1, <2>2, <2>3, <1>1
<1>5. QED
  BY <1>2, <1>3, <1>4

\* pop_back, pop_front and erase take an item out of a list.
LEMMA Removals ==
  ASSUME NEW S, NEW s \in Seq(S)
  PROVE  /\ s # <<>> => Front(s) \in Seq(S) /\ Removed(s, Len(s), Front(s))
         /\ s # <<>> => Tail(s) \in Seq(S) /\ Removed(s, 1, Tail(s))
         /\ \A p \in 1 .. Len(s) : RemoveAt(s, p) \in Seq(S) /\ Removed(s, p, RemoveAt(s, p))
<1>1. Len(s) \in Nat /\ (s # <<>> => Len(s) > 0)
  OBVIOUS
<1>2. ASSUME s # <<>> PROVE Front(s) \in Seq(S) /\ Removed(s, Len(s), Front(s))
  <2> DEFINE k == Len(s) - 1
             r == SubSeq(s, 1, k)
  <2>1. k \in Nat /\ k = Len(s) - 1 /\ \A i \in 1 .. k : s[i] \in S
    BY <1>1, <1>2
  <2>2. Front(s) = r
    BY DEF Front
  <2> HIDE DEF k
  <2>3. r \in Seq(S) /\ Len(r) = k /\ \A i \in 1 .. k : r[i] = s[i]
    BY <2>1, SubSeqProperties
  <2> HIDE DEF r
  <2>4. Removed(s, Len(s), r)
    BY <1>1, <2>1, <2>3 DEF Removed
  <2>5. QED
    BY <2>3, <2>2, <2>4
<1>3. ASSUME s # <<>> PROVE Tail(s) \in Seq(S) /\ Removed(s, 1, Tail(s))
  BY <1>1, <1>3, HeadTailProperties DEF Removed
<1>4. ASSUME NEW p \in 1 .. Len(s)
      PROVE  RemoveAt(s, p) \in Seq(S) /\ Removed(s, p, RemoveAt(s, p))
  <2> DEFINE a == SubSeq(s, 1, p - 1)
             b == SubSeq(s, p + 1, Len(s))
  <2>1. a \in Seq(S) /\ Len(a) = p - 1 /\ \A i \in 1 .. (p - 1) : a[i] = s[i]
    BY SubSeqProperties
  <2>2. b \in Seq(S) /\ Len(b) = Len(s) - p /\ \A i \in 1 .. (Len(s) - p) : b[i] = s[p + i]
    BY SubSeqProperties
  <2>3. RemoveAt(s, p) = a \o b
    BY DEF RemoveAt
  <2> HIDE DEF a, b
  <2>4. /\ a \o b \in Seq(S) /\ Len(a \o b) = Len(a) + Len(b)
        /\ \A i \in 1 .. Len(a) + Len(b) :
             (a \o b)[i] = IF i <= Len(a) THEN a[i] ELSE b[i - Len(a)]
    BY <2>1, <2>2, ConcatProperties
  <2>5. Len(a) + Len(b) = Len(s) - 1
    BY <1>1, <2>1, <2>2
  <2>6. ASSUME NEW i \in 1 .. (Len(s) - 1), i >= p PROVE b[i - (p - 1)] = s[i + 1]
    <3>1. i - (p - 1) \in 1 .. (Len(s) - p) /\ p + (i - (p - 1)) = i + 1
      BY <1>1, <2>6
    <3>2. QED
      BY <2>2, <3>1
  <2>7. \A i \in 1 .. (Len(s) - 1) : (a \o b)[i] = IF i < p THEN s[i] ELSE s[i + 1]
    BY <1>1, <2>1, <2>4, <2>5, <2>6
  <2>8. Removed(s, p, a \o b)
    BY <2>4, <2>5, <2>7 DEF Removed
  <2>9. QED
    BY <2>3, <2>4, <2>8
<1>5. QED
  BY <1>2, <1>3, <1>4

\* What erase takes out is at the one place where the item is.
LEMMA RemoveFirstAt ==
  ASSUME NEW S, NEW s \in Seq(S), IsInjective(s), NEW k \in 1 .. Len(s)
  PROVE  RemoveFirst(s, s[k]) = RemoveAt(s, k)
<1>1. {i \in 1 .. Len(s) : s[i] = s[k]} = {k}
  BY DEF IsInjective
<1>2. Min({k}) = k
  BY DEF Min
<1>3. QED
  BY <1>1, <1>2 DEF RemoveFirst, SelectInSeq

\* push_back of an element that is not on the list (list.cpp:46).
LEMMA AppendOnce ==
  ASSUME NEW S, NEW s \in Seq(S), NEW e \in S, IsInjective(s), e \notin ToSet(s)
  PROVE  /\ Append(s, e) \in Seq(S)
         /\ ToSet(Append(s, e)) = ToSet(s) \cup {e}
         /\ IsInjective(Append(s, e))
<1> DEFINE r == Append(s, e)
<1>1. r \in Seq(S) /\ Inserted(s, Len(s), e, r)
  BY Insertions
<1>2. Len(s) \in 0 .. Len(s)
  OBVIOUS
<1> HIDE DEF r
<1>3. ToSet(r) = ToSet(s) \cup {e} /\ IsInjective(r)
  BY <1>1, <1>2, InsertedOnce
<1>4. QED
  BY <1>1, <1>3 DEF r

\* pop_front of a list that is not empty (list.cpp:83).
LEMMA TailOnce ==
  ASSUME NEW S, NEW s \in Seq(S), IsInjective(s), s # <<>>
  PROVE  /\ Head(s) \in S /\ Head(s) \in ToSet(s)
         /\ Tail(s) \in Seq(S)
         /\ ToSet(Tail(s)) = ToSet(s) \ {Head(s)}
         /\ IsInjective(Tail(s))
<1> DEFINE r == Tail(s)
<1>1. r \in Seq(S) /\ Removed(s, 1, r)
  BY Removals
<1>2. 1 \in 1 .. Len(s) /\ Head(s) = s[1] /\ s[1] \in S
  OBVIOUS
<1>3. s[1] \in ToSet(s)
  BY <1>2 DEF ToSet
<1> HIDE DEF r
<1>4. ToSet(r) = ToSet(s) \ {s[1]} /\ IsInjective(r)
  BY <1>1, <1>2, RemovedOnce
<1>5. QED
  BY <1>1, <1>2, <1>3, <1>4 DEF r

\* erase of an element that is on the list (list.cpp:144).
LEMMA RemoveFirstOnce ==
  ASSUME NEW S, NEW s \in Seq(S), NEW e \in ToSet(s), IsInjective(s)
  PROVE  /\ RemoveFirst(s, e) \in Seq(S)
         /\ ToSet(RemoveFirst(s, e)) = ToSet(s) \ {e}
         /\ IsInjective(RemoveFirst(s, e))
<1>1. PICK k \in 1 .. Len(s) : s[k] = e
  BY DEF ToSet
<1>2. RemoveFirst(s, e) = RemoveAt(s, k)
  BY <1>1, RemoveFirstAt
<1>3. RemoveAt(s, k) \in Seq(S) /\ Removed(s, k, RemoveAt(s, k))
  BY Removals
<1>4. QED
  BY <1>1, <1>2, <1>3, RemovedOnce

\* A list is a prefix of whatever continues it.
LEMMA PrefixOf ==
  ASSUME NEW S, NEW s \in Seq(S), NEW t \in Seq(S), Len(s) <= Len(t),
         \A i \in 1 .. Len(s) : t[i] = s[i]
  PROVE  IsPrefix(s, t)
<1>1. /\ SubSeq(s, 1, Len(s)) \in Seq(S) /\ Len(SubSeq(s, 1, Len(s))) = Len(s)
      /\ \A i \in 1 .. Len(s) : SubSeq(s, 1, Len(s))[i] = s[i]
  BY SubSeqProperties
<1>2. /\ SubSeq(t, 1, Len(s)) \in Seq(S) /\ Len(SubSeq(t, 1, Len(s))) = Len(s)
      /\ \A i \in 1 .. Len(s) : SubSeq(t, 1, Len(s))[i] = t[i]
  BY SubSeqProperties
<1> DEFINE a == SubSeq(s, 1, Len(s))
           b == SubSeq(t, 1, Len(s))
<1>3. \A i \in 1 .. Len(s) : a[i] = b[i]
  BY <1>1, <1>2
<1>4. a = b
  BY <1>1, <1>2, <1>3, SeqEqual
<1>5. QED
  BY <1>4 DEF IsPrefix

\* push_back and pop_front in one step rotate a list: the rest keeps its order.
LEMMA Rotation ==
  ASSUME NEW S, NEW s \in Seq(S), NEW e \in S
  PROVE  /\ IsPrefix(s, s)
         /\ IsPrefix(s, Append(s, e))
         /\ s # <<>> => IsPrefix(Tail(s), Tail(Append(s, e)))
<1> DEFINE r == Append(s, e)
<1>1. /\ r \in Seq(S) /\ Len(r) = Len(s) + 1 /\ Len(s) \in Nat
      /\ \A i \in 1 .. Len(s) : r[i] = s[i]
  BY AppendProperties
<1> HIDE DEF r
<1>2. IsPrefix(s, s) /\ IsPrefix(s, r)
  <2>1. IsPrefix(s, s)
    BY <1>1, PrefixOf
  <2>2. IsPrefix(s, r)
    BY <1>1, PrefixOf
  <2>3. QED
    BY <2>1, <2>2
<1>3. ASSUME s # <<>> PROVE IsPrefix(Tail(s), Tail(r))
  <2>1. Len(s) \in Nat \ {0} /\ r # <<>>
    BY <1>1, <1>3
  <2>2. /\ Tail(s) \in Seq(S) /\ Len(Tail(s)) = Len(s) - 1
        /\ \A i \in 1 .. Len(s) - 1 : Tail(s)[i] = s[i + 1]
    BY <1>3, HeadTailProperties
  <2>3. /\ Tail(r) \in Seq(S) /\ Len(Tail(r)) = Len(s)
        /\ \A i \in 1 .. Len(s) : Tail(r)[i] = r[i + 1]
    BY <1>1, <2>1, HeadTailProperties
  <2>4. \A i \in 1 .. Len(Tail(s)) : Tail(r)[i] = Tail(s)[i]
    BY <1>1, <2>1, <2>2, <2>3
  <2>5. Len(Tail(s)) <= Len(Tail(r))
    BY <2>1, <2>2, <2>3
  <2>6. QED
    BY <2>2, <2>3, <2>4, <2>5, PrefixOf
<1>4. QED
  BY <1>2, <1>3 DEF r

\* How many numbers an interval has.
LEMMA Interval ==
  ASSUME NEW a \in Int, NEW b \in Int, a <= b + 1
  PROVE  IsFiniteSet(a .. b) /\ Cardinality(a .. b) = (b - a) + 1
<1>1. IsFiniteSet(a .. b) /\ Cardinality(a .. b) = IF a > b THEN 0 ELSE (b - a) + 1
  BY FS_Interval
<1>2. (a > b => 0 = (b - a) + 1) /\ (b - a) + 1 \in Int
  OBVIOUS
<1>3. QED
  BY <1>1, <1>2

\* A set of natural numbers has a least element.  Those up to any element t are
\* ordered like the sets 0 .. y, and proper inclusion of finite sets is well-founded.
LEMMA Least ==
  ASSUME NEW T, T \subseteq Nat, T # {}
  PROVE  \E x \in T : \A y \in T : x <= y
<1>1. PICK t \in T : TRUE
  OBVIOUS
<1> DEFINE S == 0 .. t
           R == StrictSubsetOrdering(S)
           U == {0 .. x : x \in {y \in T : y <= t}}
<1>2. IsFiniteSet(S)
  BY <1>1, FS_Interval
<1>3. IsWellFoundedOn(R, SUBSET S)
  BY <1>2, FS_StrictSubsetOrderingWellFounded, FS_FiniteSubsetsOfFinite
<1>4. U \subseteq SUBSET S /\ U # {}
  BY <1>1
<1>5. PICK u \in U : \A v \in U : <<v, u>> \notin R
  BY <1>3, <1>4, WFMin
<1>6. PICK x \in T : x <= t /\ u = 0 .. x
  OBVIOUS
<1>7. ASSUME NEW y \in T, y < x
      PROVE  FALSE
  <2>1. 0 .. y \in U
    BY <1>1, <1>6, <1>7
  <2>2. /\ 0 .. y \in SUBSET S /\ 0 .. x \in SUBSET S
        /\ 0 .. y \subseteq 0 .. x /\ 0 .. y # 0 .. x
    BY <1>1, <1>6, <1>7
  <2>3. <<0 .. y, 0 .. x>> \in R
    BY <2>2 DEF StrictSubsetOrdering
  <2>4. QED
    BY <1>5, <1>6, <2>1, <2>3
<1>8. QED
  BY <1>6, <1>7

-----------------------------------------------------------------------------
\* The node at place i of the list s with head l: 0 is the head's place, and null is
\* what follows the last item.
Place(s, l, null, i) == IF i = 0 THEN l ELSE IF i <= Len(s) THEN s[i] ELSE null

\* The items of s are linked by next, in their order, from head l to the end.
Forwards(next, l, s, null) ==
  \A i \in 0 .. Len(s) : next[Place(s, l, null, i)] = Place(s, l, null, i + 1)

\* And by previous, back to the head.
Backwards(previous, l, s, null) ==
  \A i \in 1 .. Len(s) : previous[Place(s, l, null, i)] = Place(s, l, null, i - 1)

\* A list without duplicates is not longer than its set has elements.
LEMMA InjectiveLength ==
  ASSUME NEW S, IsFiniteSet(S), NEW s \in Seq(S), IsInjective(s)
  PROVE  Len(s) \in Nat /\ Cardinality(S) \in Nat /\ Len(s) <= Cardinality(S)
<1>1. Cardinality(S) \in Nat
  BY FS_CardinalityType
<1>2. s \in [1 .. Len(s) -> S] /\ Len(s) \in Nat
  BY LenProperties
<1>3. s \in Injection(1 .. Len(s), S)
  BY <1>2, Fun_IsInj DEF IsInjective
<1>4. Cardinality(1 .. Len(s)) <= Cardinality(S)
  BY <1>3, FS_Injection
<1>5. Cardinality(1 .. Len(s)) = Len(s)
  BY <1>2, Interval
<1>6. QED
  BY <1>1, <1>2, <1>4, <1>5

\* One list that is linked as the loop walks: the items in their order, then null.
LEMMA ListWalk ==
  ASSUME NEW C \in Nat, NEW s, Len(s) \in Nat, NEW next, NEW l, NEW null,
         \A i \in 1 .. Len(s) : s[i] # null, Forwards(next, l, s, null)
  PROVE  LET n == [i \in 0 .. C |-> Place(s, l, null, i + 1)]
         IN  n = [i \in 0 .. C |->
                    IF i = 0 THEN next[l] ELSE IF n[i - 1] = null THEN null ELSE next[n[i - 1]]]
<1> DEFINE n == [i \in 0 .. C |-> Place(s, l, null, i + 1)]
<1>1. ASSUME NEW i \in 0 .. C
      PROVE  n[i] = IF i = 0 THEN next[l]
                    ELSE IF n[i - 1] = null THEN null ELSE next[n[i - 1]]
  <2>1. CASE i = 0
    <3>1. 0 \in 0 .. Len(s) /\ 0 + 1 = 1 /\ n[0] = Place(s, l, null, 0 + 1)
      BY <2>1
    <3>2. next[Place(s, l, null, 0)] = Place(s, l, null, 0 + 1)
      BY <3>1 DEF Forwards
    <3>3. Place(s, l, null, 0) = l
      BY DEF Place
    <3>4. QED
      BY <2>1, <3>1, <3>2, <3>3
  <2>2. CASE i # 0
    <3>1. i - 1 \in 0 .. C /\ (i - 1) + 1 = i
      BY <2>2
    <3>2. n[i - 1] = Place(s, l, null, i) /\ n[i] = Place(s, l, null, i + 1)
      BY <3>1
    <3> HIDE DEF n
    <3>3. CASE i <= Len(s)
      <4>1. i \in 1 .. Len(s) /\ i \in 0 .. Len(s)
        BY <2>2, <3>3
      <4>2. next[Place(s, l, null, i)] = Place(s, l, null, i + 1)
        BY <4>1 DEF Forwards
      <4>3. Place(s, l, null, i) # null
        BY <2>2, <4>1 DEF Place
      <4>4. QED
        BY <2>2, <3>2, <4>2, <4>3
    <3>4. CASE i > Len(s)
      <4>1. Place(s, l, null, i) = null /\ Place(s, l, null, i + 1) = null
        BY <2>2, <3>4 DEF Place
      <4>2. QED
        BY <2>2, <3>2, <4>1
    <3>5. QED
      BY <3>3, <3>4
  <2>3. QED
    BY <2>1, <2>2
<1>2. QED
  BY <1>1

\* The nodes n a loop from head.next sees, the first of them at 0.
Walk(n, C, next, l, null) ==
  /\ DOMAIN n = 0 .. C
  /\ \A i \in 0 .. C :
       n[i] = IF i = 0 THEN next[l] ELSE IF n[i - 1] = null THEN null ELSE next[n[i - 1]]

\* The loop sees the items of s in their order, and then the end of the list.
Reads(n, C, s, l, null) ==
  /\ Len(s) \in Nat /\ Len(s) <= C
  /\ \A i \in 0 .. C : n[i] = Place(s, l, null, i + 1)
  /\ n[C] = null
  /\ Cardinality({j \in DOMAIN n : n[j] # null}) = Len(s)

\* A loop sees some nodes whatever the links are: were there a first number of steps
\* for which it does not, it would see the node behind those of one step less.
LEMMA WalkExists ==
  ASSUME NEW C \in Nat, NEW next, NEW l, NEW null
  PROVE  \E n : Walk(n, C, next, l, null)
<1> DEFINE T == {c \in Nat : ~ \E n : Walk(n, c, next, l, null)}
<1>1. ASSUME T # {} PROVE FALSE
  <2>1. PICK c \in T : \A d \in T : c <= d
    <3>1. T \subseteq Nat
      OBVIOUS
    <3> HIDE DEF T
    <3>2. QED
      BY <1>1, <3>1, Least
  <2>2. CASE c = 0
    <3> DEFINE n == [i \in 0 .. 0 |-> next[l]]
    <3>1. Walk(n, 0, next, l, null)
      BY DEF Walk
    <3> HIDE DEF n
    <3>2. QED
      BY <2>1, <2>2, <3>1
  <2>3. CASE c # 0
    <3>1. c - 1 \in Nat /\ c - 1 \notin T /\ c \in Nat
      BY <2>1, <2>3
    <3>2. PICK n : Walk(n, c - 1, next, l, null)
      BY <3>1
    <3> DEFINE m == [i \in 0 .. c |->
                       IF i = c THEN IF n[c - 1] = null THEN null ELSE next[n[c - 1]]
                       ELSE n[i]]
    <3>3. \A i \in 0 .. c :
            m[i] = IF i = 0 THEN next[l]
                   ELSE IF m[i - 1] = null THEN null ELSE next[m[i - 1]]
      <4> TAKE i \in 0 .. c
      <4>1. CASE i = c
        BY <2>3, <3>1, <4>1
      <4>2. CASE i # c
        <5>1. i \in 0 .. (c - 1) /\ (i # 0 => i - 1 \in 0 .. c /\ i - 1 # c)
          BY <3>1, <4>2
        <5>2. m[i] = n[i] /\ (i # 0 => m[i - 1] = n[i - 1])
          BY <4>2, <5>1
        <5> HIDE DEF m
        <5>3. QED
          BY <3>2, <5>1, <5>2 DEF Walk
      <4>3. QED
        BY <4>1, <4>2
    <3>4. Walk(m, c, next, l, null)
      BY <3>3 DEF Walk
    <3> HIDE DEF m
    <3>5. QED
      BY <2>1, <3>4
  <2>4. QED
    BY <2>2, <2>3
<1>2. QED
  BY <1>1

\* What a loop from head.next finds in a list: its items in their order, then its end.
LEMMA ListRead ==
  ASSUME NEW S, IsFiniteSet(S), NEW s \in Seq(S), IsInjective(s),
         NEW next, NEW l, NEW null, null \notin S, Forwards(next, l, s, null), NEW n,
         Walk(n, Cardinality(S), next, l, null)
  PROVE  Reads(n, Cardinality(S), s, l, null)
<1> DEFINE C == Cardinality(S)
           J == {j \in DOMAIN n : n[j] # null}
<1>1. /\ Len(s) \in Nat /\ C \in Nat /\ Len(s) <= C
      /\ \A i \in 1 .. Len(s) : s[i] \in S
  BY InjectiveLength
<1>2. /\ DOMAIN n = 0 .. C
      /\ n[0] = next[l]
      /\ \A i \in 1 .. C : n[i] = IF n[i - 1] = null THEN null ELSE next[n[i - 1]]
  BY <1>1 DEF Walk
<1> HIDE DEF C
<1> DEFINE T == {i \in 0 .. C : n[i] # Place(s, l, null, i + 1)}
<1>3. T = {}
  <2>1. SUFFICES ASSUME T # {}
                 PROVE  FALSE
    OBVIOUS
  <2>2. PICK i \in T : \A j \in T : i <= j
    <3>1. T \subseteq Nat
      BY <1>1
    <3> HIDE DEF T
    <3>2. QED
      BY <2>1, <3>1, Least
  <2>3. i # 0
    <3>1. next[Place(s, l, null, 0)] = Place(s, l, null, 1)
      BY <1>1 DEF Forwards
    <3>2. QED
      BY <1>1, <1>2, <2>2, <3>1 DEF Place
  <2>4. i \in 1 .. C /\ i - 1 \in 0 .. C /\ i - 1 \notin T
    BY <1>1, <2>2, <2>3
  <2>5. n[i - 1] = Place(s, l, null, i)
    BY <2>4
  <2>6. CASE i <= Len(s)
    <3>1. n[i - 1] = s[i] /\ s[i] \in S /\ i \in 0 .. Len(s)
      BY <1>1, <2>4, <2>5, <2>6 DEF Place
    <3>2. next[Place(s, l, null, i)] = Place(s, l, null, i + 1)
      BY <3>1 DEF Forwards
    <3>3. QED
      BY <1>2, <2>2, <2>4, <2>5, <3>1, <3>2
  <2>7. CASE i > Len(s)
    <3>1. n[i - 1] = null /\ Place(s, l, null, i + 1) = null
      BY <1>1, <2>4, <2>5, <2>7 DEF Place
    <3>2. n[i] = null
      BY <1>2, <2>4, <3>1
    <3>3. QED
      BY <2>2, <3>1, <3>2
  <2>8. QED
    BY <1>1, <2>4, <2>6, <2>7
<1>4. \A i \in 0 .. C : n[i] = Place(s, l, null, i + 1)
  BY <1>3
<1>5. J = 0 .. (Len(s) - 1)
  <2>1. \A i \in 0 .. C : Place(s, l, null, i + 1) # null <=> i < Len(s)
    BY <1>1 DEF Place
  <2>2. \A j \in 0 .. C : n[j] # null <=> j < Len(s)
    BY <1>4, <2>1
  <2>3. \A j : j \in 0 .. C /\ j < Len(s) <=> j \in 0 .. (Len(s) - 1)
    BY <1>1
  <2>4. DOMAIN n = 0 .. C
    BY <1>2
  <2>5. \A j : j \in J <=> j \in 0 .. (Len(s) - 1)
    BY <2>2, <2>3, <2>4
  <2> HIDE DEF J
  <2>6. QED
    BY <2>5, Zenon
<1>6. Cardinality(0 .. (Len(s) - 1)) = Len(s)
  <2>1. Len(s) - 1 \in Int /\ 0 <= (Len(s) - 1) + 1 /\ ((Len(s) - 1) - 0) + 1 = Len(s)
    BY <1>1
  <2>2. QED
    BY <2>1, Interval
<1>7. n[C] = null
  <2>1. C \in 0 .. C /\ Place(s, l, null, C + 1) = null
    BY <1>1 DEF Place
  <2>2. QED
    BY <1>4, <2>1
<1>8. QED
  BY <1>1, <1>4, <1>5, <1>6, <1>7 DEF C, Reads

\* The nodes of a list differ.
LEMMA PlacesDiffer ==
  ASSUME NEW S, NEW s \in Seq(S), IsInjective(s), NEW l, l \notin S, NEW null, null \notin S,
         l # null
  PROVE  /\ Len(s) \in Nat
         /\ \A i \in 1 .. Len(s) : Place(s, l, null, i) = s[i] /\ s[i] \in S /\ s[i] \in ToSet(s)
         /\ Place(s, l, null, 0) = l /\ Place(s, l, null, Len(s) + 1) = null
         /\ \A i, j \in 0 .. Len(s) + 1 : Place(s, l, null, i) = Place(s, l, null, j) => i = j
<1>1. Len(s) \in Nat /\ \A i \in 1 .. Len(s) : s[i] \in S
  OBVIOUS
<1>2. \A i, j \in 1 .. Len(s) : s[i] = s[j] => i = j
  BY DEF IsInjective
<1>3. \A i \in 1 .. Len(s) : s[i] \in ToSet(s)
  BY DEF ToSet
<1>4. QED
  BY <1>1, <1>2, <1>3 DEF Place

\* next from a to b, and previous, when x is linked behind place p of s ...
NextPut(a, b, s, l, null, p, x) ==
  /\ b[Place(s, l, null, p)] = x
  /\ b[x] = Place(s, l, null, p + 1)
  /\ \A i \in 0 .. Len(s) : i # p => b[Place(s, l, null, i)] = a[Place(s, l, null, i)]

PreviousPut(a, b, s, l, null, p, x) ==
  /\ b[x] = Place(s, l, null, p)
  /\ p < Len(s) => b[Place(s, l, null, p + 1)] = x
  /\ \A i \in 1 .. Len(s) : i # p + 1 => b[Place(s, l, null, i)] = a[Place(s, l, null, i)]

\* ... and when the item at place p of s is taken out.
NextTaken(a, b, s, l, null, p) ==
  /\ b[Place(s, l, null, p - 1)] = Place(s, l, null, p + 1)
  /\ \A i \in 0 .. Len(s) :
       i \notin {p - 1, p} => b[Place(s, l, null, i)] = a[Place(s, l, null, i)]

PreviousTaken(a, b, s, l, null, p) ==
  /\ p < Len(s) => b[Place(s, l, null, p + 1)] = Place(s, l, null, p - 1)
  /\ \A i \in 1 .. Len(s) :
       i \notin {p, p + 1} => b[Place(s, l, null, i)] = a[Place(s, l, null, i)]

\* The links of next once an item x is put behind place p of a list.
LEMMA InsertedForwards ==
  ASSUME NEW S, NEW s \in Seq(S), NEW x, NEW l, NEW null,
         NEW p \in 0 .. Len(s), NEW r \in Seq(S), Inserted(s, p, x, r),
         NEW a, NEW b, Forwards(a, l, s, null), NextPut(a, b, s, l, null, p, x)
  PROVE  Forwards(b, l, r, null)
<1>1. /\ b[Place(s, l, null, p)] = x
      /\ b[x] = Place(s, l, null, p + 1)
      /\ \A i \in 0 .. Len(s) : i # p => b[Place(s, l, null, i)] = a[Place(s, l, null, i)]
  BY DEF NextPut
<1>2. Len(s) \in Nat /\ p \in Nat /\ p <= Len(s) /\ Len(r) = Len(s) + 1
  BY DEF Inserted
<1>3. \A i \in 0 .. Len(r) + 1 :
        Place(r, l, null, i) = IF i <= p THEN Place(s, l, null, i)
                               ELSE IF i = p + 1 THEN x ELSE Place(s, l, null, i - 1)
  BY <1>2 DEF Inserted, Place
<1>4. \A i \in 0 .. Len(s) : a[Place(s, l, null, i)] = Place(s, l, null, i + 1)
  BY DEF Forwards
<1>5. ASSUME NEW i \in 0 .. Len(r)
      PROVE  b[Place(r, l, null, i)] = Place(r, l, null, i + 1)
  <2>1. CASE i < p
    BY <1>1, <1>2, <1>3, <1>4, <2>1
  <2>2. CASE i = p
    BY <1>1, <1>2, <1>3, <2>2
  <2>3. CASE i = p + 1
    BY <1>1, <1>2, <1>3, <2>3
  <2>4. CASE i > p + 1
    <3>1. i - 1 \in 0 .. Len(s) /\ i - 1 # p /\ (i - 1) + 1 = i
      BY <1>1, <1>2, <2>4
    <3>2. b[Place(s, l, null, i - 1)] = Place(s, l, null, i)
      BY <1>1, <1>4, <3>1
    <3>3. QED
      BY <1>1, <1>2, <1>3, <2>4, <3>2
  <2>5. QED
    BY <1>1, <1>2, <2>1, <2>2, <2>3, <2>4
<1>6. QED
  BY <1>5 DEF Forwards

\* The links of previous once an item x is put behind place p of a list.
LEMMA InsertedBackwards ==
  ASSUME NEW S, NEW s \in Seq(S), NEW x, NEW l, NEW null,
         NEW p \in 0 .. Len(s), NEW r \in Seq(S), Inserted(s, p, x, r),
         NEW a, NEW b, Backwards(a, l, s, null), PreviousPut(a, b, s, l, null, p, x)
  PROVE  Backwards(b, l, r, null)
<1>1. /\ b[x] = Place(s, l, null, p)
      /\ p < Len(s) => b[Place(s, l, null, p + 1)] = x
      /\ \A i \in 1 .. Len(s) : i # p + 1 => b[Place(s, l, null, i)] = a[Place(s, l, null, i)]
  BY DEF PreviousPut
<1>2. Len(s) \in Nat /\ p \in Nat /\ p <= Len(s) /\ Len(r) = Len(s) + 1
  BY DEF Inserted
<1>3. \A i \in 0 .. Len(r) + 1 :
        Place(r, l, null, i) = IF i <= p THEN Place(s, l, null, i)
                               ELSE IF i = p + 1 THEN x ELSE Place(s, l, null, i - 1)
  BY <1>2 DEF Inserted, Place
<1>4. \A i \in 1 .. Len(s) : a[Place(s, l, null, i)] = Place(s, l, null, i - 1)
  BY DEF Backwards
<1>5. ASSUME NEW i \in 1 .. Len(r)
      PROVE  b[Place(r, l, null, i)] = Place(r, l, null, i - 1)
  <2>1. CASE i <= p
    <3>1. i \in 1 .. Len(s) /\ i # p + 1
      BY <1>1, <1>2, <2>1
    <3>2. b[Place(s, l, null, i)] = Place(s, l, null, i - 1)
      BY <1>1, <1>4, <3>1
    <3>3. i \in 0 .. Len(r) + 1 /\ i - 1 \in 0 .. Len(r) + 1 /\ i - 1 <= p
      BY <1>1, <1>2, <2>1
    <3>4. QED
      BY <1>1, <1>3, <2>1, <3>2, <3>3
  <2>2. CASE i = p + 1
    BY <1>1, <1>2, <1>3, <2>2
  <2>3. CASE i = p + 2
    <3>1. p + 1 \in 1 .. Len(s) /\ i - 1 = p + 1
      BY <1>1, <1>2, <2>3
    <3>2. QED
      BY <1>1, <1>2, <1>3, <2>3, <3>1
  <2>4. CASE i > p + 2
    <3>1. i - 1 \in 1 .. Len(s) /\ i - 1 # p + 1
      BY <1>1, <1>2, <2>4
    <3>2. b[Place(s, l, null, i - 1)] = Place(s, l, null, (i - 1) - 1)
      BY <1>1, <1>4, <3>1
    <3>3. QED
      BY <1>1, <1>2, <1>3, <2>4, <3>1, <3>2
  <2>5. QED
    BY <1>1, <1>2, <2>1, <2>2, <2>3, <2>4
<1>6. QED
  BY <1>5 DEF Backwards

\* The links of next once the item at place p is taken out.
LEMMA RemovedForwards ==
  ASSUME NEW S, NEW s \in Seq(S), NEW l, NEW null,
         NEW p \in 1 .. Len(s), NEW r \in Seq(S), Removed(s, p, r),
         NEW a, NEW b, Forwards(a, l, s, null), NextTaken(a, b, s, l, null, p)
  PROVE  Forwards(b, l, r, null)
<1>1. /\ b[Place(s, l, null, p - 1)] = Place(s, l, null, p + 1)
      /\ \A i \in 0 .. Len(s) :
           i \notin {p - 1, p} => b[Place(s, l, null, i)] = a[Place(s, l, null, i)]
  BY DEF NextTaken
<1>2. Len(s) \in Nat /\ p \in Nat /\ 1 <= p /\ p <= Len(s) /\ Len(r) = Len(s) - 1
  BY DEF Removed
<1>3. \A i \in 0 .. Len(r) + 1 :
        Place(r, l, null, i) = IF i < p THEN Place(s, l, null, i) ELSE Place(s, l, null, i + 1)
  BY <1>2, SMTT(30) DEF Removed, Place
<1>4. \A i \in 0 .. Len(s) : a[Place(s, l, null, i)] = Place(s, l, null, i + 1)
  BY DEF Forwards
<1>5. ASSUME NEW i \in 0 .. Len(r)
      PROVE  b[Place(r, l, null, i)] = Place(r, l, null, i + 1)
  <2>1. CASE i < p - 1
    <3>1. i \in 0 .. Len(s) /\ i \notin {p - 1, p}
      BY <1>1, <1>2, <2>1
    <3>2. b[Place(s, l, null, i)] = Place(s, l, null, i + 1)
      BY <1>1, <1>4, <3>1
    <3>3. i \in 0 .. Len(r) + 1 /\ i + 1 \in 0 .. Len(r) + 1 /\ i < p /\ i + 1 < p
      BY <1>1, <1>2, <2>1
    <3>4. QED
      BY <1>1, <1>3, <3>2, <3>3
  <2>2. CASE i = p - 1
    <3>1. i \in 0 .. Len(r) + 1 /\ i + 1 \in 0 .. Len(r) + 1 /\ i < p /\ ~(i + 1 < p)
      BY <1>1, <1>2, <2>2
    <3>2. Place(r, l, null, i) = Place(s, l, null, i)
      BY <1>1, <1>3, <3>1
    <3>3. Place(r, l, null, i + 1) = Place(s, l, null, p + 1)
      BY <1>1, <1>2, <1>3, <2>2, <3>1
    <3>4. QED
      BY <1>1, <2>2, <3>2, <3>3
  <2>3. CASE i >= p
    <3>1. i + 1 \in 0 .. Len(s) /\ i + 1 \notin {p - 1, p}
      BY <1>1, <1>2, <2>3
    <3>2. b[Place(s, l, null, i + 1)] = Place(s, l, null, (i + 1) + 1)
      BY <1>1, <1>4, <3>1
    <3>3. QED
      BY <1>1, <1>2, <1>3, <2>3, <3>2
  <2>4. QED
    BY <1>1, <1>2, <2>1, <2>2, <2>3
<1>6. QED
  BY <1>5 DEF Forwards

\* The links of previous once the item at place p is taken out.
LEMMA RemovedBackwards ==
  ASSUME NEW S, NEW s \in Seq(S), NEW l, NEW null,
         NEW p \in 1 .. Len(s), NEW r \in Seq(S), Removed(s, p, r),
         NEW a, NEW b, Backwards(a, l, s, null), PreviousTaken(a, b, s, l, null, p)
  PROVE  Backwards(b, l, r, null)
<1>1. /\ p < Len(s) => b[Place(s, l, null, p + 1)] = Place(s, l, null, p - 1)
      /\ \A i \in 1 .. Len(s) :
           i \notin {p, p + 1} => b[Place(s, l, null, i)] = a[Place(s, l, null, i)]
  BY DEF PreviousTaken
<1>2. Len(s) \in Nat /\ p \in Nat /\ 1 <= p /\ p <= Len(s) /\ Len(r) = Len(s) - 1
  BY DEF Removed
<1>3. \A i \in 0 .. Len(r) + 1 :
        Place(r, l, null, i) = IF i < p THEN Place(s, l, null, i) ELSE Place(s, l, null, i + 1)
  BY <1>2, SMTT(30) DEF Removed, Place
<1>4. \A i \in 1 .. Len(s) : a[Place(s, l, null, i)] = Place(s, l, null, i - 1)
  BY DEF Backwards
<1>5. ASSUME NEW i \in 1 .. Len(r)
      PROVE  b[Place(r, l, null, i)] = Place(r, l, null, i - 1)
  <2>1. CASE i < p
    <3>1. i \in 1 .. Len(s) /\ i \notin {p, p + 1}
      BY <1>1, <1>2, <2>1
    <3>2. b[Place(s, l, null, i)] = Place(s, l, null, i - 1)
      BY <1>1, <1>4, <3>1
    <3>3. i \in 0 .. Len(r) + 1 /\ i - 1 \in 0 .. Len(r) + 1 /\ i < p /\ i - 1 < p
      BY <1>1, <1>2, <2>1
    <3>4. QED
      BY <1>1, <1>3, <3>2, <3>3
  <2>2. CASE i = p
    <3>1. Place(r, l, null, i) = Place(s, l, null, p + 1)
      BY <1>1, <1>2, <1>3, <2>2
    <3>2. Place(r, l, null, i - 1) = Place(s, l, null, p - 1)
      BY <1>1, <1>2, <1>3, <2>2
    <3>3. QED
      BY <1>1, <1>2, <2>2, <3>1, <3>2
  <2>3. CASE i > p
    <3>1. i + 1 \in 1 .. Len(s) /\ i + 1 \notin {p, p + 1} /\ (i + 1) - 1 = i
      BY <1>1, <1>2, <2>3
    <3>2. b[Place(s, l, null, i + 1)] = Place(s, l, null, i)
      BY <1>1, <1>4, <3>1
    <3>3. /\ i \in 0 .. Len(r) + 1 /\ i - 1 \in 0 .. Len(r) + 1 /\ (i - 1) + 1 = i
          /\ ~(i < p) /\ ~(i - 1 < p)
      BY <1>1, <1>2, <2>3
    <3>4. QED
      BY <1>1, <1>3, <3>2, <3>3
  <2>4. QED
    BY <1>1, <1>2, <2>1, <2>2, <2>3
<1>6. QED
  BY <1>5 DEF Backwards
=============================================================================
