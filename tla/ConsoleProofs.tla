---------------------------- MODULE ConsoleProofs ----------------------------
(***************************************************************************)
(* The console of src/kernel/stdio.cpp with its one writer.  For every     *)
(* size of the screen, of the registers, of printf's buffer and of an int, *)
(* and for every format: itos writes the digits of every number; printf    *)
(* never leaves its buffer and returns what it was to show; the cursor     *)
(* never leaves the screen; and each step shows the next character of the  *)
(* text, as Teletype says, or nothing.                                     *)
(***************************************************************************)
EXTENDS Printf, QueueTheorems

CONSTANT Texts   \* what the writer of SharedConsole prints

-----------------------------------------------------------------------------
\* Induction over the numbers as a fact about sets, and what it gives: a function
\* that is defined by the value at 0 and a step exists.

\* A set of numbers that has 0 and with each number the next one has them all.
LEMMA SetInduction ==
  ASSUME NEW G, 0 \in G, \A n \in Nat : n \in G => n + 1 \in G
  PROVE  Nat \subseteq G
<1> DEFINE Rest == Nat \ G
<1>1. ASSUME Rest # {} PROVE FALSE
  <2>1. Rest \subseteq Nat
    OBVIOUS
  <2> HIDE DEF Rest
  <2>2. PICK n \in Rest : \A m \in Rest : n <= m
    BY <1>1, <2>1, Least
  <2>3. n \in Nat /\ n \notin G
    BY <2>2 DEF Rest
  <2>4. n - 1 \in Nat /\ (n - 1) + 1 = n
    BY <2>3
  <2>5. n - 1 \notin G
    BY <2>3, <2>4
  <2>6. n - 1 \in Rest
    BY <2>4, <2>5 DEF Rest
  <2>7. QED
    BY <2>2, <2>3, <2>6
<1>2. QED
  BY <1>1

\* The same, where a number is in the set once all smaller ones are.
LEMMA StrongSetInduction ==
  ASSUME NEW G, \A n \in Nat : (\A m \in 0 .. n - 1 : m \in G) => n \in G
  PROVE  Nat \subseteq G
<1> DEFINE H == {n \in Nat : \A m \in 0 .. n - 1 : m \in G}
<1>1. 0 \in H
  OBVIOUS
<1>2. ASSUME NEW n \in Nat, n \in H PROVE n + 1 \in H
  <2>1. n \in G
    BY <1>2
  <2>2. \A m \in 0 .. (n + 1) - 1 : m \in 0 .. n - 1 \/ m = n
    OBVIOUS
  <2>3. QED
    BY <1>2, <2>1, <2>2
<1> HIDE DEF H
<1>3. Nat \subseteq H
  BY <1>1, <1>2, SetInduction
<1>4. QED
  BY <1>3 DEF H

\* f begins at c, and its value at n + 1 is the n-th function at its value at n.
Iterates(f, S, c, F) ==
  /\ f \in [Nat -> S] /\ f[0] = c
  /\ \A n \in Nat : f[n + 1] = F[n][f[n]]

\* There is such an f.
LEMMA Iteration ==
  ASSUME NEW S, NEW c \in S, NEW F \in [Nat -> [S -> S]]
  PROVE  \E f : Iterates(f, S, c, F)
<1> DEFINE Upto(n, g) == /\ g \in [0 .. n -> S] /\ g[0] = c
                         /\ \A i \in 0 .. n - 1 : g[i + 1] = F[i][g[i]]
           G == {n \in Nat : \E g : Upto(n, g)}
           f == [n \in Nat |-> (CHOOSE g : Upto(n, g))[n]]
<1>1. Nat \subseteq G
  <2>1. 0 \in G
    <3> DEFINE g == [i \in 0 .. 0 |-> c]
    <3>1. Upto(0, g)
      OBVIOUS
    <3> HIDE DEF g
    <3>2. QED
      BY <3>1
  <2>2. ASSUME NEW n \in Nat, n \in G PROVE n + 1 \in G
    <3>1. PICK h : Upto(n, h)
      BY <2>2
    <3> DEFINE g == [i \in 0 .. n + 1 |-> IF i = n + 1 THEN F[n][h[n]] ELSE h[i]]
    <3>2. F[n][h[n]] \in S
      BY <3>1
    <3>3. g \in [0 .. n + 1 -> S] /\ g[0] = c
      BY <3>1, <3>2
    <3>4. \A i \in 0 .. (n + 1) - 1 : g[i + 1] = F[i][g[i]]
      <4> TAKE i \in 0 .. (n + 1) - 1
      <4>1. CASE i = n
        BY <4>1
      <4>2. CASE i # n
        <5>1. i \in 0 .. n - 1 /\ g[i] = h[i] /\ g[i + 1] = h[i + 1]
          BY <4>2
        <5>2. QED
          BY <3>1, <5>1
      <4>3. QED
        BY <4>1, <4>2
    <3>5. Upto(n + 1, g)
      BY <3>3, <3>4
    <3> HIDE DEF g
    <3>6. QED
      BY <3>5
  <2> HIDE DEF G
  <2>3. QED
    BY <2>1, <2>2, SetInduction
<1>2. \A n \in Nat : Upto(n, CHOOSE g : Upto(n, g))
  <2> TAKE n \in Nat
  <2>1. \E g : Upto(n, g)
    BY <1>1
  <2> HIDE DEF Upto
  <2>2. QED
    BY <2>1
<1>3. ASSUME NEW n \in Nat, NEW g, Upto(n, g), NEW h, Upto(n + 1, h)
      PROVE  g[n] = h[n]
  <2> DEFINE H == {i \in Nat : i <= n => g[i] = h[i]}
  <2>1. 0 \in H
    BY <1>3
  <2>2. ASSUME NEW i \in Nat, i \in H PROVE i + 1 \in H
    <3>1. CASE i + 1 <= n
      <4>1. i \in 0 .. n - 1 /\ i \in 0 .. (n + 1) - 1
        BY <3>1
      <4>2. QED
        BY <1>3, <2>2, <4>1
    <3>2. CASE ~(i + 1 <= n)
      BY <3>2
    <3>3. QED
      BY <3>1, <3>2
  <2> HIDE DEF H
  <2>3. n \in H
    BY <2>1, <2>2, SetInduction
  <2>4. QED
    BY <2>3 DEF H
<1>4. \A n \in Nat : f[n] \in S
  <2> TAKE n \in Nat
  <2> DEFINE g == CHOOSE g : Upto(n, g)
  <2>1. Upto(n, g) /\ f[n] = g[n]
    BY <1>2
  <2> HIDE DEF g
  <2>2. QED
    BY <2>1
<1>5. f[0] = c
  BY <1>2
<1>6. ASSUME NEW n \in Nat PROVE f[n + 1] = F[n][f[n]]
  <2> DEFINE g == CHOOSE g : Upto(n, g)
             h == CHOOSE h : Upto(n + 1, h)
  <2>1. Upto(n, g) /\ Upto(n + 1, h)
    <3>1. n + 1 \in Nat
      OBVIOUS
    <3> HIDE DEF Upto
    <3>2. QED
      BY <1>2, <3>1
  <2>2. f[n] = g[n] /\ f[n + 1] = h[n + 1]
    <3>1. n + 1 \in Nat
      OBVIOUS
    <3> HIDE DEF Upto
    <3>2. f[n] = g[n]
      OBVIOUS
    <3>3. f[n + 1] = h[n + 1]
      BY <3>1
    <3>4. QED
      BY <3>2, <3>3
  <2> HIDE DEF g, h
  <2>3. g[n] = h[n]
    BY <1>3, <2>1
  <2>4. h[n + 1] = F[n][h[n]]
    BY <2>1
  <2>5. QED
    BY <2>2, <2>3, <2>4
<1>7. f \in [Nat -> S]
  BY <1>4
<1>8. Iterates(f, S, c, F)
  BY <1>5, <1>6, <1>7 DEF Iterates
<1> HIDE DEF f
<1>9. QED
  BY <1>8

\* The powers of the model multiply by their base.
LEMMA Powers ==
  ASSUME NEW r \in Nat
  PROVE  /\ Power(r, 0) = 1
         /\ \A n \in Nat : Power(r, n) \in Nat /\ Power(r, n + 1) = r * Power(r, n)
<1> DEFINE F == [n \in Nat |-> [v \in Nat |-> r * v]]
           Is(p) == p = [k \in Nat |-> IF k = 0 THEN 1 ELSE r * p[k - 1]]
           power == CHOOSE p : Is(p)
<1>1. F \in [Nat -> [Nat -> Nat]]
  OBVIOUS
<1> HIDE DEF F
<1>2. PICK f : Iterates(f, Nat, 1, F)
  <2>1. 1 \in Nat
    OBVIOUS
  <2>2. QED
    BY <1>1, <2>1, Iteration
<1>3. /\ f \in [Nat -> Nat] /\ f[0] = 1
      /\ \A n \in Nat : f[n + 1] = r * f[n]
  BY <1>2 DEF F, Iterates
<1>4. Is(f)
  <2>1. \A k \in Nat : f[k] = IF k = 0 THEN 1 ELSE r * f[k - 1]
    <3> TAKE k \in Nat
    <3>1. k # 0 => k - 1 \in Nat /\ (k - 1) + 1 = k
      OBVIOUS
    <3>2. QED
      BY <1>3, <3>1
  <2>2. QED
    BY <1>3, <2>1
<1> HIDE DEF Is
<1>5. Is(power)
  BY <1>4
<1>6. \A n \in Nat : Power(r, n) = power[n]
  BY DEF Power, Is
<1> HIDE DEF power
<1>7. power[0] = 1 /\ \A n \in Nat : power[n + 1] = r * power[n]
  BY <1>5 DEF Is
<1>8. \A n \in Nat : power[n] \in Nat
  <2> DEFINE G == {n \in Nat : power[n] \in Nat}
  <2>1. 0 \in G
    BY <1>7
  <2>2. \A n \in Nat : n \in G => n + 1 \in G
    BY <1>7
  <2> HIDE DEF G
  <2>3. Nat \subseteq G
    BY <2>1, <2>2, SetInduction
  <2>4. QED
    BY <2>3 DEF G
<1>9. QED
  BY <1>6, <1>7, <1>8

-----------------------------------------------------------------------------
\* Numbers in base r, and itos (src/utils/stdlib.cpp:11-40).

\* A number is its quotient and its remainder, in the order of factors used here.
LEMMA Quotient ==
  ASSUME NEW n \in Nat, NEW r \in Nat, r >= 1
  PROVE  /\ n \div r \in Nat /\ n % r \in 0 .. r - 1
         /\ n = r * (n \div r) + (n % r)
  OBVIOUS

\* itos's loop ends: each division makes the number smaller.
LEMMA QuotientLess ==
  ASSUME NEW n \in Nat, n # 0, NEW r \in Nat, r >= 2
  PROVE  n \div r < n
<1>1. n \div r \in Nat /\ n % r >= 0 /\ n % r \in Nat /\ n = r * (n \div r) + (n % r)
  BY Quotient
<1>2. SUFFICES ASSUME n \div r >= n PROVE FALSE
  BY <1>1
<1>3. r * (n \div r) >= 2 * (n \div r)
  BY <1>1
<1>4. QED
  BY <1>1, <1>2, <1>3

\* The digits of both radices are characters, none of them the NUL that ends a string.
LEMMA DigitChars ==
  ASSUME NEW r \in {10, 16}, NEW d \in 0 .. r - 1
  PROVE  DigitChar(d) \in Characters
  BY DEF DigitChar, Characters

\* The loop of itos, read as a recursion over the quotients, which has one
\* solution: the digits of a number are its last one and those of the quotient.
LEMMA DigitsRecursion ==
  ASSUME NEW mod \in {10, 16}
  PROVE  /\ Digits(0, mod) = <<>>
         /\ \A n \in Nat \ {0} :
              Digits(n, mod) = <<DigitChar(n % mod)>> \o Digits(n \div mod, mod)
         /\ \A n \in Nat : Digits(n, mod) \in Seq(Characters)
<1> DEFINE S == [Nat -> Seq(Characters)]
           c == [n \in Nat |-> <<>>]
           D(n) == <<DigitChar(n % mod)>>
           G(d) == [n \in Nat |-> IF n = 0 THEN <<>> ELSE D(n) \o d[n \div mod]]
           F == [k \in Nat |-> [d \in S |-> G(d)]]
           Is(d) == d = [n \in Nat |-> IF n = 0 THEN <<>> ELSE <<DigitChar(n % mod)>> \o d[n \div mod]]
           digits == CHOOSE d : Is(d)
<1>1. \A n \in Nat : n \div mod \in Nat /\ D(n) \in Seq(Characters)
  <2> TAKE n \in Nat
  <2>1. n \div mod \in Nat /\ n % mod \in 0 .. mod - 1
    OBVIOUS
  <2>2. DigitChar(n % mod) \in Characters
    BY <2>1, DigitChars
  <2>3. QED
    BY <2>1, <2>2
<1>0. \A n \in Nat : n # 0 => n \div mod < n
  <2>1. mod \in Nat /\ mod >= 2
    OBVIOUS
  <2>2. QED
    BY <2>1, QuotientLess
<1>2. c \in S
  OBVIOUS
<1>3. ASSUME NEW d \in S PROVE G(d) \in S
  <2>1. \A n \in Nat : (IF n = 0 THEN <<>> ELSE D(n) \o d[n \div mod]) \in Seq(Characters)
    <3> TAKE n \in Nat
    <3>1. d[n \div mod] \in Seq(Characters) /\ D(n) \in Seq(Characters)
      BY <1>1
    <3> HIDE DEF D
    <3>2. D(n) \o d[n \div mod] \in Seq(Characters)
      BY <3>1
    <3>3. QED
      BY <3>2
  <2>2. QED
    BY <2>1
<1> HIDE DEF D
<1>4. F \in [Nat -> [S -> S]]
  <2> HIDE DEF G, S
  <2>1. QED
    BY <1>3
<1>5. PICK f : Iterates(f, S, c, F)
  <2> HIDE DEF S, c, F
  <2>1. QED
    BY <1>2, <1>4, Iteration
<1>6. \A k \in Nat : f[k] \in S /\ f[k + 1] = G(f[k])
  <2> TAKE k \in Nat
  <2>1. f[k] \in S /\ f[k + 1] = F[k][f[k]]
    BY <1>5 DEF Iterates
  <2> HIDE DEF G, S
  <2>2. QED
    BY <2>1
<1>7. \A k \in Nat, n \in Nat :
        f[k + 1][n] = IF n = 0 THEN <<>> ELSE D(n) \o f[k][n \div mod]
  BY <1>6
<1> DEFINE H == {n \in Nat : \A k \in Nat : k >= n => f[k + 1][n] = f[n + 1][n]}
<1>8. ASSUME NEW n \in Nat, \A m \in 0 .. n - 1 : m \in H PROVE n \in H
  <2>1. CASE n = 0
    BY <1>7, <2>1
  <2>2. CASE n # 0
    <3> DEFINE q == n \div mod
    <3>1. q \in Nat /\ q < n
      BY <1>0, <1>1, <2>2
    <3> HIDE DEF q
    <3>2. q \in H
      <4>1. q \in 0 .. n - 1
        BY <3>1
      <4> HIDE DEF H
      <4>2. QED
        BY <1>8, <4>1
    <3>3. ASSUME NEW k \in Nat, k >= n PROVE f[k + 1][n] = D(n) \o f[q + 1][q]
      <4>1. k - 1 \in Nat /\ k - 1 >= q /\ (k - 1) + 1 = k
        BY <3>1, <3>3
      <4>2. f[k][q] = f[q + 1][q]
        BY <3>2, <4>1
      <4>3. f[k + 1][n] = D(n) \o f[k][q]
        BY <1>7, <2>2 DEF q
      <4>4. QED
        BY <4>2, <4>3
    <3>4. \A k \in Nat : k >= n => f[k + 1][n] = f[n + 1][n]
      <4>1. f[n + 1][n] = D(n) \o f[q + 1][q]
        BY <3>3
      <4>2. QED
        BY <3>3, <4>1
    <3>5. QED
      BY <3>4
  <2>3. QED
    BY <2>1, <2>2
<1> DEFINE g == [n \in Nat |-> f[n + 1][n]]
<1>9. Is(g)
  <2>1. Nat \subseteq H
    <3> HIDE DEF H
    <3>1. QED
      BY <1>8, StrongSetInduction
  <2>2. \A n \in Nat : g[n] = IF n = 0 THEN <<>> ELSE D(n) \o g[n \div mod]
    <3> TAKE n \in Nat
    <3>1. CASE n = 0
      BY <1>7, <3>1
    <3>2. CASE n # 0
      <4> DEFINE q == n \div mod
      <4>1. q \in Nat /\ q < n
        BY <1>0, <1>1, <3>2
      <4>2. f[n + 1][n] = D(n) \o f[n][q]
        BY <1>7, <3>2
      <4> HIDE DEF q
      <4>3. n - 1 \in Nat /\ n - 1 >= q /\ (n - 1) + 1 = n /\ q \in H
        BY <2>1, <4>1
      <4>4. f[n][q] = f[q + 1][q]
        BY <4>3
      <4>5. g[n] = D(n) \o g[q]
        BY <4>1, <4>2, <4>4
      <4>6. QED
        BY <3>2, <4>5 DEF q
    <3>3. QED
      BY <3>1, <3>2
  <2> DEFINE g2 == [n \in Nat |-> IF n = 0 THEN <<>> ELSE D(n) \o g[n \div mod]]
  <2>3. g = g2
    <3>1. \A n \in Nat : g[n] = g2[n]
      BY <2>2
    <3>2. QED
      BY <3>1
  <2>4. QED
    BY <2>3 DEF D
<1> HIDE DEF Is
<1>10. Is(digits)
  BY <1>9
<1>11. \A n \in Nat : Digits(n, mod) = digits[n]
  BY DEF Digits, Is
<1> HIDE DEF digits
<1>12. \A n \in Nat : digits[n] = IF n = 0 THEN <<>> ELSE D(n) \o digits[n \div mod]
  BY <1>10 DEF Is, D
<1> HIDE DEF g, H
<1> DEFINE Rest == {n \in Nat : digits[n] \in Seq(Characters)}
<1>13. ASSUME NEW n \in Nat, \A m \in 0 .. n - 1 : m \in Rest PROVE n \in Rest
  <2>1. CASE n = 0
    <3>1. digits[n] = <<>> /\ <<>> \in Seq(Characters)
      BY <1>12, <2>1, EmptySeq
    <3>2. QED
      BY <3>1
  <2>2. CASE n # 0
    <3>1. n \div mod \in 0 .. n - 1
      <4>1. n \div mod \in Nat /\ n \div mod < n
        BY <1>0, <1>1, <2>2
      <4>2. QED
        BY <4>1
    <3>2. digits[n \div mod] \in Seq(Characters) /\ D(n) \in Seq(Characters)
      BY <1>1, <1>13, <3>1
    <3>3. D(n) \o digits[n \div mod] \in Seq(Characters)
      BY <3>2
    <3>4. QED
      BY <1>12, <2>2, <3>3
  <2>3. QED
    BY <2>1, <2>2
<1>14. Nat \subseteq Rest
  <2> HIDE DEF Rest
  <2>1. QED
    BY <1>13, StrongSetInduction
<1>15. QED
  BY <1>1, <1>11, <1>12, <1>14 DEF D

\* Products grow with their factors.
LEMMA Scaling ==
  ASSUME NEW a \in Nat, NEW b \in Nat, NEW c \in Nat
  PROVE  a <= b => c * a <= c * b
  OBVIOUS

\* Only the quotient leaves a remainder smaller than the divisor.
LEMMA QuotientIs ==
  ASSUME NEW n \in Nat, NEW r \in Nat, r >= 1, NEW q \in Nat, NEW s \in Nat, s < r,
         n = r * q + s
  PROVE  n \div r = q
<1>1. n \div r \in Nat /\ n % r \in 0 .. r - 1 /\ n = r * (n \div r) + (n % r)
  BY Quotient
<1>2. ASSUME n \div r < q PROVE FALSE
  <2>1. (n \div r) + 1 <= q
    BY <1>1, <1>2
  <2>2. r * ((n \div r) + 1) <= r * q
    BY <1>1, <2>1, Scaling
  <2>3. r * ((n \div r) + 1) = r * (n \div r) + r
    BY <1>1
  <2>4. QED
    BY <1>1, <2>2, <2>3
<1>3. ASSUME n \div r > q PROVE FALSE
  <2>1. q + 1 <= n \div r
    BY <1>1, <1>3
  <2>2. r * (q + 1) <= r * (n \div r)
    BY <1>1, <2>1, Scaling
  <2>3. r * (q + 1) = r * q + r
    OBVIOUS
  <2>4. QED
    BY <1>1, <2>2, <2>3
<1>4. QED
  BY <1>1, <1>2, <1>3

\* An unsigned number that fits the width of an int is not changed by it.
LEMMA Within ==
  ASSUME NEW n \in Nat, NEW m \in Nat, n < m
  PROVE  n % m = n
<1>1. n \div m = 0
  BY QuotientIs
<1>2. m >= 1 /\ n % m \in 0 .. m - 1 /\ n = m * (n \div m) + (n % m)
  BY Quotient
<1>3. QED
  BY <1>1, <1>2

\* To divide twice is to divide by the product.
LEMMA QuotientTwice ==
  ASSUME NEW n \in Nat, NEW a \in Nat, a >= 1, NEW b \in Nat, b >= 1
  PROVE  (n \div a) \div b = n \div (a * b)
<1> DEFINE q == n \div a
           s == n % a
           t == q \div b
           u == q % b
<1>1. q \in Nat /\ s \in 0 .. a - 1 /\ n = a * q + s
  BY Quotient
<1> HIDE DEF q, s
<1>2. t \in Nat /\ u \in 0 .. b - 1 /\ q = b * t + u
  BY <1>1, Quotient
<1> HIDE DEF t, u
<1>3. a * b \in Nat /\ a * b >= 1
  OBVIOUS
<1>4. a * u + s \in Nat /\ a * u + s < a * b
  <2>1. a * (u + 1) <= a * b
    BY <1>2, Scaling
  <2>2. a * (u + 1) = a * u + a
    BY <1>2
  <2>3. a * u \in Nat
    BY <1>2
  <2>4. QED
    BY <1>1, <1>3, <2>1, <2>2, <2>3
<1>5. n = (a * b) * t + (a * u + s)
  <2>1. a * q = a * (b * t + u)
    BY <1>2
  <2>2. a * (b * t + u) = (a * b) * t + a * u
    BY <1>2
  <2>3. QED
    BY <1>1, <1>2, <1>4, <2>1, <2>2
<1>6. n \div (a * b) = t
  BY <1>2, <1>3, <1>4, <1>5, QuotientIs
<1>7. QED
  BY <1>6 DEF t, q

\* A quotient is below p exactly if the number is below p divisors.
LEMMA QuotientBelow ==
  ASSUME NEW n \in Nat, NEW r \in Nat, r >= 1, NEW p \in Nat
  PROVE  n < r * p <=> n \div r < p
<1>1. n \div r \in Nat /\ n % r \in 0 .. r - 1 /\ n = r * (n \div r) + (n % r)
  BY Quotient
<1>2. ASSUME n \div r < p PROVE n < r * p
  <2>1. r * ((n \div r) + 1) <= r * p
    BY <1>1, <1>2, Scaling
  <2>2. r * ((n \div r) + 1) = r * (n \div r) + r
    BY <1>1
  <2>3. r * p \in Nat
    OBVIOUS
  <2>4. QED
    BY <1>1, <2>1, <2>2, <2>3
<1>3. ASSUME ~(n \div r < p) PROVE ~(n < r * p)
  <2>1. r * p <= r * (n \div r)
    BY <1>1, <1>3, Scaling
  <2>2. r * p \in Nat /\ r * (n \div r) \in Nat
    BY <1>1
  <2>3. QED
    BY <1>1, <2>1, <2>2
<1>4. QED
  BY <1>2, <1>3

\* A power is not 0.
LEMMA PowerPositive ==
  ASSUME NEW r \in Nat, r >= 1, NEW n \in Nat
  PROVE  Power(r, n) \in Nat /\ Power(r, n) >= 1
<1> DEFINE G == {k \in Nat : Power(r, k) >= 1}
<1>1. 0 \in G
  BY Powers
<1>2. ASSUME NEW k \in Nat, k \in G PROVE k + 1 \in G
  <2>1. Power(r, k) \in Nat /\ Power(r, k) >= 1 /\ Power(r, k + 1) = r * Power(r, k)
    BY <1>2, Powers
  <2>2. r * 1 <= r * Power(r, k)
    BY <2>1, Scaling
  <2>3. QED
    BY <2>1, <2>2
<1> HIDE DEF G
<1>3. n \in G
  BY <1>1, <1>2, SetInduction
<1>4. QED
  BY <1>3, Powers DEF G

\* The powers of the radices are at least those of two: so many bits, at most
\* as many digits.
LEMMA PowerLarger ==
  ASSUME NEW r \in Nat, r >= 2, NEW n \in Nat
  PROVE  Power(2, n) <= Power(r, n)
<1> DEFINE G == {k \in Nat : Power(2, k) <= Power(r, k)}
<1>0. 2 \in Nat
  OBVIOUS
<1>1. 0 \in G
  <2>1. Power(2, 0) = 1 /\ Power(r, 0) = 1
    BY <1>0, Powers
  <2>2. QED
    BY <2>1
<1>2. ASSUME NEW k \in Nat, k \in G PROVE k + 1 \in G
  <2>1. Power(r, k) \in Nat /\ Power(r, k + 1) = r * Power(r, k)
    BY Powers
  <2>2. Power(2, k) \in Nat /\ Power(2, k + 1) = 2 * Power(2, k)
    BY <1>0, Powers
  <2>3. 2 * Power(2, k) <= 2 * Power(r, k)
    BY <1>2, <2>1, <2>2
  <2>4. Power(r, k) * 2 <= Power(r, k) * r
    BY <2>1, Scaling
  <2>5. r * Power(r, k) = Power(r, k) * r
    BY <2>1
  <2>6. 2 * Power(r, k) <= r * Power(r, k)
    BY <2>1, <2>4, <2>5
  <2>7. r * Power(r, k) \in Nat
    BY <2>1
  <2>8. QED
    BY <2>1, <2>2, <2>3, <2>6, <2>7
<1> HIDE DEF G
<1>3. n \in G
  BY <1>1, <1>2, SetInduction
<1>4. QED
  BY <1>3 DEF G

\* The p digits that itos finds are those of weights r^0, r^1 and so on, and p is the
\* least number of places that hold m.
DigitsAre(m, r, p) ==
  /\ p \in Nat \ {0} /\ Len(Digits(m, r)) = p
  /\ m < Power(r, p)
  /\ \A q \in Nat : q < p => Power(r, q) <= m
  /\ \A j \in 1 .. p : Digits(m, r)[j] = DigitChar((m \div Power(r, j - 1)) % r)

\* The digits of every number but 0 are those.
LEMMA DigitsRight ==
  ASSUME NEW r \in {10, 16}, NEW m \in Nat \ {0}
  PROVE  \E p : DigitsAre(m, r, p)
<1>0. r \in Nat /\ r >= 2 /\ r >= 1
  OBVIOUS
<1> DEFINE G == {k \in Nat : k # 0 => \E p : DigitsAre(k, r, p)}
<1>1. ASSUME NEW k \in Nat, \A i \in 0 .. k - 1 : i \in G PROVE k \in G
  <2> SUFFICES ASSUME k # 0 PROVE \E p : DigitsAre(k, r, p)
    OBVIOUS
  <2> DEFINE q == k \div r
             d == DigitChar(k % r)
             D == Digits(q, r)
  <2>1. q \in Nat /\ q < k
    BY <1>0, Quotient, QuotientLess
  <2>2. Digits(k, r) = <<d>> \o D /\ D \in Seq(Characters)
    BY <2>1, DigitsRecursion
  <2>3. k % r \in 0 .. r - 1 /\ d \in Characters
    BY <1>0, Quotient, DigitChars
  <2>4. Power(r, 0) = 1 /\ Power(r, 1) = r
    <3>1. Power(r, 0) = 1 /\ Power(r, 0 + 1) = r * Power(r, 0)
      BY <1>0, Powers
    <3>2. QED
      BY <3>1
  <2>5. k \div 1 = k
    OBVIOUS
  <2>6. CASE q = 0
    <3>1. Digits(k, r) = <<d>>
      <4>1. D = <<>>
        BY <2>6, DigitsRecursion
      <4>2. <<d>> \in Seq(Characters)
        BY <2>3
      <4>3. QED
        BY <2>2, <4>1, <4>2, ConcatEmptySeq
    <3>2. k < r
      <4>1. k < r * 1
        BY <1>0, <2>6, QuotientBelow
      <4>2. QED
        BY <4>1
    <3>3. DigitsAre(k, r, 1)
      <4>1. \A j \in 1 .. 1 : j = 1 /\ j - 1 = 0
        OBVIOUS
      <4>2. \A i \in Nat : i < 1 => Power(r, i) <= k
        BY <2>4
      <4>3. Digits(k, r)[1] = DigitChar((k \div Power(r, 0)) % r)
        BY <2>4, <2>5, <3>1
      <4>4. Len(Digits(k, r)) = 1
        BY <3>1
      <4>5. QED
        BY <2>4, <3>2, <4>1, <4>2, <4>3, <4>4 DEF DigitsAre
    <3>4. QED
      BY <3>3
  <2>7. CASE q # 0
    <3>1. PICK p : DigitsAre(q, r, p)
      <4>1. q \in 0 .. k - 1
        BY <2>1
      <4> HIDE DEF q
      <4>2. q \in G
        BY <1>1, <4>1
      <4>3. QED
        BY <2>7, <4>2
    <3>2. p \in Nat \ {0} /\ Len(D) = p
      BY <3>1 DEF DigitsAre
    <3> HIDE DEF D, d
    <3>3. /\ Len(Digits(k, r)) = p + 1 /\ Digits(k, r)[1] = d
          /\ \A j \in 2 .. p + 1 : Digits(k, r)[j] = D[j - 1]
      <4>1. <<d>> \in Seq(Characters) /\ Len(<<d>>) = 1 /\ <<d>>[1] = d
        BY <2>3
      <4>2. /\ Len(<<d>> \o D) = 1 + p
            /\ \A i \in 1 .. 1 + p : (<<d>> \o D)[i] = IF i <= 1 THEN <<d>>[i] ELSE D[i - 1]
        BY <2>2, <3>2, <4>1, ConcatProperties
      <4>3. QED
        BY <2>2, <3>2, <4>1, <4>2
    <3>4. k < Power(r, p + 1)
      <4>1. Power(r, p) \in Nat /\ Power(r, p + 1) = r * Power(r, p) /\ q < Power(r, p)
        BY <1>0, <3>1, <3>2, Powers DEF DigitsAre
      <4>2. QED
        BY <1>0, <4>1, QuotientBelow
    <3>5. ASSUME NEW i \in Nat, i < p + 1 PROVE Power(r, i) <= k
      <4>1. CASE i = 0
        BY <2>4, <4>1
      <4>2. CASE i # 0
        <5>1. i - 1 \in Nat /\ i - 1 < p /\ (i - 1) + 1 = i
          BY <3>2, <3>5, <4>2
        <5>2. Power(r, i - 1) \in Nat /\ Power(r, i) = r * Power(r, i - 1)
              /\ Power(r, i - 1) <= q
          <6>1. Power(r, i - 1) \in Nat /\ Power(r, (i - 1) + 1) = r * Power(r, i - 1)
            BY <1>0, <5>1, Powers
          <6>2. Power(r, i - 1) <= q
            BY <3>1, <5>1 DEF DigitsAre
          <6>3. QED
            BY <5>1, <6>1, <6>2
        <5>3. ~(q < Power(r, i - 1))
          BY <2>1, <5>2
        <5>4. ~(k < r * Power(r, i - 1))
          BY <1>0, <5>2, <5>3, QuotientBelow
        <5>5. r * Power(r, i - 1) \in Nat
          BY <1>0, <5>2
        <5>6. QED
          BY <5>2, <5>4, <5>5
      <4>3. QED
        BY <4>1, <4>2
    <3>6. ASSUME NEW j \in 1 .. p + 1
          PROVE  Digits(k, r)[j] = DigitChar((k \div Power(r, j - 1)) % r)
      <4>1. CASE j = 1
        BY <2>4, <2>5, <3>3, <4>1 DEF d
      <4>2. CASE j # 1
        <5>1. j - 1 \in 1 .. p /\ j \in 2 .. p + 1 /\ (j - 1) - 1 \in Nat
              /\ ((j - 1) - 1) + 1 = j - 1
          BY <3>2, <4>2
        <5>2. D[j - 1] = DigitChar((q \div Power(r, (j - 1) - 1)) % r)
          BY <3>1, <5>1 DEF DigitsAre, D
        <5>3. Power(r, (j - 1) - 1) \in Nat /\ Power(r, (j - 1) - 1) >= 1
              /\ Power(r, j - 1) = r * Power(r, (j - 1) - 1)
          <6>1. Power(r, (j - 1) - 1) \in Nat
                /\ Power(r, ((j - 1) - 1) + 1) = r * Power(r, (j - 1) - 1)
            BY <1>0, <5>1, Powers
          <6>2. Power(r, (j - 1) - 1) >= 1
            BY <1>0, <5>1, PowerPositive
          <6>3. QED
            BY <5>1, <6>1, <6>2
        <5>4. q \div Power(r, (j - 1) - 1) = k \div Power(r, j - 1)
          BY <1>0, <5>3, QuotientTwice
        <5>5. QED
          BY <3>3, <5>1, <5>2, <5>4
      <4>3. QED
        BY <4>1, <4>2
    <3>7. DigitsAre(k, r, p + 1)
      BY <3>2, <3>3, <3>4, <3>5, <3>6 DEF DigitsAre
    <3>8. QED
      BY <3>7
  <2>8. QED
    BY <2>6, <2>7
<1> HIDE DEF G
<1>2. m \in G
  BY <1>1, StrongSetInduction
<1>3. QED
  BY <1>2 DEF G

\* Reversed they are the numeral, and 0 has the one digit 0 (stdlib.cpp:11-40).
LEMMA ItosRight ==
  ASSUME NEW r \in {10, 16}, NEW m \in 0 .. Power(2, IntWidth) - 1,
         NEW places, places = CHOOSE p \in 1 .. IntWidth :
           m < Power(r, p) /\ \A q \in 1 .. IntWidth : m < Power(r, q) => p <= q
  PROVE  /\ Itos(m, r) \in Seq(Characters)
         /\ Itos(m, r) = [k \in 1 .. places |-> DigitChar((m \div Power(r, places - k)) % r)]
<1> DEFINE Enough(p) == m < Power(r, p) /\ \A q \in 1 .. IntWidth : m < Power(r, q) => p <= q
<1>0. r \in Nat /\ r >= 2 /\ r >= 1 /\ IntWidth \in Nat \ {0}
  BY PrintfAssumption
<1>1. Power(2, IntWidth) \in Nat /\ Power(2, IntWidth) <= Power(r, IntWidth)
      /\ Power(r, IntWidth) \in Nat /\ m \in Nat /\ m < Power(r, IntWidth)
  <2>1. 2 \in Nat
    OBVIOUS
  <2>2. Power(2, IntWidth) \in Nat /\ Power(r, IntWidth) \in Nat
    BY <1>0, <2>1, Powers
  <2>3. QED
    BY <1>0, <2>2, PowerLarger
<1>2. \A p \in 1 .. IntWidth : Enough(p) => places = p
  <2>1. SUFFICES ASSUME NEW p \in 1 .. IntWidth, Enough(p) PROVE places = p
    OBVIOUS
  <2>2. places = CHOOSE i \in 1 .. IntWidth : Enough(i)
    OBVIOUS
  <2> HIDE DEF Enough
  <2>3. places \in 1 .. IntWidth /\ Enough(places)
    BY <2>1, <2>2
  <2>4. places <= p /\ p <= places
    BY <2>1, <2>3 DEF Enough
  <2>5. QED
    BY <2>3, <2>4
<1>3. CASE m = 0
  <2>1. Power(r, 0) = 1 /\ Power(r, 1) = r
    <3>1. Power(r, 0) = 1 /\ Power(r, 0 + 1) = r * Power(r, 0)
      BY <1>0, Powers
    <3>2. QED
      BY <3>1
  <2>2. Enough(1) /\ 1 \in 1 .. IntWidth
    BY <1>0, <1>3, <2>1
  <2>3. places = 1
    <3> HIDE DEF Enough
    <3>1. QED
      BY <1>2, <2>2
  <2>4. (0 \div 1) % r = 0
    OBVIOUS
  <2>5. DigitChar(0) = 48 /\ 48 \in Characters
    BY DEF DigitChar, Characters
  <2>6. Itos(m, r) = <<48>>
    BY <1>3 DEF Itos
  <2>7. [k \in 1 .. places |-> DigitChar((m \div Power(r, places - k)) % r)] = [k \in 1 .. 1 |-> 48]
    <3>1. \A k \in 1 .. 1 : 1 - k = 0
      OBVIOUS
    <3>2. \A k \in 1 .. 1 : DigitChar((m \div Power(r, 1 - k)) % r) = 48
      BY <1>3, <2>1, <2>4, <2>5, <3>1
    <3>3. [k \in 1 .. places |-> DigitChar((m \div Power(r, places - k)) % r)]
          = [k \in 1 .. 1 |-> DigitChar((m \div Power(r, 1 - k)) % r)]
      BY <2>3, Zenon
    <3>4. QED
      BY <3>2, <3>3, Zenon
  <2>8. <<48>> = [k \in 1 .. 1 |-> 48]
    OBVIOUS
  <2>9. QED
    BY <2>5, <2>6, <2>7, <2>8
<1>4. CASE m # 0
  <2>1. PICK p : DigitsAre(m, r, p)
    BY <1>1, <1>4, DigitsRight
  <2>2. p \in Nat \ {0} /\ Len(Digits(m, r)) = p /\ m < Power(r, p)
        /\ (\A q \in Nat : q < p => Power(r, q) <= m)
        /\ (\A j \in 1 .. p : Digits(m, r)[j] = DigitChar((m \div Power(r, j - 1)) % r))
    BY <2>1 DEF DigitsAre
  <2>3. \A q \in Nat : m < Power(r, q) => p <= q
    <3> TAKE q \in Nat
    <3>1. Power(r, q) \in Nat
      BY <1>0, Powers
    <3>2. QED
      BY <1>1, <2>2, <3>1
  <2>4. p <= IntWidth
    BY <1>0, <1>1, <2>3
  <2>5. Enough(p) /\ p \in 1 .. IntWidth
    BY <1>0, <2>2, <2>3, <2>4
  <2>6. places = p
    <3> HIDE DEF Enough
    <3>1. QED
      BY <1>2, <2>5
  <2>7. Digits(m, r) \in Seq(Characters)
    BY <1>1, DigitsRecursion
  <2>8. Itos(m, r) = [k \in 1 .. p |-> Digits(m, r)[(p - k) + 1]]
    BY <1>4, <2>2 DEF Itos, Reverse
  <2>9. \A k \in 1 .. p : /\ Digits(m, r)[(p - k) + 1] \in Characters
                          /\ Digits(m, r)[(p - k) + 1] = DigitChar((m \div Power(r, p - k)) % r)
    <3> TAKE k \in 1 .. p
    <3>1. (p - k) + 1 \in 1 .. p /\ ((p - k) + 1) - 1 = p - k
      BY <2>2
    <3>2. QED
      BY <2>2, <2>7, <3>1, ElementOfSeq
  <2>10. [k \in 1 .. p |-> Digits(m, r)[(p - k) + 1]] \in Seq(Characters)
    BY <2>2, <2>9, IsASeq
  <2>11. QED
    BY <2>6, <2>8, <2>9, <2>10
<1>5. QED
  BY <1>3, <1>4

\* For every int, of any width, what printf puts into its buffer for %d and %x,
\* the sign and then the digits of itos, is the numeral of the number: also for
\* the smallest int, whose negation does not change it (stdio.cpp:246-260,
\* stdlib.cpp:11-40).
THEOREM ItosTheorem ==
  ASSUME NEW kind \in {"d", "x"}, NEW n \in Ints
  PROVE  /\ Itos(Magnitude(kind, n), Radix(kind)) \in Seq(Characters)
         /\ Numeral(kind, n) \in Seq(Characters)
         /\ (IF n < 0 /\ kind = "d" THEN <<45>> ELSE <<>>)
              \o Itos(Magnitude(kind, n), Radix(kind)) = Numeral(kind, n)
<1> DEFINE r == Radix(kind)
           M == Power(2, IntWidth)
           m == IF kind = "d" /\ n < 0 THEN -n ELSE n % M
           places == CHOOSE p \in 1 .. IntWidth :
                       m < Power(r, p) /\ \A q \in 1 .. IntWidth : m < Power(r, q) => p <= q
           sign == IF kind = "d" /\ n < 0 THEN <<45>> ELSE <<>>
           digits == [k \in 1 .. places |-> DigitChar((m \div Power(r, places - k)) % r)]
<1>1. r \in {10, 16}
  BY DEF Radix
<1>2. M \in Nat /\ M >= 1 /\ n \in Int /\ -n < M
  <2>1. 2 \in Nat /\ IntWidth - 1 \in Nat /\ (IntWidth - 1) + 1 = IntWidth /\ 2 >= 1
    BY PrintfAssumption
  <2>2. /\ Power(2, IntWidth) = 2 * Power(2, IntWidth - 1)
        /\ Power(2, IntWidth - 1) \in Nat /\ Power(2, IntWidth - 1) >= 1
    BY <2>1, Powers, PowerPositive
  <2>3. QED
    BY <2>2 DEF Ints
<1>3. m \in 0 .. M - 1 /\ Magnitude(kind, n) = m
  <2>1. CASE kind = "d" /\ n < 0
    <3>1. -n \in Nat /\ -n < M
      BY <1>2, <2>1
    <3>2. (-n) % M = -n
      BY <1>2, <3>1, Within
    <3> HIDE DEF M
    <3>3. QED
      BY <1>2, <2>1, <3>1, <3>2 DEF Magnitude, Unsigned, M
  <2>2. CASE ~(kind = "d" /\ n < 0)
    <3> HIDE DEF M
    <3>1. n % M \in 0 .. M - 1
      BY <1>2
    <3>2. QED
      BY <2>2, <3>1 DEF Magnitude, Unsigned, M
  <2>3. QED
    BY <2>1, <2>2
<1>4. Itos(m, r) \in Seq(Characters) /\ Itos(m, r) = digits
  <2> HIDE DEF r, m
  <2>1. QED
    BY <1>1, <1>3, ItosRight DEF M
<1>5. Numeral(kind, n) = sign \o digits
  BY DEF Numeral
<1>6. sign \in Seq(Characters)
  <2>1. 45 \in Characters
    BY DEF Characters
  <2>2. QED
    BY <2>1
<1> HIDE DEF digits, m, places
<1>7. QED
  BY <1>3, <1>4, <1>5, <1>6

-----------------------------------------------------------------------------
\* Texts, and what a format stands for.

\* A sequence of length 0 is empty.
LEMMA EmptyLength ==
  ASSUME NEW S, NEW s \in Seq(S), Len(s) = 0
  PROVE  s = <<>>
  BY EmptySeq

\* Concatenation is associative.
LEMMA Regroup ==
  ASSUME NEW C
  PROVE  \A a, b, c \in Seq(C) : (a \o b) \o c = a \o (b \o c)
  BY ConcatAssociative

\* How FlattenSeq of the community modules joins the sequences of t: f[i] joins
\* the first i of them.
IsFlat(t, f) == f = [i \in 1 .. Len(t) |-> IF i = 1 THEN t[i] ELSE f[i - 1] \o t[i]]

\* The function that FlattenSeq chooses.
Flat(t) == CHOOSE f : IsFlat(t, f)

\* It exists, and each of its values joins one sequence more.
LEMMA FlatSteps ==
  ASSUME NEW C, NEW t \in Seq(Seq(C))
  PROVE  /\ \A i \in 1 .. Len(t) : Flat(t)[i] = IF i = 1 THEN t[i] ELSE Flat(t)[i - 1] \o t[i]
         /\ \A i \in 1 .. Len(t) : Flat(t)[i] \in Seq(C)
         /\ FlattenSeq(t) = IF Len(t) = 0 THEN t ELSE Flat(t)[Len(t)]
<1> DEFINE S == Seq(C)
<1> DEFINE F == [n \in Nat |-> [v \in S |-> IF n + 1 <= Len(t) THEN v \o t[n + 1] ELSE v]]
<1>0. Len(t) \in Nat /\ \A i \in 1 .. Len(t) : t[i] \in S
  BY ElementOfSeq
<1>1. F \in [Nat -> [S -> S]]
  <2>1. \A n \in Nat, v \in S : (IF n + 1 <= Len(t) THEN v \o t[n + 1] ELSE v) \in S
    <3> TAKE n \in Nat, v \in S
    <3>1. CASE n + 1 <= Len(t)
      <4>1. n + 1 \in 1 .. Len(t)
        BY <1>0, <3>1
      <4>2. t[n + 1] \in S
        BY <1>0, <4>1
      <4>3. v \o t[n + 1] \in S
        BY <4>2, ConcatProperties
      <4>4. QED
        BY <3>1, <4>3
    <3>2. CASE ~(n + 1 <= Len(t))
      BY <3>2
    <3>3. QED
      BY <3>1, <3>2
  <2> HIDE DEF S
  <2>2. QED
    BY <2>1
<1>2. PICK g : Iterates(g, S, <<>>, F)
  <2>1. <<>> \in S
    BY EmptySeq
  <2> HIDE DEF S, F
  <2>2. QED
    BY <1>1, <2>1, Iteration
<1>3. g \in [Nat -> S] /\ g[0] = <<>>
      /\ \A n \in Nat : n + 1 <= Len(t) => g[n + 1] = g[n] \o t[n + 1]
  <2> HIDE DEF S
  <2>1. QED
    BY <1>2 DEF Iterates
<1> HIDE DEF F
<1> DEFINE h == [i \in 1 .. Len(t) |-> g[i]]
<1>4. IsFlat(t, h)
  <2>1. ASSUME NEW i \in 1 .. Len(t) PROVE h[i] = IF i = 1 THEN t[i] ELSE h[i - 1] \o t[i]
    <3>1. i - 1 \in Nat /\ (i - 1) + 1 = i /\ i <= Len(t)
      BY <1>0
    <3>2. g[i] = g[i - 1] \o t[i]
      BY <1>3, <3>1
    <3>3. CASE i = 1
      <4>0. i - 1 = 0
        BY <3>3
      <4>1. g[i] = <<>> \o t[i] /\ t[i] \in Seq(C)
        BY <1>0, <1>3, <3>2, <4>0
      <4>2. g[i] = t[i]
        BY <4>1, ConcatEmptySeq
      <4>3. QED
        BY <3>3, <4>2
    <3>4. CASE i # 1
      <4>1. i - 1 \in 1 .. Len(t)
        BY <1>0, <3>4
      <4>2. QED
        BY <3>2, <3>4, <4>1
    <3>5. QED
      BY <3>3, <3>4
  <2> DEFINE h2 == [i \in 1 .. Len(t) |-> IF i = 1 THEN t[i] ELSE h[i - 1] \o t[i]]
  <2>2. h = h2
    <3>1. \A i \in 1 .. Len(t) : h[i] = h2[i]
      BY <2>1
    <3>2. QED
      BY <3>1
  <2>3. QED
    BY <2>2 DEF IsFlat
<1> HIDE DEF h
<1>5. IsFlat(t, Flat(t))
  BY <1>4 DEF Flat
<1>6. \A i \in 1 .. Len(t) : Flat(t)[i] = IF i = 1 THEN t[i] ELSE Flat(t)[i - 1] \o t[i]
  BY <1>5 DEF IsFlat
<1> DEFINE G == {n \in Nat : n + 1 <= Len(t) => Flat(t)[n + 1] \in S}
<1>7. 0 \in G
  <2>1. 0 + 1 <= Len(t) => 1 \in 1 .. Len(t)
    BY <1>0
  <2>2. 0 + 1 <= Len(t) => Flat(t)[1] \in S
    BY <1>0, <1>6, <2>1
  <2>3. QED
    BY <2>2
<1>8. ASSUME NEW n \in Nat, n \in G PROVE n + 1 \in G
  <2> SUFFICES ASSUME (n + 1) + 1 <= Len(t) PROVE Flat(t)[(n + 1) + 1] \in S
    OBVIOUS
  <2>1. n + 1 <= Len(t) /\ (n + 1) + 1 \in 1 .. Len(t) /\ (n + 1) + 1 # 1
        /\ ((n + 1) + 1) - 1 = n + 1
    BY <1>0
  <2>2. Flat(t)[(n + 1) + 1] = Flat(t)[n + 1] \o t[(n + 1) + 1]
    BY <1>6, <2>1
  <2>3. Flat(t)[n + 1] \in S /\ t[(n + 1) + 1] \in S
    BY <1>0, <1>8, <2>1
  <2>4. QED
    BY <2>2, <2>3, ConcatProperties
<1> HIDE DEF G
<1>9. Nat \subseteq G
  BY <1>7, <1>8, SetInduction
<1>10. ASSUME NEW i \in 1 .. Len(t) PROVE Flat(t)[i] \in S
  <2>1. i - 1 \in Nat /\ (i - 1) + 1 = i /\ i <= Len(t)
    BY <1>0
  <2>2. i - 1 \in G
    BY <1>9, <2>1
  <2>3. QED
    BY <2>1, <2>2 DEF G
<1>11. FlattenSeq(t) = IF Len(t) = 0 THEN t ELSE Flat(t)[Len(t)]
  BY DEF FlattenSeq, Flat, IsFlat
<1>12. QED
  BY <1>6, <1>10, <1>11

\* A sequence of sequences is flattened by its head and the rest.
LEMMA FlattenHead ==
  ASSUME NEW C, NEW s \in Seq(Seq(C)), s # <<>>
  PROVE  /\ FlattenSeq(s) \in Seq(C)
         /\ FlattenSeq(s) = Head(s) \o FlattenSeq(Tail(s))
<1>2. \A a, b, c \in Seq(C) : (a \o b) \o c = a \o (b \o c)
  BY Regroup, SMTT(30)
<1> DEFINE S == Seq(C)
<1>1. /\ \A i \in 1 .. Len(s) : Flat(s)[i] = IF i = 1 THEN s[i] ELSE Flat(s)[i - 1] \o s[i]
      /\ \A i \in 1 .. Len(s) : Flat(s)[i] \in Seq(C)
      /\ FlattenSeq(s) = IF Len(s) = 0 THEN s ELSE Flat(s)[Len(s)]
  BY FlatSteps
<1>3. /\ Len(s) \in Nat \ {0} /\ Head(s) = s[1]
      /\ Tail(s) \in Seq(S) /\ Len(Tail(s)) = Len(s) - 1
      /\ \A i \in 1 .. Len(s) - 1 : Tail(s)[i] = s[i + 1]
      /\ \A i \in 1 .. Len(s) : s[i] \in S
  <2>1. Len(s) \in Nat /\ Len(s) # 0
    BY EmptySeq
  <2>2. Head(s) = s[1]
    OBVIOUS
  <2>3. QED
    BY <2>1, <2>2, HeadTailProperties, ElementOfSeq
<1>4. FlattenSeq(s) = Flat(s)[Len(s)] /\ Flat(s)[Len(s)] \in S
  BY <1>1, <1>3
<1>5. CASE Len(s) = 1
  <2>1. Flat(s)[1] = s[1]
    BY <1>1, <1>5
  <2>2. Tail(s) = <<>>
    <3> DEFINE t == Tail(s)
    <3>1. t \in Seq(S) /\ Len(t) = 0
      BY <1>3, <1>5
    <3> HIDE DEF t, S
    <3>2. t = <<>>
      BY <3>1, EmptyLength
    <3>3. QED
      BY <3>2 DEF t
  <2>3. FlattenSeq(<<>>) = <<>>
    BY DEF FlattenSeq
  <2>4. s[1] \in Seq(C)
    BY <1>3, <1>5
  <2>5. s[1] \o <<>> = s[1]
    BY <2>4, ConcatEmptySeq
  <2>6. QED
    BY <1>3, <1>4, <1>5, <2>1, <2>2, <2>3, <2>5
<1>6. CASE Len(s) # 1
  <2> DEFINE t == Tail(s)
             G == {n \in Nat : n + 2 <= Len(s) => Flat(s)[n + 2] = s[1] \o Flat(t)[n + 1]}
  <2>0. t \in Seq(S) /\ Len(t) = Len(s) - 1 /\ \A i \in 1 .. Len(s) - 1 : t[i] = s[i + 1]
    BY <1>3
  <2> HIDE DEF t
  <2>10. /\ \A i \in 1 .. Len(t) : Flat(t)[i] = IF i = 1 THEN t[i] ELSE Flat(t)[i - 1] \o t[i]
         /\ \A i \in 1 .. Len(t) : Flat(t)[i] \in Seq(C)
         /\ FlattenSeq(t) = IF Len(t) = 0 THEN t ELSE Flat(t)[Len(t)]
    BY <2>0, FlatSteps
  <2>1. 0 \in G
    <3>1. 2 \in 1 .. Len(s) /\ 1 \in 1 .. Len(s) /\ 1 \in 1 .. Len(t) /\ 2 - 1 = 1
      BY <1>3, <1>6, <2>0
    <3>2. Flat(s)[2] = Flat(s)[1] \o s[2] /\ Flat(s)[1] = s[1]
      <4>1. Flat(s)[2] = Flat(s)[2 - 1] \o s[2]
        <5>1. \A i \in 1 .. Len(s) : i # 1 => Flat(s)[i] = Flat(s)[i - 1] \o s[i]
          BY <1>1
        <5>2. 2 # 1
          OBVIOUS
        <5>3. QED
          BY <3>1, <5>1, <5>2, Zenon
      <4>2. Flat(s)[1] = s[1]
        BY <1>1, <3>1
      <4>3. QED
        BY <3>1, <4>1, <4>2
    <3>3. Flat(t)[1] = t[1] /\ t[1] = s[2]
      BY <2>0, <2>10, <3>1
    <3>4. Flat(s)[0 + 2] = s[1] \o Flat(t)[0 + 1]
      <4>1. 0 + 2 = 2 /\ 0 + 1 = 1
        OBVIOUS
      <4>2. QED
        BY <3>2, <3>3, <4>1
    <3>5. QED
      BY <3>4
  <2>2. ASSUME NEW n \in Nat, n \in G PROVE n + 1 \in G
    <3> SUFFICES ASSUME (n + 1) + 2 <= Len(s)
                 PROVE  Flat(s)[(n + 1) + 2] = s[1] \o Flat(t)[(n + 1) + 1]
      <4>1. n + 1 \in Nat
        OBVIOUS
      <4> HIDE DEF S
      <4>2. QED
        BY <4>1, Zenon
    <3>1. /\ n + 2 <= Len(s) /\ (n + 1) + 2 \in 1 .. Len(s) /\ (n + 1) + 2 # 1
          /\ ((n + 1) + 2) - 1 = n + 2 /\ n + 2 \in 1 .. Len(s) - 1
          /\ n + 2 \in 1 .. Len(t) /\ n + 2 # 1 /\ (n + 2) - 1 = n + 1 /\ n + 1 \in 1 .. Len(t)
          /\ (n + 2) + 1 = (n + 1) + 2 /\ (n + 1) + 1 = n + 2 /\ 1 \in 1 .. Len(s)
      BY <1>3, <2>0
    <3>2. Flat(s)[(n + 1) + 2] = Flat(s)[n + 2] \o s[(n + 1) + 2]
      BY <1>1, <3>1
    <3>3. Flat(s)[n + 2] = s[1] \o Flat(t)[n + 1]
      BY <2>2, <3>1
    <3>4. Flat(t)[n + 2] = Flat(t)[n + 1] \o t[n + 2]
      BY <2>0, <2>10, <3>1
    <3>5. t[n + 2] = s[(n + 1) + 2]
      BY <2>0, <3>1
    <3>6. s[1] \in Seq(C) /\ Flat(t)[n + 1] \in Seq(C) /\ t[n + 2] \in Seq(C)
      BY <1>1, <1>3, <2>0, <2>10, <3>1, <3>5
    <3>7. (s[1] \o Flat(t)[n + 1]) \o t[n + 2] = s[1] \o (Flat(t)[n + 1] \o t[n + 2])
      BY <1>2, <3>6, Zenon
    <3>8. QED
      BY <3>1, <3>2, <3>3, <3>4, <3>5, <3>7
  <2> HIDE DEF G
  <2>3. Nat \subseteq G
    BY <2>1, <2>2, SetInduction
  <2>4. Len(s) - 2 \in Nat /\ (Len(s) - 2) + 2 = Len(s) /\ (Len(s) - 2) + 1 = Len(t)
        /\ Len(t) # 0
    BY <1>3, <1>6, <2>0
  <2>5. Len(s) - 2 \in G
    BY <2>3, <2>4
  <2>6. Flat(s)[Len(s)] = s[1] \o Flat(t)[Len(t)]
    <3>1. (Len(s) - 2) + 2 <= Len(s)
      BY <1>3, <2>4
    <3>2. Flat(s)[(Len(s) - 2) + 2] = s[1] \o Flat(t)[(Len(s) - 2) + 1]
      BY <2>5, <3>1 DEF G
    <3>3. QED
      BY <2>4, <3>2
  <2>7. FlattenSeq(t) = Flat(t)[Len(t)]
    BY <2>0, <2>4, <2>10
  <2>8. QED
    BY <1>3, <1>4, <2>6, <2>7 DEF t
<1>7. QED
  BY <1>5, <1>6

\* What a directive shows is a text.
LEMMA ShownCharacters ==
  ASSUME NEW d \in Directives PROVE Shown(d) \in Seq(Characters)
<1>1. CASE d.kind \in {"literal", "c"}
  BY <1>1, IsASeq DEF Directives, Shown
<1>2. CASE d.kind = "s"
  BY <1>2 DEF Directives, Shown
<1>3. CASE d.kind = "%"
  <2>1. Shown(d) = <<37>>
    BY <1>3 DEF Shown
  <2>2. 37 \in Characters
    BY DEF Characters
  <2>3. QED
    BY <2>1, <2>2
<1>4. CASE d.kind \in {"d", "x"}
  <2>1. d.arg[1] \in Ints
    BY <1>4 DEF Directives
  <2>2. Shown(d) = Numeral(d.kind, d.arg[1])
    BY <1>4 DEF Shown
  <2>3. QED
    BY <1>4, <2>1, <2>2, ItosTheorem
<1>5. CASE d.kind \in {"other", "end"}
  <2>1. Shown(d) = <<>>
    BY <1>5 DEF Shown
  <2>2. QED
    BY <2>1, EmptySeq
<1>6. QED
  BY <1>1, <1>2, <1>3, <1>4, <1>5 DEF Directives

\* What a format stands for is what its first directive shows and then what the
\* rest stands for.
LEMMA Expansion ==
  ASSUME NEW f \in Seq(Directives)
  PROVE  /\ Expand(f) \in Seq(Characters)
         /\ Expand(<<>>) = <<>>
         /\ f # <<>> => Expand(f) = Shown(Head(f)) \o Expand(Tail(f))
<1> DEFINE texts(g) == [k \in DOMAIN g |-> Shown(g[k])]
<1>0. Expand(<<>>) = <<>>
  <2>1. Len(texts(<<>>)) = 0 /\ texts(<<>>) = <<>>
    OBVIOUS
  <2>2. QED
    BY <2>1 DEF Expand, FlattenSeq
<1>1. ASSUME NEW g \in Seq(Directives)
      PROVE  texts(g) \in Seq(Seq(Characters)) /\ Len(texts(g)) = Len(g)
             /\ \A k \in 1 .. Len(g) : texts(g)[k] = Shown(g[k])
  <2>1. DOMAIN g = 1 .. Len(g) /\ Len(g) \in Nat
    BY LenProperties
  <2>2. \A k \in 1 .. Len(g) : Shown(g[k]) \in Seq(Characters)
    BY ElementOfSeq, ShownCharacters
  <2>3. texts(g) \in [1 .. Len(g) -> Seq(Characters)]
    BY <2>1, <2>2
  <2>4. texts(g) \in Seq(Seq(Characters)) /\ Len(texts(g)) = Len(g)
    BY <2>1, <2>3, LenProperties
  <2>5. QED
    BY <2>1, <2>4
<1>2. CASE f = <<>>
  BY <1>0, <1>2, EmptySeq
<1>3. CASE f # <<>>
  <2>1. Tail(f) \in Seq(Directives) /\ Len(Tail(f)) = Len(f) - 1 /\ Len(f) \in Nat \ {0}
        /\ Head(f) = f[1] /\ \A k \in 1 .. Len(f) - 1 : Tail(f)[k] = f[k + 1]
    <3>1. Len(f) \in Nat /\ Len(f) # 0 /\ Head(f) = f[1]
      BY <1>3, EmptySeq
    <3>2. QED
      BY <1>3, <3>1, HeadTailProperties
  <2>2. /\ texts(f) \in Seq(Seq(Characters)) /\ Len(texts(f)) = Len(f)
        /\ \A k \in 1 .. Len(f) : texts(f)[k] = Shown(f[k])
    BY <1>1
  <2>3. /\ texts(Tail(f)) \in Seq(Seq(Characters)) /\ Len(texts(Tail(f))) = Len(f) - 1
        /\ \A k \in 1 .. Len(f) - 1 : texts(Tail(f))[k] = Shown(Tail(f)[k])
    BY <1>1, <2>1
  <2>4. Expand(f) = FlattenSeq(texts(f)) /\ Expand(Tail(f)) = FlattenSeq(texts(Tail(f)))
    BY DEF Expand
  <2> HIDE DEF texts
  <2>5. texts(f) # <<>>
    BY <2>1, <2>2
  <2>6. /\ Head(texts(f)) = Shown(Head(f)) /\ Tail(texts(f)) \in Seq(Seq(Characters))
        /\ Len(Tail(texts(f))) = Len(f) - 1
        /\ \A k \in 1 .. Len(f) - 1 : Tail(texts(f))[k] = texts(f)[k + 1]
    <3>1. Head(texts(f)) = texts(f)[1]
      BY <2>2, <2>5
    <3>2. QED
      BY <2>1, <2>2, <2>5, <3>1, HeadTailProperties
  <2>7. Tail(texts(f)) = texts(Tail(f))
    <3>1. \A k \in 1 .. Len(f) - 1 : Tail(texts(f))[k] = texts(Tail(f))[k]
      <4> TAKE k \in 1 .. Len(f) - 1
      <4>1. k + 1 \in 1 .. Len(f)
        BY <2>1
      <4>2. Tail(texts(f))[k] = Shown(f[k + 1])
        BY <2>2, <2>6, <4>1
      <4>3. texts(Tail(f))[k] = Shown(f[k + 1])
        BY <2>1, <2>3
      <4>4. QED
        BY <4>2, <4>3
    <3>2. QED
      BY <2>3, <2>6, <3>1, SeqEqual
  <2>8. QED
    BY <1>0, <1>3, <2>2, <2>4, <2>5, <2>6, <2>7, FlattenHead
<1>4. QED
  BY <1>2, <1>3

\* Texts joined are a text, as long as both.
LEMMA Joined ==
  ASSUME NEW C, NEW a \in Seq(C), NEW b \in Seq(C)
  PROVE  a \o b \in Seq(C) /\ Len(a \o b) = Len(a) + Len(b)
  BY ConcatProperties

\* The empty text adds nothing on either side.
LEMMA JoinedNothing ==
  ASSUME NEW C, NEW a \in Seq(C)
  PROVE  a \o <<>> = a /\ <<>> \o a = a
  BY ConcatEmptySeq

\* The head and the tail of two texts joined are those of the first one.
LEMMA JoinedHead ==
  ASSUME NEW C, NEW a \in Seq(C), NEW b \in Seq(C), a # <<>>
  PROVE  /\ a \o b # <<>> /\ Head(a \o b) = Head(a) /\ Tail(a \o b) = Tail(a) \o b
         /\ Tail(a) \in Seq(C) /\ Head(a) \in C /\ Len(a) = Len(Tail(a)) + 1
<1>1. Len(a) \in Nat /\ Len(a) # 0 /\ Len(b) \in Nat
  BY EmptySeq
<1>2. Head(a) = a[1] /\ Head(a) \in C /\ Tail(a) \in Seq(C) /\ Len(Tail(a)) = Len(a) - 1
      /\ \A i \in 1 .. Len(a) - 1 : Tail(a)[i] = a[i + 1]
  BY HeadTailProperties, <1>1, ElementOfSeq
<1> DEFINE s == a \o b
<1>3. s \in Seq(C) /\ Len(s) = Len(a) + Len(b)
      /\ \A i \in 1 .. Len(a) + Len(b) : s[i] = IF i <= Len(a) THEN a[i] ELSE b[i - Len(a)]
  BY ConcatProperties
<1> DEFINE t == Tail(a) \o b
<1>4. t \in Seq(C) /\ Len(t) = (Len(a) - 1) + Len(b)
      /\ \A i \in 1 .. (Len(a) - 1) + Len(b) :
            t[i] = IF i <= Len(a) - 1 THEN Tail(a)[i] ELSE b[i - (Len(a) - 1)]
  BY <1>2, ConcatProperties
<1> HIDE DEF s, t
<1>5. s # <<>>
  BY <1>1, <1>3
<1>6. Head(s) = s[1] /\ Tail(s) \in Seq(C) /\ Len(Tail(s)) = Len(s) - 1
      /\ \A i \in 1 .. Len(s) - 1 : Tail(s)[i] = s[i + 1]
  BY <1>3, <1>5, HeadTailProperties
<1>7. s[1] = a[1]
  BY <1>1, <1>3
<1>8. \A i \in 1 .. (Len(a) - 1) + Len(b) : Tail(s)[i] = t[i]
  <2> TAKE i \in 1 .. (Len(a) - 1) + Len(b)
  <2>1. i + 1 \in 1 .. Len(a) + Len(b) /\ i \in 1 .. Len(s) - 1
    BY <1>1, <1>3
  <2>2. Tail(s)[i] = IF i + 1 <= Len(a) THEN a[i + 1] ELSE b[(i + 1) - Len(a)]
    BY <1>3, <1>6, <2>1
  <2>3. CASE i <= Len(a) - 1
    <3>1. i + 1 <= Len(a) /\ i \in 1 .. Len(a) - 1
      BY <1>1, <2>3
    <3>2. QED
      BY <1>2, <1>4, <2>2, <2>3, <3>1
  <2>4. CASE ~(i <= Len(a) - 1)
    <3>1. ~(i + 1 <= Len(a)) /\ (i + 1) - Len(a) = i - (Len(a) - 1)
      BY <1>1, <2>4
    <3>2. QED
      BY <1>4, <2>2, <2>4, <3>1
  <2>5. QED
    BY <2>3, <2>4
<1>9. Tail(s) = t
  <2>1. Len(Tail(s)) = (Len(a) - 1) + Len(b)
    BY <1>1, <1>3, <1>6
  <2>2. QED
    BY <1>4, <1>6, <1>8, <2>1, SeqEqual
<1>10. QED
  BY <1>1, <1>2, <1>5, <1>6, <1>7, <1>9 DEF s, t

\* Regroup for texts, as the provers use it best.
LEMMA RegroupText ==
  \A a, b, c \in Seq(Characters) : (a \o b) \o c = a \o (b \o c)
  BY Regroup

\* What leaves the front of n and e may be put behind p: the whole stays the same.
LEMMA TodoMoves ==
  \A p, n, e, x, n2, e2 \in Seq(Characters) :
    n \o e = x \o (n2 \o e2) => (p \o n) \o e = ((p \o x) \o n2) \o e2
<1> TAKE p, n, e, x, n2, e2 \in Seq(Characters)
<1> HAVE n \o e = x \o (n2 \o e2)
<1>1. /\ p \in Seq(Characters) /\ n \in Seq(Characters) /\ e \in Seq(Characters)
      /\ x \in Seq(Characters) /\ n2 \in Seq(Characters) /\ e2 \in Seq(Characters)
  OBVIOUS
<1>2. n2 \o e2 \in Seq(Characters) /\ p \o x \in Seq(Characters)
  BY Joined
<1>3. (p \o n) \o e = p \o (x \o (n2 \o e2))
  <2>1. (p \o n) \o e = p \o (n \o e)
    BY RegroupText, <1>1, ZenonT(60)
  <2>2. QED
    BY <2>1
<1> DEFINE u == p \o x
           v == n2 \o e2
<1>4. (p \o x) \o v = p \o (x \o v)
  <2>1. v \in Seq(Characters)
    BY <1>2
  <2> HIDE DEF u, v
  <2>2. \A c \in Seq(Characters) : (p \o x) \o c = p \o (x \o c)
    BY RegroupText, <1>1, ZenonT(60)
  <2>3. QED
    BY <2>1, <2>2
<1>5. (u \o n2) \o e2 = u \o (n2 \o e2)
  <2>1. u \in Seq(Characters)
    BY <1>2
  <2> HIDE DEF u, v
  <2>2. QED
    BY RegroupText, <1>1, <2>1, ZenonT(60)
<1>6. QED
  BY <1>3, <1>4, <1>5

\* JoinedHead for texts.
LEMMA HeadText ==
  \A a, b \in Seq(Characters) :
    a # <<>> => /\ a \o b \in Seq(Characters) /\ a \o b # <<>>
                /\ Head(a \o b) = Head(a) /\ Tail(a \o b) = Tail(a) \o b
                /\ Tail(a) \in Seq(Characters)
  BY JoinedHead, Joined

-----------------------------------------------------------------------------
\* The cursor, as the calls of stdio.cpp:21-166 use it.

\* Registers and locals keep their types; the text and the cells of the screen
\* do not matter for the cursor.
CursorTypeOK ==
  /\ index \in Halves
  /\ register \in [Halves -> 0 .. Base - 1]
  /\ pc \in [Writers -> Steps]
  /\ position \in [Writers -> Nat]

\* The cursor is on the screen but between the two writes of moveCursor, whose
\* high half then is that of a position on the screen; each access to a half
\* finds it selected.
Halfway(w) ==
  /\ pc[w] \notin {"selectLowAgain", "writeLow"} => Cursor < Size
  /\ pc[w] = "writeHigh" => index = "high"
  /\ pc[w] = "writeLow" => index = "low"
  /\ pc[w] \in {"writeHigh", "selectLowAgain", "writeLow"} => position[w] < Size
  /\ pc[w] \in {"selectLowAgain", "writeLow"} =>
       register["high"] = (position[w] \div Base) % Base

\* The cursor's part of the invariant.
CursorInv == CursorTypeOK /\ \A w \in Writers : Halfway(w)

\* What the initial states of Printf and of SharedConsole have in common.
ConsoleInitially ==
  /\ ConsoleInit
  /\ \E n \in 0 .. Size - 1 : register = [high |-> n \div Base, low |-> n % Base]

\* What a writer's step may do to the console.
ConsoleMoves(w) ==
  \/ Step(w) \/ PrintReturns(w)
  \/ \E s : PrintString(w, s)
  \/ \E x, y \in Nat : MoveTo(w, x, y) \/ \E c : PrintAt(w, x, y, c)
  \/ UNCHANGED consoleVars

\* A number is put together again from its quotient and its remainder.
LEMMA Halving ==
  ASSUME NEW p \in Nat, NEW b \in Nat \ {0}
  PROVE  /\ p \div b \in Nat
         /\ p % b \in 0 .. b - 1
         /\ p = (p \div b) * b + (p % b)
  OBVIOUS

\* The high half of a number that two registers can hold fits one of them.
LEMMA HighHalf ==
  ASSUME NEW p \in Nat, NEW b \in Nat \ {0}, p < b * b
  PROVE  /\ p \div b \in 0 .. b - 1
         /\ (p \div b) % b = p \div b
<1>1. p \div b \in 0 .. b - 1
  OBVIOUS
<1>2. \A q \in 0 .. b - 1 : q % b = q
  OBVIOUS
<1>3. QED
  BY <1>1, <1>2

\* The number of a cell of the screen is what moveCursor makes of its two halves.
LEMMA CellHalves ==
  ASSUME NEW p \in Nat, p < Size
  PROVE  /\ (p \div Base) % Base \in 0 .. Base - 1
         /\ p % Base \in 0 .. Base - 1
         /\ ((p \div Base) % Base) * Base + (p % Base) = p
<1>1. Base \in Nat \ {0} /\ p < Base * Base
  BY ConsoleAssumption DEF Size
<1>2. QED
  BY <1>1, Halving, HighHalf

\* Products of the code's numbers are numbers.
LEMMA SizeType == Size \in Nat /\ Base \in Nat \ {0} /\ Columns \in Nat \ {0} /\ Rows \in Nat \ {0}
  BY ConsoleAssumption DEF Size

\* The invariant holds at the start, wherever the cursor is on the screen.
LEMMA ConsoleStarts == ConsoleInitially => CursorInv
<1> SUFFICES ASSUME ConsoleInitially PROVE CursorInv
  OBVIOUS
<1> USE DEF ConsoleInitially, ConsoleInit
<1>1. PICK n \in 0 .. Size - 1 : register = [high |-> n \div Base, low |-> n % Base]
  OBVIOUS
<1>2. n \in Nat /\ n < Size /\ n < Base * Base
  BY SizeType, ConsoleAssumption DEF Size
<1>3. n \div Base \in 0 .. Base - 1 /\ n % Base \in 0 .. Base - 1
      /\ (n \div Base) * Base + (n % Base) = n
  BY <1>2, SizeType, Halving, HighHalf
<1>4. register["high"] = n \div Base /\ register["low"] = n % Base
  BY <1>1
<1>5. register \in [Halves -> 0 .. Base - 1]
  BY <1>1, <1>3 DEF Halves
<1>6. CursorTypeOK
  BY <1>5 DEF CursorTypeOK, Steps
<1>7. Cursor < Size
  BY <1>2, <1>3, <1>4 DEF Cursor
<1>8. QED
  BY <1>6, <1>7 DEF CursorInv, Halfway

\* Steps that touch neither registers nor the writer's place in moveCursor.
LEMMA QuietStep ==
  ASSUME NEW w, Writers = {w}, CursorInv, CursorTypeOK', UNCHANGED ports,
         Cursor < Size,
         pc'[w] \notin {"writeHigh", "selectLowAgain", "writeLow"}
  PROVE  CursorInv'
<1>1. Cursor' = Cursor
  BY DEF Cursor, ports
<1>2. Halfway(w)'
  BY <1>1 DEF Halfway
<1>3. QED
  BY <1>2 DEF CursorInv

\* Every step of the only writer keeps the invariant.
LEMMA StepCursor == ASSUME NEW w, Writers = {w}, CursorInv, Step(w) PROVE CursorInv'
<1> USE DEF Goto, At, Select
<1>0. w \in Writers /\ CursorTypeOK /\ Halfway(w)
  BY DEF CursorInv
<1>1. CASE SelectHigh(w)
  <2>1. CursorTypeOK' /\ Cursor' = Cursor /\ pc'[w] = "readHigh" /\ Cursor < Size
    BY <1>0, <1>1 DEF SelectHigh, CursorTypeOK, Halfway, Cursor, Halves, Steps
  <2>2. QED
    BY <2>1 DEF CursorInv, Halfway
<1>2. CASE ReadHigh(w)
  <2>1. register[index] * Base \in Nat
    BY <1>0, SizeType DEF CursorTypeOK
  <2>2. CursorTypeOK' /\ UNCHANGED ports /\ Cursor < Size /\ pc'[w] = "selectLow"
    BY <1>0, <1>2, <2>1 DEF ReadHigh, CursorTypeOK, Halfway, Steps, ports
  <2>3. QED
    BY <2>2, QuietStep
<1>3. CASE SelectLow(w)
  <2>1. CursorTypeOK' /\ Cursor' = Cursor /\ pc'[w] = "readLow" /\ Cursor < Size
    BY <1>0, <1>3 DEF SelectLow, CursorTypeOK, Halfway, Cursor, Halves, Steps
  <2>2. QED
    BY <2>1 DEF CursorInv, Halfway
<1>4. CASE ReadLow(w)
  <2>1. position[w] + register[index] \in Nat
    BY <1>0, SizeType DEF CursorTypeOK
  <2>2. CursorTypeOK' /\ UNCHANGED ports /\ Cursor < Size /\ pc'[w] = "put"
    BY <1>0, <1>4, <2>1 DEF ReadLow, CursorTypeOK, Halfway, Steps, ports
  <2>3. QED
    BY <2>2, QuietStep
<1>5. CASE PutGlyph(w)
  <2>1. position[w] \in Nat /\ Size - Columns \in Nat
    <3>1. Rows * Columns - Columns = (Rows - 1) * Columns
      BY SizeType
    <3>2. (Rows - 1) * Columns \in Nat
      BY SizeType
    <3>3. QED
      BY <1>0, <3>1, <3>2 DEF CursorTypeOK, Size
  <2>2. CursorTypeOK' /\ UNCHANGED ports /\ Cursor < Size /\ pc'[w] \in {"roll", "move"}
    BY <1>0, <1>5, <2>1 DEF PutGlyph, CursorTypeOK, Halfway, Steps, ports
  <2>3. QED
    BY <2>2, QuietStep
<1>6. CASE PutNewline(w)
  <2>1. \A q \in Nat : q * Columns \in Nat
    BY SizeType
  <2>2. position[w] \div Columns \in Nat
    BY <1>0, SizeType, Halving DEF CursorTypeOK
  <2>3. CursorTypeOK' /\ UNCHANGED ports /\ Cursor < Size /\ pc'[w] \in {"roll", "move"}
    BY <1>0, <1>6, <2>1, <2>2 DEF PutNewline, CursorTypeOK, Halfway, Steps, ports
  <2>4. QED
    BY <2>3, QuietStep
<1>7. CASE Roll(w)
  <2>1. CursorTypeOK' /\ UNCHANGED ports /\ Cursor < Size /\ pc'[w] \in {"roll", "move"}
    BY <1>0, <1>7 DEF Roll, CursorTypeOK, Halfway, Steps, ports
  <2>2. QED
    BY <2>1, QuietStep
<1>8. CASE EnterMoveCursor(w)
  <2>1. CASE position[w] >= Size
    <3>1. CursorTypeOK' /\ UNCHANGED ports /\ Cursor < Size /\ pc'[w] = "print"
      BY <1>0, <1>8, <2>1 DEF EnterMoveCursor, Moved, CursorTypeOK, Halfway, Steps, ports
    <3>2. QED
      BY <3>1, QuietStep
  <2>2. CASE ~(position[w] >= Size)
    <3>1. CursorTypeOK' /\ Cursor' = Cursor /\ pc'[w] = "writeHigh" /\ index' = "high" /\ Cursor < Size
      BY <1>0, <1>8, <2>2 DEF EnterMoveCursor, CursorTypeOK, Halfway, Cursor, Halves, Steps
    <3>2. position'[w] < Size
      BY <1>0, <1>8, <2>2, SizeType DEF EnterMoveCursor, CursorTypeOK
    <3>3. QED
      BY <3>1, <3>2 DEF CursorInv, Halfway
  <2>3. QED
    BY <2>1, <2>2
<1>9. CASE WriteHigh(w)
  <2>1. position[w] \in Nat /\ position[w] < Size /\ index = "high"
    BY <1>0, <1>9 DEF WriteHigh, CursorTypeOK, Halfway
  <2>2. (position[w] \div Base) % Base \in 0 .. Base - 1
    BY <2>1, CellHalves
  <2>3. /\ CursorTypeOK' /\ pc'[w] = "selectLowAgain" /\ position'[w] < Size
        /\ register'["high"] = (position'[w] \div Base) % Base
    BY <1>0, <1>9, <2>1, <2>2 DEF WriteHigh, CursorTypeOK, Halves, Steps
  <2>4. QED
    BY <2>3 DEF CursorInv, Halfway
<1>10. CASE SelectLowAgain(w)
  <2>1. /\ CursorTypeOK' /\ pc'[w] = "writeLow" /\ position'[w] < Size /\ index' = "low"
        /\ register'["high"] = (position'[w] \div Base) % Base
    BY <1>0, <1>10 DEF SelectLowAgain, CursorTypeOK, Halfway, Halves, Steps
  <2>2. QED
    BY <2>1 DEF CursorInv, Halfway
<1>11. CASE WriteLow(w)
  <2>1. /\ position[w] \in Nat /\ position[w] < Size /\ index = "low"
        /\ register["high"] = (position[w] \div Base) % Base
    BY <1>0, <1>11 DEF WriteLow, CursorTypeOK, Halfway
  <2>2. position[w] % Base \in 0 .. Base - 1
    BY <2>1, CellHalves
  <2>3. /\ CursorTypeOK' /\ pc'[w] = "print"
        /\ register'["low"] = position[w] % Base /\ register'["high"] = register["high"]
    BY <1>0, <1>11, <2>1, <2>2 DEF WriteLow, Moved, CursorTypeOK, Halves, Steps
  <2>4. Cursor' = position[w]
    BY <2>1, <2>3, CellHalves DEF Cursor
  <2>5. QED
    BY <2>1, <2>3, <2>4 DEF CursorInv, Halfway
<1>12. QED
  BY <1>1, <1>2, <1>3, <1>4, <1>5, <1>6, <1>7, <1>8, <1>9, <1>10, <1>11 DEF Step

\* Every call and every step of the only writer keeps the invariant.
LEMMA MovesCursor == ASSUME NEW w, Writers = {w}, CursorInv, ConsoleMoves(w) PROVE CursorInv'
<1> USE DEF Goto, At
<1>0. w \in Writers /\ CursorTypeOK /\ Halfway(w)
  BY DEF CursorInv
<1>1. CASE Step(w)
  BY <1>1, StepCursor
<1>2. CASE PrintReturns(w)
  <2>1. CursorTypeOK' /\ UNCHANGED ports /\ Cursor < Size /\ pc'[w] = "idle"
    BY <1>0, <1>2 DEF PrintReturns, CursorTypeOK, Halfway, Steps, ports
  <2>2. QED
    BY <2>1, QuietStep
<1>3. ASSUME NEW s, PrintString(w, s) PROVE CursorInv'
  <2>1. CursorTypeOK' /\ UNCHANGED ports /\ Cursor < Size /\ pc'[w] = "print"
    BY <1>0, <1>3 DEF PrintString, CursorTypeOK, Halfway, Steps, ports
  <2>2. QED
    BY <2>1, QuietStep
<1>4. ASSUME NEW x \in Nat, NEW y \in Nat, MoveTo(w, x, y) PROVE CursorInv'
  <2>1. x * Columns + y \in Nat
    BY SizeType
  <2>2. CursorTypeOK' /\ UNCHANGED ports /\ Cursor < Size /\ pc'[w] \in {"idle", "move"}
    BY <1>0, <1>4, <2>1 DEF MoveTo, CursorTypeOK, Halfway, Steps, ports
  <2>3. QED
    BY <2>2, QuietStep
<1>5. ASSUME NEW x, NEW y, NEW c, PrintAt(w, x, y, c) PROVE CursorInv'
  <2>1. CursorTypeOK' /\ UNCHANGED ports /\ Cursor < Size /\ pc'[w] = "idle"
    BY <1>0, <1>5 DEF PrintAt, CursorTypeOK, Halfway, ports
  <2>2. QED
    BY <2>1, QuietStep
<1>6. CASE UNCHANGED consoleVars
  BY <1>6 DEF consoleVars, ports, CursorInv, CursorTypeOK, Halfway, Cursor
<1>7. QED
  BY <1>1, <1>2, <1>3, <1>4, <1>5, <1>6 DEF ConsoleMoves

\* Between two characters the invariant says that the cursor is on the screen.
LEMMA SettledOnScreen == ASSUME NEW w \in Writers, CursorInv PROVE CursorOnScreen
  BY DEF CursorInv, Halfway, CursorOnScreen, Settled

\* The console with one writer.
Shared == INSTANCE SharedConsole

\* The steps of the writers of SharedConsole are those of Console.
LEMMA SharedStep ==
  ASSUME NEW w, Shared!Step(w) PROVE Step(w)
<1> USE DEF Goto, At, Select, Moved, Size, ports, Shared!Goto, Shared!At, Shared!Select, Shared!Moved, Shared!Size, Shared!ports
<1>1. Shared!SelectHigh(w) => SelectHigh(w)
  BY DEF SelectHigh, Shared!SelectHigh
<1>2. Shared!ReadHigh(w) => ReadHigh(w)
  BY DEF ReadHigh, Shared!ReadHigh
<1>3. Shared!SelectLow(w) => SelectLow(w)
  BY DEF SelectLow, Shared!SelectLow
<1>4. Shared!ReadLow(w) => ReadLow(w)
  BY DEF ReadLow, Shared!ReadLow
<1>5. Shared!PutGlyph(w) => PutGlyph(w)
  BY DEF PutGlyph, Shared!PutGlyph
<1>6. Shared!PutNewline(w) => PutNewline(w)
  BY DEF PutNewline, Shared!PutNewline
<1>7. Shared!Roll(w) => Roll(w)
  BY DEF Roll, Shared!Roll
<1>8. Shared!EnterMoveCursor(w) => EnterMoveCursor(w)
  BY DEF EnterMoveCursor, Shared!EnterMoveCursor
<1>9. Shared!WriteHigh(w) => WriteHigh(w)
  BY DEF WriteHigh, Shared!WriteHigh
<1>10. Shared!SelectLowAgain(w) => SelectLowAgain(w)
  BY DEF SelectLowAgain, Shared!SelectLowAgain
<1>11. Shared!WriteLow(w) => WriteLow(w)
  BY DEF WriteLow, Shared!WriteLow
<1>12. QED
  BY <1>1, <1>2, <1>3, <1>4, <1>5, <1>6, <1>7, <1>8, <1>9, <1>10, <1>11 DEF Step, Shared!Step

\* So are the calls.
LEMMA SharedMoves ==
  ASSUME NEW w, Writers = {w}, [Shared!Next]_(Shared!consoleVars) PROVE ConsoleMoves(w)
<1> USE DEF Goto, At, ports, Shared!Goto, Shared!At, Shared!ports
<1>1. Shared!Step(w) => Step(w)
  BY SharedStep
<1>2. Shared!PrintReturns(w) => PrintReturns(w)
  BY DEF PrintReturns, Shared!PrintReturns
<1>3. ASSUME NEW t, Shared!PrintString(w, t) PROVE PrintString(w, t)
  BY <1>3 DEF PrintString, Shared!PrintString
<1>4. ASSUME NEW x, NEW y, Shared!MoveTo(w, x, y) PROVE MoveTo(w, x, y)
  BY <1>4 DEF MoveTo, Shared!MoveTo
<1>5. 0 .. Rows - 1 \subseteq Nat /\ 0 .. Columns - 1 \subseteq Nat
  BY SizeType
<1>6. CASE UNCHANGED Shared!consoleVars
  BY <1>6 DEF consoleVars, Shared!consoleVars, ConsoleMoves
<1>7. CASE Shared!Next
  BY <1>1, <1>2, <1>3, <1>4, <1>5, <1>7 DEF Shared!Next, ConsoleMoves
<1>8. QED
  BY <1>6, <1>7

\* SharedConsole starts as Printf does.
LEMMA SharedInit == Shared!Init => ConsoleInitially
  BY DEF Shared!Init, Shared!ConsoleInit, Shared!Size, Shared!Halves, ConsoleInitially, ConsoleInit, Size, Halves

\* With one writer the cursor never leaves the screen: the "0-1999" of
\* stdio.cpp:89, for any screen that two registers can number and any text;
\* with two, the run of SharedConsole shows it leave.
THEOREM OneWriterTheorem ==
  ASSUME NEW w, Writers = {w} PROVE Shared!Spec => []CursorOnScreen
<1>1. Shared!Init => CursorInv
  BY SharedInit, ConsoleStarts
<1>2. CursorInv /\ [Shared!Next]_(Shared!consoleVars) => CursorInv'
  BY SharedMoves, MovesCursor
<1>3. CursorInv => CursorOnScreen
  BY SettledOnScreen
<1>4. QED
  BY <1>1, <1>2, <1>3, PTL DEF Shared!Spec

-----------------------------------------------------------------------------
\* The buffer of printf, stdio.cpp:168-186.

\* The first n characters in the buffer b.
Held(b, n) == [k \in 1 .. n |-> b[k - 1]]

\* They are a text if none of them is the NUL or was never written.
LEMMA HeldCharacters ==
  ASSUME NEW b \in [0 .. BufferLength -> Nat], NEW n \in 0 .. BufferLength,
         \A k \in 0 .. n - 1 : b[k] \in Characters
  PROVE  Held(b, n) \in Seq(Characters) /\ Len(Held(b, n)) = n
<1>1. BufferLength \in Nat /\ n \in Nat /\ DOMAIN b = 0 .. BufferLength
  BY PrintfAssumption
<1>2. \A k \in 1 .. n : b[k - 1] \in Characters
  <2> TAKE k \in 1 .. n
  <2>1. k - 1 \in 0 .. n - 1
    BY <1>1
  <2>2. QED
    BY <2>1
<1>3. Held(b, n) \in [1 .. n -> Characters]
  BY <1>2 DEF Held
<1>4. QED
  BY <1>1, <1>3, LenProperties

\* At the start of the buffer nothing is held.
LEMMA HeldNothing == ASSUME NEW b PROVE Held(b, 0) = <<>>
  BY DEF Held

\* A character put behind those held is held as the last one (stdio.cpp:169-186).
LEMMA HeldMore ==
  ASSUME NEW b \in [0 .. BufferLength -> Nat], NEW n \in 0 .. BufferLength - 1,
         \A k \in 0 .. n - 1 : b[k] \in Characters, NEW c \in Characters
  PROVE  /\ [b EXCEPT ![n] = c] \in [0 .. BufferLength -> Nat]
         /\ \A k \in 0 .. n : [b EXCEPT ![n] = c][k] \in Characters
         /\ Held([b EXCEPT ![n] = c], n + 1) = Held(b, n) \o <<c>>
<1> DEFINE b2 == [b EXCEPT ![n] = c]
<1>1. BufferLength \in Nat /\ n \in Nat /\ n + 1 \in 0 .. BufferLength /\ n \in 0 .. BufferLength /\ (n + 1) - 1 = n
  BY PrintfAssumption
<1>2. b2 \in [0 .. BufferLength -> Nat] /\ b2[n] = c /\ \A k \in 0 .. n - 1 : b2[k] = b[k]
  BY <1>1 DEF Characters
<1>3. \A k \in 0 .. n : b2[k] \in Characters
  <2> TAKE k \in 0 .. n
  <2>1. k \in 0 .. n - 1 \/ k = n
    BY <1>1
  <2>2. QED
    BY <1>2, <2>1
<1> HIDE DEF b2
<1>4. Held(b, n) \in Seq(Characters) /\ Len(Held(b, n)) = n
  BY <1>1, HeldCharacters
<1>5. Held(b2, n + 1) \in Seq(Characters) /\ Len(Held(b2, n + 1)) = n + 1
  <2>1. \A k \in 0 .. (n + 1) - 1 : b2[k] \in Characters
    BY <1>1, <1>3
  <2>2. QED
    BY <1>1, <1>2, <2>1, HeldCharacters
<1>6. <<c>> \in Seq(Characters) /\ Len(<<c>>) = 1 /\ <<c>>[1] = c
  OBVIOUS
<1>7. /\ Held(b, n) \o <<c>> \in Seq(Characters) /\ Len(Held(b, n) \o <<c>>) = n + 1
      /\ \A i \in 1 .. n + 1 : (Held(b, n) \o <<c>>)[i] = IF i <= n THEN Held(b, n)[i] ELSE <<c>>[i - n]
  BY <1>4, <1>6, ConcatProperties
<1>8. \A i \in 1 .. n + 1 : Held(b2, n + 1)[i] = (Held(b, n) \o <<c>>)[i]
  <2> TAKE i \in 1 .. n + 1
  <2>1. Held(b2, n + 1)[i] = b2[i - 1]
    BY DEF Held
  <2>2. CASE i <= n
    <3>1. i \in 1 .. n /\ i - 1 \in 0 .. n - 1
      BY <1>1, <2>2
    <3>2. Held(b, n)[i] = b[i - 1]
      BY <3>1 DEF Held
    <3>3. QED
      BY <1>2, <1>7, <2>1, <2>2, <3>1, <3>2
  <2>3. CASE ~(i <= n)
    <3>1. i - n = 1 /\ i - 1 = n
      BY <1>1, <2>3
    <3>2. QED
      BY <1>2, <1>6, <1>7, <2>1, <2>3, <3>1
  <2>4. QED
    BY <2>2, <2>3
<1>9. Held(b2, n + 1) = Held(b, n) \o <<c>>
  BY <1>5, <1>7, <1>8, SeqEqual
<1>10. QED
  BY <1>2, <1>3, <1>9 DEF b2

\* With a NUL behind them, print(str) finds exactly the characters held
\* (stdio.cpp:175, 239, 269).
LEMMA CStringHeld ==
  ASSUME NEW b \in [0 .. BufferLength -> Nat], NEW n \in 0 .. BufferLength,
         \A k \in 0 .. n - 1 : b[k] \in Characters
  PROVE  /\ [b EXCEPT ![n] = NUL] \in [0 .. BufferLength -> Nat]
         /\ \A k \in 0 .. n - 1 : [b EXCEPT ![n] = NUL][k] = b[k]
         /\ CString([b EXCEPT ![n] = NUL]) = Held(b, n)
<1> DEFINE b2 == [b EXCEPT ![n] = NUL]
           Ends(k) == b2[k] = NUL /\ \A j \in 0 .. k - 1 : b2[j] # NUL
           end == CHOOSE k \in DOMAIN b2 : Ends(k)
<1>1. BufferLength \in Nat /\ n \in Nat /\ DOMAIN b = 0 .. BufferLength
  BY PrintfAssumption
<1>2. b2 \in [0 .. BufferLength -> Nat] /\ DOMAIN b2 = 0 .. BufferLength /\ b2[n] = NUL
      /\ \A k \in 0 .. n - 1 : b2[k] = b[k]
  BY <1>1 DEF NUL
<1> HIDE DEF b2
<1>3. \A k \in 0 .. n - 1 : b2[k] # NUL
  <2>1. \A k \in 0 .. n - 1 : b[k] # NUL
    <3>1. \A c \in Characters : c # NUL
      BY DEF Characters, NUL
    <3>2. QED
      BY <3>1
  <2>2. QED
    BY <1>2, <2>1
<1>4. Ends(n)
  BY <1>2, <1>3
<1>5. end \in 0 .. BufferLength /\ Ends(end)
  <2> HIDE DEF Ends
  <2>1. QED
    BY <1>2, <1>4
<1>6. end = n
  <2>1. ~(end < n)
    <3>1. SUFFICES ASSUME end < n PROVE FALSE
      OBVIOUS
    <3>2. end \in 0 .. n - 1
      BY <1>1, <1>5, <3>1
    <3>3. QED
      BY <1>3, <1>5, <3>2
  <2>2. ~(n < end)
    <3>1. SUFFICES ASSUME n < end PROVE FALSE
      OBVIOUS
    <3>2. n \in 0 .. end - 1
      BY <1>1, <1>5, <3>1
    <3>3. QED
      BY <1>2, <1>5, <3>2
  <2>3. QED
    BY <1>1, <1>5, <2>1, <2>2
<1>7. CString(b2) = [k \in 1 .. end |-> b2[k - 1]]
  BY DEF CString
<1> HIDE DEF end
<1>8. \A k \in 1 .. n : b2[k - 1] = b[k - 1]
  <2> TAKE k \in 1 .. n
  <2>1. k - 1 \in 0 .. n - 1
    BY <1>1
  <2>2. QED
    BY <1>2, <2>1
<1>9. CString(b2) = Held(b, n)
  BY <1>6, <1>7, <1>8 DEF Held
<1>10. QED
  BY <1>2, <1>9 DEF b2

-----------------------------------------------------------------------------
\* The invariant of printf.

\* Where moveCursor is between its call and its return.
Moving == {"move", "writeHigh", "selectLowAgain", "writeLow"}

\* Where print(c) has changed nothing yet.
Reading == {"readHigh", "selectLow", "readLow", "put"}

\* The types of the variables, and with them: no index of the buffer is beyond it,
\* what a call stands for is a text without NUL, and before is a screen with its
\* cursor on it.
Types ==
  /\ screen \in [Cells -> Nat] /\ text \in [Writers -> Seq(Characters)]
  /\ count \in [Writers -> Nat]
  /\ position \in [Writers -> 0 .. Size] /\ cell \in [Writers -> 0 .. Size]
  /\ at \in {"idle", "loop", "string", "last"}
  /\ call \in Seq(Characters) /\ fmt \in Seq(Directives)
  /\ number \in Seq(Characters) /\ argument \in Seq(Characters)
  /\ buffer \in [0 .. BufferLength -> Nat] /\ idx \in 0 .. BufferLength - 1
  /\ counter \in Nat
  /\ before \in [screen : [Cells -> Nat], cursor : 0 .. Size - 1]

\* What the locals of printf are at each place of it; what is in the buffer up
\* to idx was put there.
Flow ==
  /\ at = "idle" => pc[Writer] = "idle"
  /\ pc[Writer] = "idle" => text[Writer] = <<>>
  /\ at # "string" => argument = <<>>
  /\ at \in {"idle", "last"} => fmt = <<>> /\ number = <<>>
  /\ at = "string" => idx = 0 /\ number = <<>>
  /\ \A k \in 0 .. idx - 1 : buffer[k] \in Characters

\* What was counted, what print is counting and what is to do is the whole text.
Amount ==
  counter + (IF pc[Writer] = "idle" THEN 0 ELSE count[Writer]) + Len(Todo) = Len(call)

\* The picture once h is shown at c, before it scrolls.
Written(old, c, h) == IF h = Newline THEN old ELSE [old EXCEPT ![c] = h]

\* The cell behind it.
NextCell(c, h) == IF h = Newline THEN (c \div Columns + 1) * Columns ELSE c + 1

\* The picture p one row up.
Scrolled(p) == [k \in Cells |-> IF k + Columns < Size THEN p[k + Columns]
                                ELSE IF k < Size THEN Blank ELSE p[k]]

\* A move of the cursor that is under way changes no cell, and goes to the screen.
MoveInProgress ==
  /\ at = "last" /\ pc[Writer] \in Moving
  /\ screen = before.screen /\ position[Writer] < Size

\* A character that is under way: up to PutGlyph or PutNewline nothing is changed
\* and the locals hold the parts of the cursor; in rollUp the cells up to the loop
\* variable are scrolled and the others not; then the whole picture is the new one
\* and the position the new cursor.
PrintInProgress ==
  LET step == pc[Writer]
      p == Written(before.screen, before.cursor, Head(text[Writer]))
      n == NextCell(before.cursor, Head(text[Writer]))
  IN /\ step \in Reading => screen = before.screen /\ Cursor = before.cursor
     /\ step = "readHigh" => index = "high"
     /\ step \in {"selectLow", "readLow"} => position[Writer] = register["high"] * Base
     /\ step = "readLow" => index = "low"
     /\ step = "put" => position[Writer] = Cursor
     /\ step = "roll" =>
          /\ n >= Size /\ position[Writer] = n - Columns
          /\ cell[Writer] < Size
          /\ screen = [k \in Cells |-> IF k < cell[Writer] THEN Scrolled(p)[k] ELSE p[k]]
     /\ step \in Moving =>
          IF n < Size THEN position[Writer] = n /\ screen = p
          ELSE position[Writer] = n - Columns /\ screen = Scrolled(p)

\* Between two characters there is nothing to say.
InProgress ==
  ~Settled => IF text[Writer] = <<>> THEN MoveInProgress ELSE PrintInProgress

\* printf's part of the invariant.
PrintfInv == Types /\ Flow /\ Amount

\* The inductive invariant.
IInv == CursorInv /\ PrintfInv /\ InProgress

\* What printf has taken from the format and the console has not shown.
Pending == text[Writer] \o argument \o Held(buffer, idx)

\* There is one writer, whose place says whether the console is settled.
LEMMA OnlyWriter ==
  /\ Writer \in Writers /\ Writers = {Writer}
  /\ Settled <=> pc[Writer] \in {"idle", "print"}
  BY PrintfAssumption DEF Settled

\* The buffer has room.
LEMMA BufferNumbers == BufferLength \in Nat \ {0}
  BY PrintfAssumption

\* All that is to do are texts, in printf one behind the other.
LEMMA PendingCharacters ==
  ASSUME Types, Flow
  PROVE  /\ Held(buffer, idx) \in Seq(Characters) /\ Len(Held(buffer, idx)) = idx
         /\ text[Writer] \in Seq(Characters) /\ Pending \in Seq(Characters)
         /\ Expand(fmt) \in Seq(Characters) /\ Todo \in Seq(Characters)
         /\ at \in {"loop", "string"} => Todo = Pending \o number \o Expand(fmt)
         /\ at \notin {"loop", "string"} => Todo = text[Writer]
<1>1. idx \in 0 .. BufferLength /\ BufferLength \in Nat
  BY BufferNumbers DEF Types
<1>2. Held(buffer, idx) \in Seq(Characters) /\ Len(Held(buffer, idx)) = idx
  BY <1>1, HeldCharacters DEF Types, Flow
<1>3. text[Writer] \in Seq(Characters) /\ argument \in Seq(Characters) /\ number \in Seq(Characters)
  BY OnlyWriter DEF Types
<1>4. text[Writer] \o argument \in Seq(Characters)
  BY <1>3, Joined
<1>5. Pending \in Seq(Characters)
  BY <1>2, <1>4, Joined DEF Pending
<1>6. Expand(fmt) \in Seq(Characters)
  BY Expansion DEF Types
<1>7. Pending \o number \in Seq(Characters)
  BY <1>3, <1>5, Joined
<1>8. (Pending \o number) \o Expand(fmt) \in Seq(Characters)
  BY <1>6, <1>7, Joined
<1>9. at \in {"loop", "string"} => Todo = (Pending \o number) \o Expand(fmt)
  BY DEF Todo, Pending, Held
<1>10. at \notin {"loop", "string"} => Todo = text[Writer]
  BY DEF Todo
<1>11. QED
  BY <1>2, <1>3, <1>5, <1>6, <1>8, <1>9, <1>10

\* In the loop of printf between two calls of print, only the buffer holds text.
LEMMA LoopPending ==
  ASSUME Types, Flow, at = "loop", pc[Writer] = "idle"
  PROVE  Pending = Held(buffer, idx) /\ argument = <<>> /\ text[Writer] = <<>>
<1>1. argument = <<>> /\ text[Writer] = <<>>
  BY DEF Flow
<1>2. <<>> \o <<>> = <<>>
  OBVIOUS
<1>3. Held(buffer, idx) \in Seq(Characters)
  BY PendingCharacters
<1>4. <<>> \o Held(buffer, idx) = Held(buffer, idx)
  BY <1>3, JoinedNothing
<1>5. QED
  BY <1>1, <1>2, <1>4 DEF Pending

\* Steps between which the console rests show nothing.
LEMMA RestingStep ==
  ASSUME Settled, Settled', UNCHANGED <<screen, ports>>, Todo' = Todo
  PROVE  UNCHANGED T!vars /\ InProgress'
<1>1. Cursor' = Cursor
  BY DEF Cursor, ports
<1>2. QED
  BY <1>1 DEF T!vars, InProgress

\* The call of print(str) changes only what the writer is to print.
LEMMA PrintStringStep ==
  ASSUME Types, CursorTypeOK, NEW s \in Seq(Characters), PrintString(Writer, s)
  PROVE  /\ pc'[Writer] = "print"
         /\ text' \in [Writers -> Seq(Characters)] /\ text'[Writer] = s
         /\ count' \in [Writers -> Nat] /\ count'[Writer] = 0
         /\ UNCHANGED <<screen, ports, position, cell>>
  BY OnlyWriter DEF Types, CursorTypeOK, PrintString, Goto

\* A flush hands the characters held to print (stdio.cpp:169-186, 239, 269).
LEMMA FlushStep ==
  ASSUME Types, CursorTypeOK, NEW b \in [0 .. BufferLength -> Nat], NEW n \in 0 .. BufferLength,
         \A k \in 0 .. n - 1 : b[k] \in Characters, Flush(b, n)
  PROVE  /\ buffer' \in [0 .. BufferLength -> Nat]
         /\ \A k \in 0 .. n - 1 : buffer'[k] \in Characters
         /\ pc'[Writer] = "print"
         /\ text' \in [Writers -> Seq(Characters)] /\ text'[Writer] = Held(b, n)
         /\ count' \in [Writers -> Nat] /\ count'[Writer] = 0
         /\ UNCHANGED <<screen, ports, position, cell>>
<1>1. buffer' = [b EXCEPT ![n] = NUL] /\ PrintString(Writer, CString(buffer'))
  BY DEF Flush
<1>2. /\ buffer' \in [0 .. BufferLength -> Nat]
      /\ \A k \in 0 .. n - 1 : buffer'[k] = b[k]
      /\ CString(buffer') = Held(b, n)
  BY <1>1, CStringHeld
<1>3. Held(b, n) \in Seq(Characters)
  BY HeldCharacters
<1>4. PrintString(Writer, Held(b, n))
  BY <1>1, <1>2
<1>5. QED
  BY <1>2, <1>3, <1>4, PrintStringStep

\* add_to_buffer puts one character behind those pending, flushed or not
\* (stdio.cpp:169-186).
LEMMA AddStep ==
  ASSUME Types, Flow, CursorTypeOK, InLoop, NEW c \in Characters, AddToBuffer(c),
         argument' = argument
  PROVE  /\ Pending' = Pending \o <<c>>
         /\ buffer' \in [0 .. BufferLength -> Nat] /\ idx' \in 0 .. BufferLength - 1
         /\ \A k \in 0 .. idx' - 1 : buffer'[k] \in Characters
         /\ pc'[Writer] \in {"idle", "print"}
         /\ text' \in [Writers -> Seq(Characters)]
         /\ pc'[Writer] = "idle" => text'[Writer] = <<>>
         /\ count' \in [Writers -> Nat]
         /\ pc'[Writer] # "idle" => count'[Writer] = 0
         /\ UNCHANGED <<screen, ports, position, cell>>
<1> DEFINE b == [buffer EXCEPT ![idx] = c]
<1>1. at = "loop" /\ pc[Writer] = "idle"
  BY DEF InLoop
<1>2. Pending = Held(buffer, idx) /\ argument = <<>> /\ text[Writer] = <<>>
  BY <1>1, LoopPending
<1>3. idx \in 0 .. BufferLength - 1 /\ idx \in Nat /\ BufferLength \in Nat \ {0}
  BY BufferNumbers DEF Types
<1>4. /\ b \in [0 .. BufferLength -> Nat]
      /\ \A k \in 0 .. idx : b[k] \in Characters
      /\ Held(b, idx + 1) = Held(buffer, idx) \o <<c>>
  BY <1>3, HeldMore DEF Types, Flow
<1>5. \A k \in 0 .. (idx + 1) - 1 : b[k] \in Characters
  BY <1>3, <1>4
<1>6. Held(b, idx + 1) \in Seq(Characters)
  <2> HIDE DEF b
  <2>1. idx + 1 \in 0 .. BufferLength
    BY <1>3
  <2>2. QED
    BY <1>4, <1>5, <2>1, HeldCharacters
<1>7. CASE idx + 1 = BufferLength
  <2>1. Flush(b, idx + 1) /\ idx' = 0
    BY <1>7 DEF AddToBuffer
  <2> HIDE DEF b
  <2>2. idx + 1 \in 0 .. BufferLength
    BY <1>3
  <2>3. /\ buffer' \in [0 .. BufferLength -> Nat]
        /\ pc'[Writer] = "print"
        /\ text' \in [Writers -> Seq(Characters)] /\ text'[Writer] = Held(b, idx + 1)
        /\ count' \in [Writers -> Nat] /\ count'[Writer] = 0
        /\ UNCHANGED <<screen, ports, position, cell>>
    BY <1>4, <1>5, <2>1, <2>2, FlushStep
  <2>4. Pending' = text'[Writer] \o <<>> \o <<>>
    BY <1>2, <2>1, HeldNothing DEF Pending
  <2>5. Pending' = Held(b, idx + 1)
    BY <1>6, <2>3, <2>4, JoinedNothing
  <2>6. 0 \in 0 .. BufferLength - 1 /\ \A k \in 0 .. 0 - 1 : FALSE
    BY <1>3
  <2>7. QED
    BY <1>2, <1>4, <2>1, <2>3, <2>5, <2>6
<1>8. CASE idx + 1 # BufferLength
  <2>1. buffer' = b /\ idx' = idx + 1 /\ UNCHANGED consoleVars
    BY <1>8 DEF AddToBuffer
  <2> HIDE DEF b
  <2>2. Pending' = <<>> \o <<>> \o Held(b, idx + 1)
    BY <1>2, <2>1 DEF Pending, consoleVars
  <2>3. <<>> \o <<>> = <<>> /\ <<>> \o Held(b, idx + 1) = Held(b, idx + 1)
    <3>1. <<>> \o <<>> = <<>>
      OBVIOUS
    <3>2. QED
      BY <1>6, <3>1, JoinedNothing
  <2>4. idx' \in 0 .. BufferLength - 1
    BY <1>3, <1>8, <2>1
  <2>5. UNCHANGED <<screen, ports, position, cell, pc, text, count>>
    BY <2>1 DEF consoleVars
  <2>6. QED
    BY <1>1, <1>2, <1>4, <1>5, <2>1, <2>2, <2>3, <2>4, <2>5 DEF Types
<1>9. QED
  BY <1>7, <1>8

-----------------------------------------------------------------------------
\* The steps of printf at which the console rests: the text that is asked for and
\* not shown yet moves from the format through the buffer to print.

\* After a step, too, the writer's place says whether the console is settled.
LEMMA SettledThen == Settled' <=> pc'[Writer] \in {"idle", "print"}
  BY OnlyWriter DEF Settled

\* A settled cursor is the number of a cell.
LEMMA CursorRange ==
  ASSUME CursorInv PROVE Cursor \in Nat /\ (Settled => Cursor \in 0 .. Size - 1)
<1>1. register["high"] \in Nat /\ register["low"] \in Nat /\ Base \in Nat /\ Size \in Nat
  BY SizeType DEF CursorInv, CursorTypeOK, Halves
<1>2. Cursor \in Nat
  BY <1>1 DEF Cursor
<1>3. Settled => Cursor < Size
  BY OnlyWriter, SettledOnScreen DEF CursorOnScreen
<1>4. QED
  BY <1>1, <1>2, <1>3

\* What is remembered while a character is under way is the screen before it.
LEMMA RememberStep ==
  ASSUME IInv, Remember
  PROVE  /\ before' \in [screen : [Cells -> Nat], cursor : 0 .. Size - 1]
         /\ Settled => before'.screen = screen /\ before'.cursor = Cursor
         /\ ~Settled => before' = before
<1>1. screen \in [Cells -> Nat] /\ before \in [screen : [Cells -> Nat], cursor : 0 .. Size - 1]
  BY DEF IInv, PrintfInv, Types
<1>2. Settled => Cursor \in 0 .. Size - 1
  BY CursorRange DEF IInv
<1>3. QED
  BY <1>1, <1>2 DEF Remember

\* Text that moves from the directives to the pending characters is still to do.
LEMMA TodoKept ==
  ASSUME Types, Flow, at \in {"loop", "string"}, at' \in {"loop", "string"},
         NEW x \in Seq(Characters), Pending' = Pending \o x,
         number' \in Seq(Characters), fmt' \in Seq(Directives),
         number \o Expand(fmt) = x \o (number' \o Expand(fmt'))
  PROVE  Todo' = Todo
<1>1. Todo = (Pending \o number) \o Expand(fmt)
  BY PendingCharacters
<1>2. Todo' = (Pending' \o number') \o Expand(fmt')
  BY DEF Todo, Pending, Held, Expand, Shown
<1> DEFINE p == Pending
           e == Expand(fmt)
           e2 == Expand(fmt')
           n2 == number'
<1>3. /\ p \in Seq(Characters) /\ number \in Seq(Characters) /\ e \in Seq(Characters)
      /\ x \in Seq(Characters) /\ n2 \in Seq(Characters) /\ e2 \in Seq(Characters)
      /\ number \o e = x \o (n2 \o e2)
  BY PendingCharacters, Expansion DEF Types
<1>4. (p \o number) \o e = ((p \o x) \o n2) \o e2
  <2> HIDE DEF p, e, e2, n2
  <2>1. \A a, y, b, c \in Seq(Characters) :
          number \o a = y \o (b \o c) => (p \o number) \o a = ((p \o y) \o b) \o c
    <3>1. p \in Seq(Characters) /\ number \in Seq(Characters)
      BY <1>3
    <3>2. QED
      BY <3>1, TodoMoves, ZenonT(60)
  <2>2. \A b, c \in Seq(Characters) :
          number \o e = x \o (b \o c) => (p \o number) \o e = ((p \o x) \o b) \o c
    <3>1. e \in Seq(Characters) /\ x \in Seq(Characters)
      BY <1>3
    <3>2. QED
      BY <2>1, <3>1, Zenon
  <2>3. QED
    BY <1>3, <2>2, Zenon
<1>5. QED
  BY <1>1, <1>2, <1>4

\* Steps that take one character or none from the directives into the buffer
\* keep the invariant and show nothing.
LEMMA BufferStep ==
  ASSUME IInv, InLoop, NEW x \in Seq(Characters),
         \/ x = <<>> /\ UNCHANGED <<consoleVars, buffer, idx>>
         \/ \E c \in Characters : x = <<c>> /\ AddToBuffer(c),
         UNCHANGED <<at, call, argument, counter, calls, before>>,
         number' \in Seq(Characters), fmt' \in Seq(Directives),
         number \o Expand(fmt) = x \o (number' \o Expand(fmt'))
  PROVE  PrintfInv' /\ InProgress' /\ UNCHANGED T!vars
<1>1. /\ Types /\ Flow /\ Amount /\ CursorTypeOK
      /\ at = "loop" /\ pc[Writer] = "idle" /\ at' = "loop"
  BY DEF IInv, PrintfInv, CursorInv, InLoop
<1>2. /\ Pending' = Pending \o x
      /\ buffer' \in [0 .. BufferLength -> Nat] /\ idx' \in 0 .. BufferLength - 1
      /\ \A k \in 0 .. idx' - 1 : buffer'[k] \in Characters
      /\ pc'[Writer] \in {"idle", "print"}
      /\ text' \in [Writers -> Seq(Characters)]
      /\ pc'[Writer] = "idle" => text'[Writer] = <<>>
      /\ count' \in [Writers -> Nat]
      /\ pc'[Writer] # "idle" => count'[Writer] = 0
      /\ UNCHANGED <<screen, ports, position, cell>>
  <2>1. CASE \E c \in Characters : x = <<c>> /\ AddToBuffer(c)
    BY <1>1, <2>1, AddStep
  <2>2. CASE x = <<>> /\ UNCHANGED <<consoleVars, buffer, idx>>
    <3>1. UNCHANGED <<screen, ports, position, cell, pc, text, count, buffer, idx>>
      BY <2>2 DEF consoleVars
    <3>2. Pending' = Pending
      BY <3>1 DEF Pending, Held
    <3>3. Pending \o <<>> = Pending
      BY <1>1, PendingCharacters, JoinedNothing
    <3>4. QED
      BY <1>1, <2>2, <3>1, <3>2, <3>3 DEF Types, Flow
  <2>3. QED
    BY <2>1, <2>2
<1>3. Types'
  <2>1. UNCHANGED <<screen, position, cell, at, call, argument, counter, before>>
    BY <1>2
  <2>2. Cells' = Cells
    OBVIOUS
  <2>3. QED
    BY <1>1, <1>2, <2>1 DEF Types
<1>4. Flow'
  <2>1. argument' = <<>>
    BY <1>1 DEF Flow
  <2>2. QED
    BY <1>1, <1>2, <2>1 DEF Flow
<1>5. Todo' = Todo
  <2>1. at \in {"loop", "string"} /\ at' \in {"loop", "string"}
    BY <1>1
  <2>2. QED
    BY <1>1, <1>2, <2>1, TodoKept
<1>6. Amount'
  BY <1>1, <1>2, <1>5 DEF Amount, Types
<1>7. Settled /\ Settled'
  <2>1. Settled' <=> pc'[Writer] \in {"idle", "print"}
    BY OnlyWriter DEF Settled
  <2>2. QED
    BY <1>1, <1>2, <2>1, OnlyWriter
<1>8. QED
  BY <1>2, <1>3, <1>4, <1>5, <1>6, <1>7, RestingStep DEF PrintfInv

\* The directive in hand is one, and the format shows it first.
LEMMA DirectiveHead ==
  ASSUME Types, NEW kinds, Directive(kinds)
  PROVE  /\ Head(fmt) \in Directives /\ Head(fmt).kind \in kinds
         /\ fmt' \in Seq(Directives) /\ InLoop /\ number = <<>>
         /\ number \o Expand(fmt) = Shown(Head(fmt)) \o Expand(fmt')
         /\ Expand(fmt') \in Seq(Characters) /\ Shown(Head(fmt)) \in Seq(Characters)
<1>1. InLoop /\ number = <<>> /\ fmt # <<>> /\ Head(fmt).kind \in kinds /\ fmt' = Tail(fmt)
      /\ fmt \in Seq(Directives)
  BY DEF Directive, Types
<1>2. Head(fmt) \in Directives /\ Tail(fmt) \in Seq(Directives)
  <2>1. Len(fmt) \in Nat /\ Len(fmt) # 0 /\ Head(fmt) = fmt[1]
    BY <1>1, EmptySeq
  <2>2. QED
    BY <1>1, <2>1, HeadTailProperties, ElementOfSeq
<1>3. Expand(fmt) = Shown(Head(fmt)) \o Expand(Tail(fmt)) /\ Expand(fmt) \in Seq(Characters)
  BY <1>1, Expansion
<1>4. <<>> \o Expand(fmt) = Expand(fmt)
  BY <1>3, JoinedNothing
<1>5. QED
  BY <1>1, <1>2, <1>3, <1>4, Expansion, ShownCharacters

\* Ordinary characters, %% and %c keep the invariant and show nothing
\* (stdio.cpp:213-235).
LEMMA CharacterStep ==
  ASSUME IInv, Character PROVE PrintfInv' /\ InProgress' /\ UNCHANGED T!vars
<1> DEFINE c == IF Head(fmt).kind = "%" THEN 37 ELSE Head(fmt).arg[1]
<1>1. /\ Types /\ Directive({"literal", "%", "c"}) /\ AddToBuffer(c)
      /\ UNCHANGED <<at, call, number, argument, counter, calls, before>>
  BY DEF IInv, PrintfInv, Character
<1>2. /\ Head(fmt) \in Directives /\ Head(fmt).kind \in {"literal", "%", "c"}
      /\ fmt' \in Seq(Directives) /\ InLoop /\ number = <<>>
      /\ number \o Expand(fmt) = Shown(Head(fmt)) \o Expand(fmt')
      /\ Expand(fmt') \in Seq(Characters)
  BY <1>1, DirectiveHead
<1>3. c \in Characters /\ Shown(Head(fmt)) = <<c>>
  <2>1. CASE Head(fmt).kind = "%"
    BY <2>1 DEF Shown, Characters
  <2>2. CASE Head(fmt).kind \in {"literal", "c"}
    <3>1. Head(fmt).arg \in [1 .. 1 -> Characters]
      BY <1>2, <2>2 DEF Directives
    <3>2. Head(fmt).arg = <<Head(fmt).arg[1]>>
      BY <3>1
    <3>3. QED
      BY <2>2, <3>1, <3>2 DEF Shown
  <2>3. QED
    BY <1>2, <2>1, <2>2
<1> HIDE DEF c
<1>4. <<c>> \in Seq(Characters)
  BY <1>3
<1>5. <<c>> \o Expand(fmt') = <<c>> \o (number' \o Expand(fmt'))
  BY <1>1, <1>2, JoinedNothing
<1>6. number' \in Seq(Characters)
  BY <1>1 DEF Types
<1>7. QED
  BY <1>1, <1>2, <1>3, <1>4, <1>5, <1>6, BufferStep

\* So do %d and %x, whose sign and digits are the numeral (stdio.cpp:246-260).
LEMMA NumberStep ==
  ASSUME IInv, Number PROVE PrintfInv' /\ InProgress' /\ UNCHANGED T!vars
<1> DEFINE d == Head(fmt)
           n == d.arg[1]
           x == IF n < 0 /\ d.kind = "d" THEN <<45>> ELSE <<>>
<1>1. /\ Types /\ Directive({"d", "x"})
      /\ number' = Itos(Magnitude(d.kind, n), Radix(d.kind))
      /\ IF n < 0 /\ d.kind = "d" THEN AddToBuffer(45) ELSE UNCHANGED <<consoleVars, buffer, idx>>
      /\ UNCHANGED <<at, call, argument, counter, calls, before>>
  BY DEF IInv, PrintfInv, Number
<1>2. /\ d \in Directives /\ d.kind \in {"d", "x"}
      /\ fmt' \in Seq(Directives) /\ InLoop /\ number = <<>>
      /\ number \o Expand(fmt) = Shown(d) \o Expand(fmt')
      /\ Expand(fmt') \in Seq(Characters)
  BY <1>1, DirectiveHead
<1>3. n \in Ints /\ Shown(d) = Numeral(d.kind, n)
  <2>1. n \in Ints
    BY <1>2 DEF Directives
  <2> HIDE DEF d
  <2>2. Shown(d) = Numeral(d.kind, d.arg[1])
    BY <1>2 DEF Shown
  <2>3. QED
    BY <2>1, <2>2
<1> HIDE DEF d, n
<1>4. number' \in Seq(Characters) /\ x \o number' = Numeral(d.kind, n)
  BY <1>1, <1>2, <1>3, ItosTheorem
<1>5. 45 \in Characters
  BY DEF Characters
<1>6. x \in Seq(Characters)
  BY <1>5
<1>7. \/ x = <<>> /\ UNCHANGED <<consoleVars, buffer, idx>>
      \/ \E c \in Characters : x = <<c>> /\ AddToBuffer(c)
  <2>1. CASE n < 0 /\ d.kind = "d"
    BY <1>1, <1>5, <2>1
  <2>2. CASE ~(n < 0 /\ d.kind = "d")
    BY <1>1, <2>2
  <2>3. QED
    BY <2>1, <2>2
<1> HIDE DEF x
<1>8. (x \o number') \o Expand(fmt') = x \o (number' \o Expand(fmt'))
  BY <1>2, <1>4, <1>6, RegroupText, Zenon
<1>9. number \o Expand(fmt) = x \o (number' \o Expand(fmt'))
  BY <1>2, <1>3, <1>4, <1>8
<1>10. QED
  BY <1>1, <1>2, <1>4, <1>6, <1>7, <1>9, BufferStep

\* So does each digit (stdio.cpp:257-258).
LEMMA NumberDigitStep ==
  ASSUME IInv, NumberDigit PROVE PrintfInv' /\ InProgress' /\ UNCHANGED T!vars
<1> DEFINE c == Head(number)
<1>1. /\ Types /\ InLoop /\ number # <<>> /\ AddToBuffer(c) /\ number' = Tail(number)
      /\ UNCHANGED <<at, call, fmt, argument, counter, calls, before>>
  BY DEF IInv, PrintfInv, NumberDigit
<1>2. number \in Seq(Characters) /\ Expand(fmt) \in Seq(Characters) /\ fmt' \in Seq(Directives)
      /\ Expand(fmt') = Expand(fmt)
  BY <1>1, Expansion DEF Types
<1>3. c \in Characters /\ Tail(number) \in Seq(Characters) /\ number = <<c>> \o Tail(number)
  <2>1. Len(number) \in Nat /\ Len(number) # 0 /\ Head(number) = number[1]
    BY <1>1, <1>2, EmptySeq
  <2>2. /\ c \in Characters /\ Tail(number) \in Seq(Characters)
        /\ Len(Tail(number)) = Len(number) - 1
        /\ \A i \in 1 .. Len(number) - 1 : Tail(number)[i] = number[i + 1]
    BY <1>1, <1>2, <2>1, HeadTailProperties, ElementOfSeq
  <2>3. <<c>> \in Seq(Characters) /\ Len(<<c>>) = 1 /\ <<c>>[1] = number[1]
    BY <2>1, <2>2
  <2> DEFINE s == <<c>> \o Tail(number)
  <2>4. /\ s \in Seq(Characters) /\ Len(s) = 1 + (Len(number) - 1)
        /\ \A i \in 1 .. 1 + (Len(number) - 1) : s[i] = IF i <= 1 THEN <<c>>[i] ELSE Tail(number)[i - 1]
    BY <2>2, <2>3, ConcatProperties
  <2> HIDE DEF s
  <2>5. \A i \in 1 .. Len(number) : s[i] = number[i]
    <3> TAKE i \in 1 .. Len(number)
    <3>1. i \in 1 .. 1 + (Len(number) - 1)
      BY <2>1
    <3>2. CASE i = 1
      BY <2>3, <2>4, <3>1, <3>2
    <3>3. CASE i # 1
      <4>1. i - 1 \in 1 .. Len(number) - 1 /\ (i - 1) + 1 = i /\ ~(i <= 1)
        BY <2>1, <3>3
      <4>2. QED
        BY <2>2, <2>4, <3>1, <4>1
    <3>4. QED
      BY <3>2, <3>3
  <2>6. Len(s) = Len(number)
    BY <2>1, <2>4
  <2>7. s = number
    BY <1>2, <2>4, <2>5, <2>6, SeqEqual
  <2>8. QED
    BY <2>2, <2>7 DEF s
<1> HIDE DEF c
<1>4. <<c>> \in Seq(Characters)
  BY <1>3
<1>5. (<<c>> \o Tail(number)) \o Expand(fmt) = <<c>> \o (Tail(number) \o Expand(fmt))
  BY <1>2, <1>3, <1>4, RegroupText, Zenon
<1>6. number \o Expand(fmt) = <<c>> \o (number' \o Expand(fmt'))
  BY <1>1, <1>2, <1>3, <1>5
<1>7. number' \in Seq(Characters) /\ UNCHANGED <<at, call, argument, counter, calls, before>>
  BY <1>1, <1>3
<1>8. \E k \in Characters : <<c>> = <<k>> /\ AddToBuffer(k)
  BY <1>1, <1>3 DEF c
<1>9. QED
  BY <1>1, <1>2, <1>4, <1>6, <1>7, <1>8, BufferStep

\* So do letters that are no directive and a % at the end, which show nothing
\* (stdio.cpp:219-225).
LEMMA UnknownStep ==
  ASSUME IInv, Unknown PROVE PrintfInv' /\ InProgress' /\ UNCHANGED T!vars
<1>1. /\ Types /\ Directive({"other", "end"})
      /\ UNCHANGED <<consoleVars, at, call, number, argument, buffer, idx, counter, calls, before>>
  BY DEF IInv, PrintfInv, Unknown
<1>2. /\ Head(fmt) \in Directives /\ Head(fmt).kind \in {"other", "end"}
      /\ fmt' \in Seq(Directives) /\ InLoop /\ number = <<>>
      /\ number \o Expand(fmt) = Shown(Head(fmt)) \o Expand(fmt')
      /\ Expand(fmt') \in Seq(Characters)
  BY <1>1, DirectiveHead
<1>3. Shown(Head(fmt)) = <<>> /\ <<>> \in Seq(Characters) /\ number' = <<>>
  BY <1>1, <1>2, EmptySeq DEF Shown
<1>4. number \o Expand(fmt) = <<>> \o (number' \o Expand(fmt'))
  BY <1>2, <1>3, JoinedNothing
<1>5. UNCHANGED <<consoleVars, buffer, idx>> /\ UNCHANGED <<at, call, argument, counter, calls, before>>
  BY <1>1
<1>6. QED
  BY <1>2, <1>3, <1>4, <1>5, BufferStep

\* %s flushes the buffer before its string is printed, so that the order is kept
\* (stdio.cpp:238-243).
LEMMA StringStep ==
  ASSUME IInv, String PROVE PrintfInv' /\ InProgress' /\ UNCHANGED T!vars
<1> DEFINE x == Head(fmt).arg
<1>1. /\ Types /\ Flow /\ Amount /\ CursorTypeOK /\ Directive({"s"}) /\ Flush(buffer, idx) /\ idx' = 0
      /\ argument' = x /\ at' = "string"
      /\ UNCHANGED <<call, number, counter, calls, before>>
  BY DEF IInv, PrintfInv, CursorInv, String
<1>2. /\ Head(fmt) \in Directives /\ Head(fmt).kind = "s"
      /\ fmt' \in Seq(Directives) /\ InLoop /\ number = <<>>
      /\ number \o Expand(fmt) = Shown(Head(fmt)) \o Expand(fmt')
      /\ Expand(fmt') \in Seq(Characters)
  BY <1>1, DirectiveHead
<1>3. x \in Seq(Characters) /\ Shown(Head(fmt)) = x
  BY <1>2 DEF Directives, Shown
<1> HIDE DEF x
<1>4. at = "loop" /\ pc[Writer] = "idle" /\ idx \in 0 .. BufferLength
      /\ 0 \in 0 .. BufferLength - 1
  BY <1>1, <1>2, BufferNumbers DEF InLoop, Types
<1>5. Pending = Held(buffer, idx) /\ Held(buffer, idx) \in Seq(Characters)
  BY <1>1, <1>4, LoopPending, PendingCharacters
<1>6. /\ buffer' \in [0 .. BufferLength -> Nat]
      /\ pc'[Writer] = "print"
      /\ text' \in [Writers -> Seq(Characters)] /\ text'[Writer] = Held(buffer, idx)
      /\ count' \in [Writers -> Nat] /\ count'[Writer] = 0
      /\ UNCHANGED <<screen, ports, position, cell>>
  BY <1>1, <1>4, FlushStep DEF Types, Flow
<1>7. Pending' = Pending \o x
  <2>1. Pending' = (Held(buffer, idx) \o x) \o Held(buffer', 0)
    BY <1>1, <1>6 DEF Pending
  <2>2. Held(buffer, idx) \o x \in Seq(Characters)
    BY <1>3, <1>5, Joined
  <2>3. QED
    BY <1>5, <2>1, <2>2, HeldNothing, JoinedNothing
<1>8. number \o Expand(fmt) = x \o (number' \o Expand(fmt'))
  BY <1>1, <1>2, <1>3, JoinedNothing
<1>9. number' \in Seq(Characters)
  BY <1>1 DEF Types
<1>10. Todo' = Todo
  BY <1>1, <1>2, <1>3, <1>4, <1>7, <1>8, <1>9, TodoKept
<1>11. Types'
  BY <1>1, <1>2, <1>3, <1>4, <1>6 DEF Types
<1>12. Flow'
  <2>1. \A k \in 0 .. 0 - 1 : FALSE
    OBVIOUS
  <2>2. QED
    BY <1>1, <1>2, <1>6, <2>1 DEF Flow
<1>13. Amount'
  BY <1>1, <1>4, <1>6, <1>10 DEF Amount, Types
<1>14. Settled /\ Settled'
  BY <1>4, <1>6, OnlyWriter, SettledThen
<1>15. QED
  BY <1>6, <1>10, <1>11, <1>12, <1>13, <1>14, RestingStep DEF PrintfInv

\* The string itself is printed past the buffer, which is empty (stdio.cpp:238-243).
LEMMA StringArgumentStep ==
  ASSUME IInv, StringArgument PROVE PrintfInv' /\ InProgress' /\ UNCHANGED T!vars
<1>1. /\ Types /\ Flow /\ Amount /\ CursorTypeOK /\ at = "string" /\ PrintString(Writer, argument)
      /\ argument' = <<>> /\ at' = "loop" /\ pc[Writer] = "idle"
      /\ UNCHANGED <<call, fmt, number, buffer, idx, counter, calls, before>>
  BY DEF IInv, PrintfInv, CursorInv, StringArgument, PrintString
<1>2. argument \in Seq(Characters) /\ fmt \in Seq(Directives) /\ number \in Seq(Characters)
      /\ idx = 0 /\ number = <<>> /\ text[Writer] = <<>>
  BY <1>1 DEF Types, Flow
<1>3. /\ pc'[Writer] = "print" /\ text' \in [Writers -> Seq(Characters)] /\ text'[Writer] = argument
      /\ count' \in [Writers -> Nat] /\ count'[Writer] = 0
      /\ UNCHANGED <<screen, ports, position, cell>>
  BY <1>1, <1>2, PrintStringStep
<1>4. Pending = argument
  <2>1. Pending = (<<>> \o argument) \o <<>>
    BY <1>2, HeldNothing DEF Pending
  <2>2. QED
    BY <1>2, <2>1, JoinedNothing
<1>5. Pending' = argument
  <2>1. Pending' = (argument \o <<>>) \o <<>>
    BY <1>1, <1>2, <1>3, HeldNothing DEF Pending
  <2>2. QED
    BY <1>2, <2>1, JoinedNothing
<1>6. Pending' = Pending \o <<>> /\ <<>> \in Seq(Characters)
  BY <1>2, <1>4, <1>5, JoinedNothing, EmptySeq
<1>7. number \o Expand(fmt) = <<>> \o (number' \o Expand(fmt'))
  <2>1. Expand(fmt) \in Seq(Characters)
    BY <1>2, Expansion
  <2>2. QED
    BY <1>1, <1>2, <2>1, JoinedNothing
<1>8. Todo' = Todo
  BY <1>1, <1>2, <1>6, <1>7, TodoKept
<1>9. Types'
  BY <1>1, <1>2, <1>3, <1>6 DEF Types
<1>10. Flow'
  BY <1>1, <1>2, <1>3 DEF Flow
<1>11. Amount'
  BY <1>1, <1>3, <1>8 DEF Amount, Types
<1>12. Settled /\ Settled'
  BY <1>1, <1>3, OnlyWriter, SettledThen
<1>13. QED
  BY <1>3, <1>8, <1>9, <1>10, <1>11, <1>12, RestingStep DEF PrintfInv

\* The last flush leaves nothing in printf (stdio.cpp:268-270).
LEMMA LastFlushStep ==
  ASSUME IInv, LastFlush PROVE PrintfInv' /\ InProgress' /\ UNCHANGED T!vars
<1>1. /\ Types /\ Flow /\ Amount /\ CursorTypeOK /\ at = "loop" /\ pc[Writer] = "idle"
      /\ number = <<>> /\ fmt = <<>> /\ Flush(buffer, idx) /\ at' = "last"
      /\ UNCHANGED <<call, fmt, number, argument, idx, counter, calls, before>>
  BY DEF IInv, PrintfInv, CursorInv, LastFlush, InLoop
<1>2. idx \in 0 .. BufferLength
  BY <1>1, BufferNumbers DEF Types
<1>3. Pending = Held(buffer, idx) /\ Held(buffer, idx) \in Seq(Characters) /\ argument = <<>>
  BY <1>1, LoopPending, PendingCharacters
<1>4. /\ buffer' \in [0 .. BufferLength -> Nat]
      /\ \A k \in 0 .. idx - 1 : buffer'[k] \in Characters
      /\ pc'[Writer] = "print"
      /\ text' \in [Writers -> Seq(Characters)] /\ text'[Writer] = Held(buffer, idx)
      /\ count' \in [Writers -> Nat] /\ count'[Writer] = 0
      /\ UNCHANGED <<screen, ports, position, cell>>
  BY <1>1, <1>2, FlushStep DEF Types, Flow
<1>5. Todo = Held(buffer, idx)
  <2>1. Todo = (Held(buffer, idx) \o <<>>) \o Expand(<<>>)
    BY <1>1, <1>3, PendingCharacters
  <2>2. Expand(<<>>) = <<>>
    BY <1>1, Expansion DEF Types
  <2>3. QED
    BY <1>3, <2>1, <2>2, JoinedNothing
<1>6. Todo' = Todo
  BY <1>1, <1>4, <1>5 DEF Todo
<1>7. Types'
  BY <1>1, <1>4 DEF Types
<1>8. Flow'
  BY <1>1, <1>3, <1>4 DEF Flow
<1>9. Amount'
  BY <1>1, <1>4, <1>6 DEF Amount, Types
<1>10. Settled /\ Settled'
  BY <1>1, <1>4, OnlyWriter, SettledThen
<1>11. QED
  BY <1>4, <1>6, <1>7, <1>8, <1>9, <1>10, RestingStep DEF PrintfInv

\* A print that returns has shown all its text, and printf counts it.
LEMMA PrintedStep ==
  ASSUME IInv, Printed PROVE PrintfInv' /\ InProgress' /\ UNCHANGED T!vars
<1>1. /\ Types /\ Flow /\ Amount /\ CursorTypeOK /\ pc[Writer] = "print" /\ text[Writer] = <<>>
      /\ pc' = [pc EXCEPT ![Writer] = "idle"]
      /\ counter' = counter + count[Writer]
      /\ UNCHANGED <<screen, ports, text, count, position, cell>>
      /\ UNCHANGED <<at, call, fmt, number, argument, buffer, idx, calls, before>>
  BY DEF IInv, PrintfInv, CursorInv, Printed, PrintReturns, Goto
<1>2. pc'[Writer] = "idle" /\ count[Writer] \in Nat /\ counter \in Nat
  BY <1>1, OnlyWriter DEF Types, CursorTypeOK
<1>3. Todo' = Todo
  BY <1>1 DEF Todo
<1>4. Types'
  <2>1. counter' \in Nat
    BY <1>1, <1>2
  <2>2. /\ UNCHANGED <<screen, text, count, position, cell>>
        /\ UNCHANGED <<at, call, fmt, number, argument, buffer, idx, before>>
    BY <1>1
  <2>3. Types
    BY <1>1
  <2>4. QED
    BY <2>1, <2>2, <2>3 DEF Types
<1>5. Flow'
  BY <1>1, <1>2 DEF Flow
<1>6. Amount'
  <2>1. Len(Todo) \in Nat
    BY <1>1, PendingCharacters
  <2>2. QED
    BY <1>1, <1>2, <1>3, <2>1 DEF Amount
<1>7. Settled /\ Settled'
  BY <1>1, <1>2, OnlyWriter, SettledThen
<1>8. QED
  BY <1>1, <1>3, <1>4, <1>5, <1>6, <1>7, RestingStep DEF PrintfInv

\* Then printf returns.
LEMMA ReturnStep ==
  ASSUME IInv, Return PROVE PrintfInv' /\ InProgress' /\ UNCHANGED T!vars
<1>1. /\ Types /\ Flow /\ Amount /\ at = "last" /\ pc[Writer] = "idle" /\ at' = "idle"
      /\ UNCHANGED <<screen, ports, pc, text, count, position, cell>>
      /\ UNCHANGED <<call, fmt, number, argument, buffer, idx, counter, calls, before>>
  BY DEF IInv, PrintfInv, Return, consoleVars
<1>2. Todo' = Todo
  BY <1>1 DEF Todo
<1>3. Types'
  BY <1>1 DEF Types
<1>4. Flow'
  BY <1>1 DEF Flow
<1>5. Amount'
  BY <1>1, <1>2 DEF Amount
<1>6. Settled /\ Settled'
  BY <1>1, OnlyWriter, SettledThen
<1>7. QED
  BY <1>1, <1>2, <1>3, <1>4, <1>5, <1>6, RestingStep DEF PrintfInv

-----------------------------------------------------------------------------
\* The calls.

\* A call begins with nothing to do and the console settled.
LEMMA Beginning ==
  ASSUME IInv, NEW shown, Begin(shown)
  PROVE  /\ Types /\ Flow /\ Amount /\ CursorTypeOK /\ at = "idle" /\ pc[Writer] = "idle"
         /\ text[Writer] = <<>> /\ argument = <<>> /\ number = <<>> /\ fmt = <<>>
         /\ Todo = <<>> /\ Settled
         /\ calls' = calls + 1 /\ call' = shown /\ counter' = 0
         /\ before' \in [screen : [Cells -> Nat], cursor : 0 .. Size - 1]
         /\ before'.screen = screen /\ before'.cursor = Cursor
<1>1. Types /\ Flow /\ Amount /\ CursorTypeOK
  BY DEF IInv, PrintfInv, CursorInv
<1>2. at = "idle" /\ calls' = calls + 1 /\ call' = shown /\ counter' = 0 /\ Remember
  BY DEF Begin
<1>3. /\ pc[Writer] = "idle" /\ text[Writer] = <<>> /\ argument = <<>> /\ number = <<>> /\ fmt = <<>>
  BY <1>1, <1>2 DEF Flow
<1>4. Settled
  BY <1>3, OnlyWriter
<1>5. Todo = <<>>
  BY <1>2, <1>3 DEF Todo
<1>6. QED
  BY <1>1, <1>2, <1>3, <1>4, <1>5, RememberStep

\* The call of printf asks for the text its format stands for.
LEMMA CallPrintfStep ==
  ASSUME IInv, NEW f \in Formats, CallPrintf(f)
  PROVE  PrintfInv' /\ InProgress' /\ T!Ask(Expand(f))
<1>1. /\ Begin(Expand(f)) /\ at' = "loop" /\ fmt' = f /\ idx' = 0
      /\ UNCHANGED <<screen, ports, pc, text, count, position, cell>>
      /\ UNCHANGED <<number, argument, buffer>>
  BY DEF CallPrintf, consoleVars
<1>2. /\ Types /\ Flow /\ Amount /\ CursorTypeOK /\ at = "idle" /\ pc[Writer] = "idle"
      /\ text[Writer] = <<>> /\ argument = <<>> /\ number = <<>>
      /\ Todo = <<>> /\ Settled /\ call' = Expand(f) /\ counter' = 0
      /\ before' \in [screen : [Cells -> Nat], cursor : 0 .. Size - 1]
  BY <1>1, Beginning
<1>3. f \in Seq(Directives) /\ Expand(f) \in Seq(Characters)
  BY PrintfAssumption, Expansion
<1>4. 0 \in 0 .. BufferLength - 1 /\ \A k \in 0 .. 0 - 1 : FALSE
  BY BufferNumbers
<1>5. Todo' = Expand(f)
  <2>1. Todo' = ((((<<>> \o <<>>) \o Held(buffer', 0)) \o <<>>) \o Expand(f))
    BY <1>1, <1>2 DEF Todo, Held, Expand, Shown
  <2>2. <<>> \o <<>> = <<>>
    OBVIOUS
  <2>3. QED
    BY <1>3, <2>1, <2>2, HeldNothing, JoinedNothing
<1>6. Types'
  BY <1>1, <1>2, <1>3, <1>4 DEF Types
<1>7. Flow'
  BY <1>1, <1>2, <1>4 DEF Flow
<1>8. Amount'
  <2>1. Len(Expand(f)) \in Nat
    BY <1>3
  <2>2. QED
    BY <1>1, <1>2, <1>5, <2>1 DEF Amount
<1>9. Settled' /\ Cursor' = Cursor
  BY <1>1, <1>2, SettledThen DEF Cursor, ports
<1>10. InProgress'
  BY <1>9 DEF InProgress
<1>11. T!Ask(Expand(f))
  BY <1>1, <1>2, <1>5, <1>9 DEF T!Ask, T!Idle
<1>12. QED
  BY <1>6, <1>7, <1>8, <1>10, <1>11 DEF PrintfInv

\* The call of print(str), also by the system call write, asks for its string.
LEMMA CallPrintStep ==
  ASSUME IInv, NEW s \in Strings, CallPrint(s)
  PROVE  PrintfInv' /\ InProgress' /\ T!Ask(s)
<1>1. /\ Begin(s) /\ PrintString(Writer, s) /\ at' = "last"
      /\ UNCHANGED <<fmt, number, argument, buffer, idx>>
  BY DEF CallPrint
<1>2. /\ Types /\ Flow /\ Amount /\ CursorTypeOK /\ at = "idle" /\ pc[Writer] = "idle"
      /\ text[Writer] = <<>> /\ argument = <<>> /\ number = <<>> /\ fmt = <<>>
      /\ Todo = <<>> /\ Settled /\ call' = s /\ counter' = 0
      /\ before' \in [screen : [Cells -> Nat], cursor : 0 .. Size - 1]
  BY <1>1, Beginning
<1>3. s \in Seq(Characters)
  BY PrintfAssumption
<1>4. /\ pc'[Writer] = "print" /\ text' \in [Writers -> Seq(Characters)] /\ text'[Writer] = s
      /\ count' \in [Writers -> Nat] /\ count'[Writer] = 0
      /\ UNCHANGED <<screen, ports, position, cell>>
  BY <1>1, <1>2, <1>3, PrintStringStep
<1>5. Todo' = s
  BY <1>1, <1>4 DEF Todo
<1>6. Types'
  BY <1>1, <1>2, <1>3, <1>4 DEF Types
<1>7. Flow'
  BY <1>1, <1>2, <1>4 DEF Flow
<1>8. Amount'
  <2>1. Len(s) \in Nat
    BY <1>3
  <2>2. QED
    BY <1>1, <1>2, <1>4, <1>5, <2>1 DEF Amount
<1>9. Settled' /\ Cursor' = Cursor
  BY <1>4, SettledThen DEF Cursor, ports
<1>10. InProgress'
  BY <1>9 DEF InProgress
<1>11. T!Ask(s)
  BY <1>2, <1>4, <1>5, <1>9 DEF T!Ask, T!Idle
<1>12. QED
  BY <1>6, <1>7, <1>8, <1>10, <1>11 DEF PrintfInv

\* A row and a column of the screen make the number of a cell.
LEMMA CellNumber ==
  ASSUME NEW x \in Nat, NEW y \in Nat, x < Rows, y < Columns
  PROVE  x * Columns + y \in 0 .. Size - 1 /\ x * Columns + y \in Cells
<1>1. Rows \in Nat /\ Columns \in Nat /\ Size = Rows * Columns /\ Size < Base * Base
      /\ Base * Base \in Nat
  BY ConsoleAssumption DEF Size
<1>2. (x + 1) * Columns <= Rows * Columns
  BY <1>1
<1>3. (x + 1) * Columns = x * Columns + Columns /\ x * Columns \in Nat
  BY <1>1
<1>4. x * Columns + y \in Nat /\ x * Columns + y < Size
  BY <1>1, <1>2, <1>3
<1>5. Size \in Nat
  BY SizeType
<1>6. QED
  BY <1>1, <1>4, <1>5 DEF Cells

\* The call of moveCursor(x, y) shows nothing yet, and off the screen nothing at
\* all (stdio.cpp:138-146).
LEMMA CallMoveCursorStep ==
  ASSUME IInv, NEW p \in Points, CallMoveCursor(p)
  PROVE  PrintfInv' /\ InProgress' /\ UNCHANGED T!vars
<1>1. /\ Begin(<<>>) /\ MoveTo(Writer, p[1], p[2]) /\ at' = "last"
      /\ UNCHANGED <<fmt, number, argument, buffer, idx>>
  BY DEF CallMoveCursor
<1>2. /\ Types /\ Flow /\ Amount /\ CursorTypeOK /\ at = "idle" /\ pc[Writer] = "idle"
      /\ text[Writer] = <<>> /\ argument = <<>> /\ number = <<>> /\ fmt = <<>>
      /\ Todo = <<>> /\ Settled /\ call' = <<>> /\ counter' = 0
      /\ before' \in [screen : [Cells -> Nat], cursor : 0 .. Size - 1]
      /\ before'.screen = screen /\ before'.cursor = Cursor
  BY <1>1, Beginning
<1>3. p[1] \in Nat /\ p[2] \in Nat
  BY PrintfAssumption
<1>4. /\ UNCHANGED <<screen, ports, text, cell>>
      /\ count' \in [Writers -> Nat] /\ count'[Writer] = 0
  BY <1>1, <1>2, OnlyWriter DEF MoveTo, Types
<1>5. /\ position' \in [Writers -> 0 .. Size]
      /\ \/ pc'[Writer] = "idle"
         \/ pc'[Writer] = "move" /\ position'[Writer] \in 0 .. Size - 1
  <2>1. CASE p[1] < Rows /\ p[2] < Columns
    <3> DEFINE n == p[1] * Columns + p[2]
    <3>1. n \in 0 .. Size - 1
      BY <1>3, <2>1, CellNumber
    <3>2. /\ pc' = [pc EXCEPT ![Writer] = "move"]
          /\ position' = [position EXCEPT ![Writer] = n]
      BY <1>1, <2>1 DEF MoveTo, Goto, At
    <3> HIDE DEF n
    <3>4. n \in 0 .. Size
      BY <3>1, SizeType
    <3>3. QED
      BY <1>2, <3>1, <3>2, <3>4, OnlyWriter DEF Types, CursorTypeOK
  <2>2. CASE ~(p[1] < Rows /\ p[2] < Columns)
    <3>1. UNCHANGED <<pc, position>>
      BY <1>1, <2>2 DEF MoveTo
    <3>2. QED
      BY <1>2, <3>1 DEF Types
  <2>3. QED
    BY <2>1, <2>2
<1>6. Todo' = <<>> /\ text'[Writer] = <<>>
  BY <1>1, <1>2, <1>4 DEF Todo
<1>7. Types'
  <2>1. <<>> \in Seq(Characters)
    BY EmptySeq
  <2>2. QED
    BY <1>1, <1>2, <1>4, <1>5, <2>1 DEF Types
<1>8. Flow'
  BY <1>1, <1>2, <1>4 DEF Flow
<1>9. Amount'
  BY <1>1, <1>2, <1>4, <1>6 DEF Amount
<1>10. Cursor' = Cursor
  BY <1>4 DEF Cursor, ports
<1>11. InProgress'
  <2>1. CASE pc'[Writer] = "idle"
    BY <2>1, SettledThen DEF InProgress
  <2>2. CASE pc'[Writer] = "move" /\ position'[Writer] \in 0 .. Size - 1
    <3>1. MoveInProgress'
      BY <1>1, <1>2, <1>4, <2>2, SizeType DEF MoveInProgress, Moving
    <3>2. QED
      BY <1>6, <3>1 DEF InProgress
  <2>3. QED
    BY <1>5, <2>1, <2>2
<1>12. UNCHANGED T!vars
  BY <1>2, <1>4, <1>6, <1>10 DEF T!vars
<1>13. QED
  BY <1>7, <1>8, <1>9, <1>11, <1>12 DEF PrintfInv

\* print(x, y, c, color) places a character in a cell of the screen and leaves the
\* cursor (stdio.cpp:21-31).
LEMMA CallPrintAtStep ==
  ASSUME IInv, NEW p \in Points, NEW c \in Glyphs, CallPrintAt(p, c)
  PROVE  PrintfInv' /\ InProgress' /\ (UNCHANGED T!vars \/ \E n \in 0 .. Size - 1 : T!Place(n, c))
<1>1. /\ Begin(<<>>) /\ PrintAt(Writer, p[1], p[2], c)
      /\ UNCHANGED <<at, fmt, number, argument, buffer, idx>>
  BY DEF CallPrintAt
<1>2. /\ Types /\ Flow /\ Amount /\ CursorTypeOK /\ at = "idle" /\ pc[Writer] = "idle"
      /\ text[Writer] = <<>> /\ argument = <<>> /\ number = <<>> /\ fmt = <<>>
      /\ Todo = <<>> /\ Settled /\ call' = <<>> /\ counter' = 0
      /\ before' \in [screen : [Cells -> Nat], cursor : 0 .. Size - 1]
  BY <1>1, Beginning
<1>3. p[1] \in Nat /\ p[2] \in Nat /\ c \in Nat
  BY PrintfAssumption
<1>4. UNCHANGED <<ports, pc, text, count, position, cell>>
  BY <1>1 DEF PrintAt
<1>5. /\ screen' \in [Cells -> Nat]
      /\ screen' = screen \/ \E n \in 0 .. Size - 1 : screen' = [screen EXCEPT ![n] = c]
  <2>1. CASE p[1] < Rows /\ p[2] < Columns
    <3>1. p[1] * Columns + p[2] \in 0 .. Size - 1
      BY <1>3, <2>1, CellNumber
    <3>2. screen' = [screen EXCEPT ![p[1] * Columns + p[2]] = c]
      BY <1>1, <2>1 DEF PrintAt
    <3>3. QED
      BY <1>2, <1>3, <3>1, <3>2 DEF Types
  <2>2. CASE ~(p[1] < Rows /\ p[2] < Columns)
    <3>1. screen' = screen
      BY <1>1, <2>2 DEF PrintAt
    <3>2. QED
      BY <1>2, <3>1 DEF Types
  <2>3. QED
    BY <2>1, <2>2
<1>6. Todo' = <<>>
  BY <1>1, <1>2, <1>4 DEF Todo
<1>7. Types'
  <2>1. <<>> \in Seq(Characters)
    BY EmptySeq
  <2>2. QED
    BY <1>1, <1>2, <1>4, <1>5, <2>1 DEF Types
<1>8. Flow'
  BY <1>1, <1>2, <1>4 DEF Flow
<1>9. Amount'
  BY <1>1, <1>2, <1>4, <1>6 DEF Amount
<1>10. Cursor' = Cursor /\ Settled'
  BY <1>2, <1>4, SettledThen DEF Cursor, ports
<1>11. InProgress'
  BY <1>10 DEF InProgress
<1>12. UNCHANGED T!vars \/ \E n \in 0 .. Size - 1 : T!Place(n, c)
  <2>1. CASE screen' = screen
    BY <1>2, <1>6, <1>10, <2>1 DEF T!vars
  <2>2. ASSUME NEW n \in 0 .. Size - 1, screen' = [screen EXCEPT ![n] = c]
        PROVE  T!Place(n, c)
    BY <1>2, <1>6, <1>10, <2>2 DEF T!Place, T!Idle
  <2>3. QED
    BY <1>5, <2>1, <2>2
<1>13. QED
  BY <1>7, <1>8, <1>9, <1>11, <1>12 DEF PrintfInv

-----------------------------------------------------------------------------
\* The steps of the console, of which only the last one of a character or of a
\* move shows anything.

\* The next cell is on the screen, or the first one below it; the row that print(str)
\* compares with 24 is the last one exactly in the second case (stdio.cpp:39-45, 65-76).
LEMMA NextCellRange ==
  ASSUME NEW c \in 0 .. Size - 1, NEW h
  PROVE  /\ NextCell(c, h) \in 0 .. Size
         /\ NextCell(c, h) >= Size => NextCell(c, h) = Size
         /\ Size - Columns \in 0 .. Size - 1
         /\ c \div Columns \in 0 .. Rows - 1
         /\ c \div Columns = Rows - 1 <=> (c \div Columns + 1) * Columns = Size
         /\ (c \div Columns + 1) * Columns - Columns = (c \div Columns) * Columns
<1> DEFINE q == c \div Columns
<1>1. Rows \in Nat \ {0} /\ Columns \in Nat \ {0} /\ Size = Rows * Columns /\ Size \in Nat /\ c \in Nat
  BY SizeType DEF Size
<1>2. q \in Nat /\ c % Columns \in 0 .. Columns - 1 /\ c = Columns * q + (c % Columns)
  <2>1. Columns \in Nat /\ Columns >= 1 /\ c \in Nat
    BY <1>1
  <2>2. QED
    BY <2>1, Quotient
<1> HIDE DEF q
<1>3. Columns * q <= c /\ Columns * q \in Nat
  <2>1. Columns * q \in Nat
    BY <1>1, <1>2
  <2>2. \A a \in Nat, b \in Nat : c = a + b => a <= c
    BY <1>1
  <2>3. c % Columns \in Nat
    BY <1>1, <1>2
  <2>4. QED
    BY <1>2, <2>1, <2>2, <2>3, Zenon
<1>4. q < Rows
  <2>1. SUFFICES ASSUME Rows <= q PROVE FALSE
    BY <1>1, <1>2
  <2>2. Columns * Rows <= Columns * q
    BY <1>1, <1>2, <2>1, Scaling
  <2>3. Columns * Rows = Size
    BY <1>1
  <2>4. QED
    BY <1>1, <1>3, <2>2, <2>3
<1>5. (q + 1) * Columns <= Size /\ (q + 1) * Columns \in Nat
  <2>1. q + 1 \in Nat /\ q + 1 <= Rows
    BY <1>1, <1>2, <1>4
  <2>2. Columns * (q + 1) <= Columns * Rows
    BY <1>1, <2>1, Scaling
  <2>3. Columns * Rows = Size /\ Columns * (q + 1) = (q + 1) * Columns /\ Columns * (q + 1) \in Nat
    BY <1>1, <1>2
  <2>4. QED
    BY <2>2, <2>3
<1>6. (q + 1) * Columns - Columns = q * Columns
  <2>1. (q + 1) * Columns = q * Columns + Columns /\ q * Columns \in Nat
    BY <1>1, <1>2
  <2>2. QED
    BY <1>1, <2>1
<1>7. q = Rows - 1 <=> (q + 1) * Columns = Size
  <2>1. q = Rows - 1 => (q + 1) * Columns = Size
    <3>1. (Rows - 1) + 1 = Rows
      BY <1>1
    <3>2. QED
      BY <1>1, <3>1
  <2>2. q < Rows - 1 => (q + 1) * Columns # Size
    <3>1. SUFFICES ASSUME q < Rows - 1 PROVE (q + 1) * Columns # Size
      OBVIOUS
    <3>2. q + 2 \in Nat /\ q + 2 <= Rows
      BY <1>1, <1>2, <3>1
    <3>3. Columns * (q + 2) <= Columns * Rows
      BY <1>1, <3>2, Scaling
    <3>4. Columns * (q + 2) = (q + 1) * Columns + Columns /\ Columns * Rows = Size
      BY <1>1, <1>2
    <3>5. QED
      BY <1>1, <1>5, <3>3, <3>4
  <2>3. QED
    BY <1>1, <1>2, <1>4, <2>1, <2>2
<1>8. Size - Columns \in 0 .. Size - 1
  <2>1. Columns * 1 <= Columns * Rows
    BY <1>1, Scaling
  <2>2. Columns * Rows = Size /\ Columns * 1 = Columns
    BY <1>1
  <2>3. QED
    BY <1>1, <2>1, <2>2
<1>9. NextCell(c, h) \in 0 .. Size /\ (NextCell(c, h) >= Size => NextCell(c, h) = Size)
  <2>1. CASE h = Newline
    <3>1. NextCell(c, h) = (q + 1) * Columns
      BY <2>1 DEF NextCell, q
    <3>2. QED
      BY <1>1, <1>5, <3>1
  <2>2. CASE h # Newline
    <3>1. NextCell(c, h) = c + 1
      BY <2>2 DEF NextCell
    <3>2. QED
      BY <1>1, <3>1
  <2>3. QED
    BY <2>1, <2>2
<1>10. q \in 0 .. Rows - 1
  BY <1>1, <1>2, <1>4
<1>11. QED
  BY <1>6, <1>7, <1>8, <1>9, <1>10 DEF q

\* The character that print shows is the first one of all that is to do.
LEMMA TodoHead ==
  ASSUME Types, Flow, text[Writer] # <<>>,
         text' = [text EXCEPT ![Writer] = Tail(@)],
         UNCHANGED <<at, argument, buffer, idx, number, fmt>>
  PROVE  /\ Todo # <<>> /\ Head(Todo) = Head(text[Writer]) /\ Todo' = Tail(Todo)
         /\ text' \in [Writers -> Seq(Characters)]
         /\ Head(text[Writer]) \in Characters
         /\ Len(Todo) = Len(Todo') + 1 /\ Len(Todo') \in Nat
<1> DEFINE a == text[Writer]
           b == argument
           c == Held(buffer, idx)
           n == number
           e == Expand(fmt)
<1>1. /\ a \in Seq(Characters) /\ b \in Seq(Characters) /\ c \in Seq(Characters)
      /\ n \in Seq(Characters) /\ e \in Seq(Characters) /\ a # <<>>
      /\ Todo \in Seq(Characters)
  BY PendingCharacters DEF Types
<1>2. Tail(a) \in Seq(Characters) /\ Head(a) \in Characters
  BY <1>1, EmptySeq, HeadTailProperties, ElementOfSeq
<1>3. text'[Writer] = Tail(a) /\ text' \in [Writers -> Seq(Characters)]
  BY <1>1, <1>2, OnlyWriter DEF Types
<1>4. ASSUME at \in {"loop", "string"}
      PROVE  Todo # <<>> /\ Head(Todo) = Head(text[Writer]) /\ Todo' = Tail(Todo)
  <2>1. Todo = (((a \o b) \o c) \o n) \o e
    BY <1>4, PendingCharacters DEF Pending
  <2>2. Todo' = (((Tail(a) \o b) \o c) \o n) \o e
    BY <1>3, <1>4 DEF Todo, Held
  <2> HIDE DEF a, b, c, n, e
  <2>3. /\ a \o b \in Seq(Characters) /\ a \o b # <<>> /\ Head(a \o b) = Head(a)
        /\ Tail(a \o b) = Tail(a) \o b
    BY <1>1, HeadText
  <2> DEFINE s == a \o b
  <2>4. s \in Seq(Characters) /\ s # <<>>
    BY <2>3
  <2> HIDE DEF s
  <2>5. /\ s \o c \in Seq(Characters) /\ s \o c # <<>> /\ Head(s \o c) = Head(s)
        /\ Tail(s \o c) = Tail(s) \o c
    BY <1>1, <2>4, HeadText
  <2> DEFINE t == s \o c
  <2>6. t \in Seq(Characters) /\ t # <<>>
    BY <2>5
  <2> HIDE DEF t
  <2>7. /\ t \o n \in Seq(Characters) /\ t \o n # <<>> /\ Head(t \o n) = Head(t)
        /\ Tail(t \o n) = Tail(t) \o n
    BY <1>1, <2>6, HeadText
  <2> DEFINE u == t \o n
  <2>8. u \in Seq(Characters) /\ u # <<>>
    BY <2>7
  <2> HIDE DEF u
  <2>9. u \o e # <<>> /\ Head(u \o e) = Head(u) /\ Tail(u \o e) = Tail(u) \o e
    BY <1>1, <2>8, HeadText
  <2>10. Head(u \o e) = Head(a) /\ Tail(u \o e) = (((Tail(a) \o b) \o c) \o n) \o e
    BY <2>3, <2>5, <2>7, <2>9 DEF s, t, u
  <2>11. Todo = u \o e
    BY <2>1 DEF s, t, u
  <2>12. QED
    BY <2>2, <2>9, <2>10, <2>11 DEF a
<1>5. ASSUME at \notin {"loop", "string"}
      PROVE  Todo # <<>> /\ Head(Todo) = Head(text[Writer]) /\ Todo' = Tail(Todo)
  <2>1. Todo = a /\ Todo' = Tail(a)
    BY <1>3, <1>5 DEF Todo
  <2>2. QED
    BY <1>1, <2>1
<1>6. Todo # <<>> /\ Head(Todo) = Head(text[Writer]) /\ Todo' = Tail(Todo)
  BY <1>4, <1>5
<1>7. Len(Todo) = Len(Todo') + 1 /\ Len(Todo') \in Nat
  <2> DEFINE s == Todo
  <2>1. s \in Seq(Characters) /\ s # <<>>
    BY <1>1, <1>6
  <2> HIDE DEF s
  <2>2. Len(s) = Len(Tail(s)) + 1 /\ Len(Tail(s)) \in Nat
    BY <2>1, EmptySeq, HeadTailProperties
  <2>3. QED
    BY <1>6, <2>2 DEF s
<1>8. QED
  BY <1>2, <1>3, <1>6, <1>7

\* A step in the middle of a character shows nothing: what the screen and the
\* ports look like in between is not seen in the abstract picture.
LEMMA HiddenStep ==
  ASSUME IInv, Remember, ~Settled', Todo' = Todo
  PROVE  UNCHANGED T!vars
  BY RememberStep DEF T!vars

\* Steps inside a character that keep the types keep printf's part of the invariant.
LEMMA ConsoleFrame ==
  ASSUME IInv, Remember, UNCHANGED printfVars, UNCHANGED <<text, count>>,
         pc[Writer] # "idle", pc'[Writer] # "idle", screen' \in [Cells -> Nat],
         position' \in [Writers -> 0 .. Size], cell' \in [Writers -> 0 .. Size]
  PROVE  PrintfInv' /\ Todo' = Todo
<1>1. Types /\ Flow /\ Amount
  BY DEF IInv, PrintfInv
<1>2. UNCHANGED <<at, call, fmt, number, argument, buffer, idx, counter, calls>>
  BY DEF printfVars
<1>3. Todo' = Todo
  BY <1>2 DEF Todo, Expand, Shown
<1>4. before' \in [screen : [Cells -> Nat], cursor : 0 .. Size - 1]
  BY RememberStep
<1>5. Types'
  BY <1>1, <1>2, <1>4 DEF Types
<1>6. Flow'
  BY <1>1, <1>2 DEF Flow
<1>7. Amount'
  BY <1>1, <1>2, <1>3 DEF Amount
<1>8. QED
  BY <1>3, <1>5, <1>6, <1>7 DEF PrintfInv

\* Where a character is read, put or scrolled, there is one, and its part of the
\* invariant holds.
LEMMA Printing ==
  ASSUME IInv, pc[Writer] \in Reading \cup {"roll"}
  PROVE  /\ text[Writer] # <<>> /\ PrintInProgress /\ ~Settled
         /\ Types /\ Flow /\ CursorTypeOK /\ Halfway(Writer) /\ Head(text[Writer]) \in Characters
         /\ before.screen \in [Cells -> Nat] /\ before.cursor \in 0 .. Size - 1
<1>1. /\ Types /\ Flow /\ CursorTypeOK /\ Halfway(Writer) /\ InProgress
  BY OnlyWriter DEF IInv, PrintfInv, CursorInv
<1>2. ~Settled
  BY OnlyWriter DEF Reading
<1>3. text[Writer] # <<>>
  BY <1>1, <1>2 DEF InProgress, MoveInProgress, Moving, Reading
<1>4. Head(text[Writer]) \in Characters
  <2> DEFINE s == text[Writer]
  <2>1. s \in Seq(Characters) /\ s # <<>>
    BY <1>1, <1>3, OnlyWriter DEF Types
  <2> HIDE DEF s
  <2>2. Len(s) \in Nat /\ Len(s) # 0 /\ Head(s) = s[1]
    BY <2>1, EmptySeq
  <2>3. Head(s) \in Characters
    BY <2>1, <2>2, ElementOfSeq
  <2>4. QED
    BY <2>3 DEF s
<1>5. QED
  BY <1>1, <1>2, <1>3, <1>4 DEF InProgress, Types

\* getCursor selects the high half of a cursor that is whole (stdio.cpp:126).
LEMMA SelectHighStep ==
  ASSUME IInv, SelectHigh(Writer), Remember, UNCHANGED printfVars
  PROVE  PrintfInv' /\ InProgress' /\ UNCHANGED T!vars
<1>1. /\ Types /\ CursorTypeOK /\ pc[Writer] = "print" /\ text[Writer] # <<>>
      /\ index' = "high" /\ UNCHANGED register /\ pc' = [pc EXCEPT ![Writer] = "readHigh"]
      /\ UNCHANGED <<screen, text, count, position, cell>>
  BY DEF IInv, PrintfInv, CursorInv, SelectHigh, Select, Goto
<1>2. pc'[Writer] = "readHigh"
  BY <1>1, OnlyWriter DEF CursorTypeOK
<1>3. PrintfInv' /\ Todo' = Todo
  BY <1>1, <1>2, ConsoleFrame DEF Types
<1>4. Settled /\ ~Settled'
  BY <1>1, <1>2, OnlyWriter, SettledThen
<1>5. before'.screen = screen /\ before'.cursor = Cursor /\ Cursor' = Cursor
  BY <1>1, <1>4, RememberStep DEF Cursor
<1>6. PrintInProgress'
  BY <1>1, <1>2, <1>5 DEF PrintInProgress, Reading, Moving
<1>7. InProgress'
  BY <1>1, <1>6 DEF InProgress
<1>8. UNCHANGED T!vars
  BY <1>3, <1>4, HiddenStep
<1>9. QED
  BY <1>3, <1>7, <1>8

\* It reads the high half of the cursor before the character (stdio.cpp:127-128).
LEMMA ReadHighStep ==
  ASSUME IInv, ReadHigh(Writer), Remember, UNCHANGED printfVars
  PROVE  PrintfInv' /\ InProgress' /\ UNCHANGED T!vars
<1>1. /\ pc[Writer] = "readHigh"
      /\ position' = [position EXCEPT ![Writer] = register[index] * Base]
      /\ pc' = [pc EXCEPT ![Writer] = "selectLow"]
      /\ UNCHANGED <<screen, ports, text, count, cell>>
  BY DEF ReadHigh, At, Goto
<1>2. /\ text[Writer] # <<>> /\ PrintInProgress /\ ~Settled
      /\ Types /\ CursorTypeOK /\ before.cursor \in 0 .. Size - 1
  BY <1>1, Printing DEF Reading
<1>3. pc'[Writer] = "selectLow"
  BY <1>1, <1>2, OnlyWriter DEF CursorTypeOK
<1>4. screen = before.screen /\ Cursor = before.cursor /\ index = "high"
  BY <1>1, <1>2 DEF PrintInProgress, Reading
<1>5. register["high"] * Base \in 0 .. Size
  <2>1. register["high"] \in Nat /\ register["low"] \in Nat /\ Base \in Nat /\ Size \in Nat
    BY <1>2, SizeType DEF CursorTypeOK, Halves
  <2>2. register["high"] * Base \in Nat
    BY <2>1
  <2>3. register["high"] * Base <= Cursor
    BY <2>1, <2>2 DEF Cursor
  <2>4. QED
    BY <1>2, <1>4, <2>1, <2>2, <2>3
<1>6. /\ position' \in [Writers -> 0 .. Size] /\ position'[Writer] = register["high"] * Base
  BY <1>1, <1>2, <1>4, <1>5, OnlyWriter DEF Types
<1>7. PrintfInv' /\ Todo' = Todo
  BY <1>1, <1>2, <1>3, <1>6, ConsoleFrame DEF Types
<1>8. ~Settled' /\ before' = before /\ Cursor' = Cursor /\ register' = register
  BY <1>1, <1>2, <1>3, SettledThen, RememberStep DEF Cursor, ports
<1>9. PrintInProgress'
  BY <1>1, <1>3, <1>4, <1>6, <1>8 DEF PrintInProgress, Reading, Moving
<1>10. InProgress'
  BY <1>1, <1>2, <1>9 DEF InProgress
<1>11. QED
  BY <1>7, <1>8, <1>10, HiddenStep

\* It selects the low half (stdio.cpp:131).
LEMMA SelectLowStep ==
  ASSUME IInv, SelectLow(Writer), Remember, UNCHANGED printfVars
  PROVE  PrintfInv' /\ InProgress' /\ UNCHANGED T!vars
<1>1. /\ pc[Writer] = "selectLow"
      /\ index' = "low" /\ UNCHANGED register /\ pc' = [pc EXCEPT ![Writer] = "readLow"]
      /\ UNCHANGED <<screen, text, count, position, cell>>
  BY DEF SelectLow, Select, Goto
<1>2. text[Writer] # <<>> /\ PrintInProgress /\ ~Settled /\ Types /\ CursorTypeOK
  BY <1>1, Printing DEF Reading
<1>3. pc'[Writer] = "readLow"
  BY <1>1, <1>2, OnlyWriter DEF CursorTypeOK
<1>4. /\ screen = before.screen /\ Cursor = before.cursor
      /\ position[Writer] = register["high"] * Base
  BY <1>1, <1>2 DEF PrintInProgress, Reading
<1>5. PrintfInv' /\ Todo' = Todo
  BY <1>1, <1>2, <1>3, ConsoleFrame DEF Types
<1>6. ~Settled' /\ before' = before /\ Cursor' = Cursor
  BY <1>1, <1>2, <1>3, SettledThen, RememberStep DEF Cursor
<1>7. PrintInProgress'
  BY <1>1, <1>3, <1>4, <1>6 DEF PrintInProgress, Reading, Moving
<1>8. InProgress'
  BY <1>1, <1>2, <1>7 DEF InProgress
<1>9. QED
  BY <1>5, <1>6, <1>8, HiddenStep

\* It puts the cursor together (stdio.cpp:132-135).
LEMMA ReadLowStep ==
  ASSUME IInv, ReadLow(Writer), Remember, UNCHANGED printfVars
  PROVE  PrintfInv' /\ InProgress' /\ UNCHANGED T!vars
<1>1. /\ pc[Writer] = "readLow"
      /\ position' = [position EXCEPT ![Writer] = position[Writer] + register[index]]
      /\ pc' = [pc EXCEPT ![Writer] = "put"]
      /\ UNCHANGED <<screen, ports, text, count, cell>>
  BY DEF ReadLow, At, Goto
<1>2. /\ text[Writer] # <<>> /\ PrintInProgress /\ ~Settled
      /\ Types /\ CursorTypeOK /\ before.cursor \in 0 .. Size - 1
  BY <1>1, Printing DEF Reading
<1>3. pc'[Writer] = "put"
  BY <1>1, <1>2, OnlyWriter DEF CursorTypeOK
<1>4. /\ screen = before.screen /\ Cursor = before.cursor /\ index = "low"
      /\ position[Writer] = register["high"] * Base
  BY <1>1, <1>2 DEF PrintInProgress, Reading
<1>5. position[Writer] + register[index] = Cursor
  BY <1>4 DEF Cursor
<1>6. Cursor \in 0 .. Size
  BY <1>2, <1>4, SizeType
<1>7. position' \in [Writers -> 0 .. Size] /\ position'[Writer] = Cursor
  BY <1>1, <1>2, <1>5, <1>6, OnlyWriter DEF Types
<1>8. PrintfInv' /\ Todo' = Todo
  BY <1>1, <1>2, <1>3, <1>7, ConsoleFrame DEF Types
<1>9. ~Settled' /\ before' = before /\ Cursor' = Cursor
  BY <1>1, <1>2, <1>3, SettledThen, RememberStep DEF Cursor, ports
<1>10. PrintInProgress'
  BY <1>1, <1>3, <1>4, <1>7, <1>9 DEF PrintInProgress, Reading, Moving
<1>11. InProgress'
  BY <1>1, <1>2, <1>10 DEF InProgress
<1>12. QED
  BY <1>8, <1>9, <1>11, HiddenStep

\* A character is put where the cursor was, and the position behind it is that of
\* the next cell, or of the last row if that is to be scrolled in.
LEMMA PutGlyphStep ==
  ASSUME IInv, PutGlyph(Writer), Remember, UNCHANGED printfVars
  PROVE  PrintfInv' /\ InProgress' /\ UNCHANGED T!vars
<1> DEFINE h == Head(text[Writer])
           c == before.cursor
<1>1. /\ pc[Writer] = "put" /\ h # Newline
      /\ screen' = [screen EXCEPT ![position[Writer]] = h]
      /\ IF position[Writer] + 1 = Size
         THEN /\ pc' = [pc EXCEPT ![Writer] = "roll"]
              /\ position' = [position EXCEPT ![Writer] = Size - Columns]
         ELSE /\ pc' = [pc EXCEPT ![Writer] = "move"]
              /\ position' = [position EXCEPT ![Writer] = position[Writer] + 1]
      /\ cell' = [cell EXCEPT ![Writer] = 0]
      /\ UNCHANGED <<ports, text, count>>
  BY DEF PutGlyph, At, Goto
<1>2. /\ text[Writer] # <<>> /\ PrintInProgress /\ ~Settled
      /\ Types /\ CursorTypeOK /\ c \in 0 .. Size - 1 /\ h \in Characters
  BY <1>1, Printing DEF Reading
<1>3. screen = before.screen /\ Cursor = c /\ position[Writer] = c
  BY <1>1, <1>2 DEF PrintInProgress, Reading
<1>4. /\ NextCell(c, h) = c + 1 /\ c + 1 \in 0 .. Size /\ Size - Columns \in 0 .. Size
      /\ Size \in Nat /\ 0 \in 0 .. Size /\ (c + 1 = Size <=> ~(c + 1 < Size))
  BY <1>1, <1>2, NextCellRange, SizeType DEF NextCell
<1>5. Written(before.screen, c, h) = screen' /\ screen' \in [Cells -> Nat]
  <2>1. h \in Nat
    <3>1. \A k \in Characters : k \in Nat
      BY DEF Characters
    <3> HIDE DEF h
    <3>2. QED
      BY <1>2, <3>1
  <2>2. screen \in [Cells -> Nat]
    BY <1>2 DEF Types
  <2>3. screen' = [before.screen EXCEPT ![c] = h]
    BY <1>1, <1>3
  <2> HIDE DEF h
  <2>4. screen' \in [Cells -> Nat]
    BY <1>3, <2>1, <2>2, <2>3
  <2>5. QED
    BY <1>1, <2>3, <2>4 DEF Written
<1>6. /\ position' \in [Writers -> 0 .. Size] /\ cell' \in [Writers -> 0 .. Size]
      /\ cell'[Writer] = 0
      /\ IF c + 1 = Size THEN pc'[Writer] = "roll" /\ position'[Writer] = Size - Columns
         ELSE pc'[Writer] = "move" /\ position'[Writer] = c + 1
  <2>1. /\ position \in [Writers -> 0 .. Size] /\ cell \in [Writers -> 0 .. Size]
        /\ pc \in [Writers -> Steps] /\ Writer \in Writers
    BY <1>2, OnlyWriter DEF Types, CursorTypeOK
  <2> HIDE DEF c, h
  <2>2. cell' \in [Writers -> 0 .. Size] /\ cell'[Writer] = 0
    BY <1>1, <1>4, <2>1
  <2>3. CASE c + 1 = Size
    <3>1. /\ pc' = [pc EXCEPT ![Writer] = "roll"]
          /\ position' = [position EXCEPT ![Writer] = Size - Columns]
      BY <1>1, <1>3, <2>3
    <3>2. QED
      BY <1>4, <2>1, <2>2, <2>3, <3>1
  <2>4. CASE c + 1 # Size
    <3>1. /\ pc' = [pc EXCEPT ![Writer] = "move"]
          /\ position' = [position EXCEPT ![Writer] = c + 1]
      BY <1>1, <1>3, <2>4
    <3>2. QED
      BY <1>4, <2>1, <2>2, <2>4, <3>1
  <2>5. QED
    BY <2>3, <2>4
<1>7. pc[Writer] # "idle" /\ pc'[Writer] # "idle" /\ UNCHANGED <<text, count>>
  BY <1>1, <1>6
<1>8. PrintfInv' /\ Todo' = Todo
  BY <1>5, <1>6, <1>7, ConsoleFrame
<1>9. ~Settled' /\ before' = before /\ h' = h
  BY <1>1, <1>2, <1>6, SettledThen, RememberStep
<1>10. screen' = [k \in Cells |-> IF k < 0 THEN Scrolled(screen')[k] ELSE screen'[k]]
  <2>1. \A k \in Cells : ~(k < 0)
    BY DEF Cells
  <2>2. QED
    BY <1>5, <2>1
<1>11. PrintInProgress'
  <2>1. c' = c
    BY <1>9
  <2>2. CASE c + 1 = Size
    <3>1. pc'[Writer] = "roll" /\ position'[Writer] = (c + 1) - Columns
      BY <1>6, <2>2
    <3>2. c + 1 >= Size /\ 0 < Size
      BY <1>2, <2>2, <1>4
    <3> HIDE DEF h, c
    <3>3. /\ NextCell(c, h)' >= Size /\ position'[Writer] = NextCell(c, h)' - Columns
          /\ cell'[Writer] < Size /\ Written(before.screen, c, h)' = screen'
      BY <1>4, <1>5, <1>6, <1>9, <2>1, <3>1, <3>2 DEF NextCell, Written
    <3>4. screen' = [k \in Cells |-> IF k < cell'[Writer] THEN Scrolled(screen')[k] ELSE screen'[k]]
      BY <1>6, <1>10
    <3>5. QED
      BY <3>1, <3>3, <3>4 DEF PrintInProgress, Reading, Moving, h, c
  <2>3. CASE c + 1 # Size
    <3>1. pc'[Writer] = "move" /\ position'[Writer] = c + 1 /\ c + 1 < Size
      BY <1>4, <1>6, <2>3
    <3> HIDE DEF h, c
    <3>2. NextCell(c, h)' = c + 1 /\ Written(before.screen, c, h)' = screen'
      BY <1>4, <1>5, <1>9, <2>1 DEF NextCell, Written
    <3>3. QED
      BY <3>1, <3>2 DEF PrintInProgress, Reading, Moving, h, c
  <2>4. QED
    BY <2>2, <2>3
<1>12. InProgress'
  BY <1>1, <1>2, <1>11 DEF InProgress
<1>13. QED
  BY <1>8, <1>9, <1>12, HiddenStep

\* A newline goes to the start of the next row, or scrolls.
LEMMA PutNewlineStep ==
  ASSUME IInv, PutNewline(Writer), Remember, UNCHANGED printfVars
  PROVE  PrintfInv' /\ InProgress' /\ UNCHANGED T!vars
<1> DEFINE h == Head(text[Writer])
           c == before.cursor
           row == c \div Columns
<1>1. /\ pc[Writer] = "put" /\ h = Newline
      /\ IF position[Writer] \div Columns = Rows - 1
         THEN /\ pc' = [pc EXCEPT ![Writer] = "roll"]
              /\ position' = [position EXCEPT ![Writer] = (position[Writer] \div Columns) * Columns]
         ELSE /\ pc' = [pc EXCEPT ![Writer] = "move"]
              /\ position' = [position EXCEPT ![Writer] = (position[Writer] \div Columns + 1) * Columns]
      /\ cell' = [cell EXCEPT ![Writer] = 0]
      /\ UNCHANGED <<screen, ports, text, count>>
  BY DEF PutNewline, At, Goto
<1>2. /\ text[Writer] # <<>> /\ PrintInProgress /\ ~Settled
      /\ Types /\ CursorTypeOK /\ c \in 0 .. Size - 1
  BY <1>1, Printing DEF Reading
<1>3. screen = before.screen /\ Cursor = c /\ position[Writer] = c
  BY <1>1, <1>2 DEF PrintInProgress, Reading
<1>4. /\ NextCell(c, h) = (row + 1) * Columns /\ (row + 1) * Columns \in 0 .. Size
      /\ Size - Columns \in 0 .. Size - 1
      /\ row = Rows - 1 <=> (row + 1) * Columns = Size
      /\ (row + 1) * Columns - Columns = row * Columns
  BY <1>1, <1>2, NextCellRange DEF NextCell
<1> DEFINE n == (row + 1) * Columns
<1>5. n \in 0 .. Size /\ Size \in Nat /\ Size - Columns \in 0 .. Size /\ 0 \in 0 .. Size
      /\ (n = Size <=> ~(n < Size)) /\ Size > 0
  <2> HIDE DEF row
  <2>1. n \in 0 .. Size /\ Size - Columns \in 0 .. Size - 1
    BY <1>4
  <2> HIDE DEF n
  <2>2. QED
    BY <1>2, <2>1, SizeType
<1>6. Written(before.screen, c, h) = screen' /\ screen' \in [Cells -> Nat]
  BY <1>1, <1>2, <1>3 DEF Written, Types
<1>7. /\ position' \in [Writers -> 0 .. Size] /\ cell' \in [Writers -> 0 .. Size]
      /\ cell'[Writer] = 0
      /\ IF n = Size THEN pc'[Writer] = "roll" /\ position'[Writer] = n - Columns
         ELSE pc'[Writer] = "move" /\ position'[Writer] = n
  <2>1. cell' \in [Writers -> 0 .. Size] /\ cell'[Writer] = 0
    BY <1>1, <1>2, <1>5, OnlyWriter DEF Types
  <2>2. CASE row = Rows - 1
    <3>1. n = Size /\ row * Columns = n - Columns
      BY <1>4, <2>2
    <3>2. /\ pc' = [pc EXCEPT ![Writer] = "roll"]
          /\ position' = [position EXCEPT ![Writer] = n - Columns]
      BY <1>1, <1>3, <2>2, <3>1
    <3>3. n - Columns \in 0 .. Size
      BY <1>5, <3>1
    <3> HIDE DEF n
    <3>4. QED
      BY <1>2, <2>1, <3>1, <3>2, <3>3, OnlyWriter DEF Types, CursorTypeOK
  <2>3. CASE row # Rows - 1
    <3>1. n # Size
      BY <1>4, <2>3
    <3>2. /\ pc' = [pc EXCEPT ![Writer] = "move"]
          /\ position' = [position EXCEPT ![Writer] = n]
      BY <1>1, <1>3, <2>3
    <3> HIDE DEF n
    <3>3. QED
      BY <1>2, <1>5, <2>1, <3>1, <3>2, OnlyWriter DEF Types, CursorTypeOK
  <2>4. QED
    BY <2>2, <2>3
<1>8. pc[Writer] # "idle" /\ pc'[Writer] # "idle" /\ UNCHANGED <<text, count>>
  BY <1>1, <1>7
<1>9. PrintfInv' /\ Todo' = Todo
  BY <1>6, <1>7, <1>8, ConsoleFrame
<1>10. ~Settled' /\ before' = before /\ h' = h /\ c' = c
  BY <1>1, <1>2, <1>7, SettledThen, RememberStep
<1>11. screen' = [k \in Cells |-> IF k < 0 THEN Scrolled(screen')[k] ELSE screen'[k]]
  <2>1. \A k \in Cells : ~(k < 0)
    BY DEF Cells
  <2>2. QED
    BY <1>6, <2>1
<1>12. NextCell(c, h)' = n /\ Written(before.screen, c, h)' = screen'
  <2>1. NextCell(c, h)' = NextCell(c, h)
    BY <1>10 DEF NextCell
  <2>2. Written(before.screen, c, h)' = Written(before.screen, c, h)
    BY <1>10 DEF Written
  <2>3. QED
    BY <1>4, <1>6, <2>1, <2>2
<1>13. PrintInProgress'
  <2> HIDE DEF n, h, c
  <2>1. CASE n = Size
    <3>1. pc'[Writer] = "roll" /\ position'[Writer] = n - Columns /\ n >= Size /\ cell'[Writer] < Size
      BY <1>5, <1>7, <2>1
    <3>2. screen' = [k \in Cells |-> IF k < cell'[Writer] THEN Scrolled(screen')[k] ELSE screen'[k]]
      BY <1>7, <1>11
    <3>3. QED
      BY <1>12, <3>1, <3>2 DEF PrintInProgress, Reading, Moving, h, c
  <2>2. CASE n # Size
    <3>1. pc'[Writer] = "move" /\ position'[Writer] = n /\ n < Size
      BY <1>5, <1>7, <2>2
    <3>2. QED
      BY <1>12, <3>1 DEF PrintInProgress, Reading, Moving, h, c
  <2>3. QED
    BY <2>1, <2>2
<1>14. InProgress'
  BY <1>1, <1>2, <1>13 DEF InProgress
<1>15. QED
  BY <1>9, <1>10, <1>14, HiddenStep

\* rollUp copies upwards, so that no cell is read after it was overwritten, and at
\* its end the whole picture is scrolled (stdio.cpp:151-166).
LEMMA RollStep ==
  ASSUME IInv, Roll(Writer), Remember, UNCHANGED printfVars
  PROVE  PrintfInv' /\ InProgress' /\ UNCHANGED T!vars
<1> DEFINE h == Head(text[Writer])
           c == before.cursor
           p == Written(before.screen, c, h)
           n == NextCell(c, h)
           k == cell[Writer]
           after == IF k + Columns < Size THEN screen[k + Columns] ELSE Blank
<1>1. /\ pc[Writer] = "roll"
      /\ screen' = [screen EXCEPT ![k] = after]
      /\ cell' = [cell EXCEPT ![Writer] = k + 1]
      /\ IF k + 1 = Size THEN pc' = [pc EXCEPT ![Writer] = "move"] ELSE UNCHANGED pc
      /\ UNCHANGED <<ports, text, count, position>>
  BY DEF Roll, Goto
<1>2. /\ text[Writer] # <<>> /\ PrintInProgress /\ ~Settled
      /\ Types /\ CursorTypeOK /\ c \in 0 .. Size - 1 /\ h \in Characters
      /\ before.screen \in [Cells -> Nat]
  BY <1>1, Printing
<1>3. /\ n >= Size /\ position[Writer] = n - Columns /\ k < Size
      /\ screen = [i \in Cells |-> IF i < k THEN Scrolled(p)[i] ELSE p[i]]
  BY <1>1, <1>2 DEF PrintInProgress
<1>4. /\ k \in Nat /\ k + 1 \in 0 .. Size /\ k \in Cells /\ Size \in Nat
      /\ Columns \in Nat \ {0} /\ \A i \in Nat : i < Size => i \in Cells
  <2>1. k \in Nat /\ Size \in Nat /\ Columns \in Nat \ {0} /\ Base * Base \in Nat
        /\ Size < Base * Base
    BY <1>2, OnlyWriter, SizeType, ConsoleAssumption DEF Types, Size
  <2> HIDE DEF k
  <2>2. QED
    BY <1>3, <2>1 DEF Cells
<1> HIDE DEF p, n, h, c
<1>5. Blank \in Nat /\ screen \in [Cells -> Nat]
  BY <1>2, PrintfAssumption DEF Types
<1>6. after \in Nat /\ after = Scrolled(p)[k]
  <2> HIDE DEF k
  <2>1. Scrolled(p)[k] = IF k + Columns < Size THEN p[k + Columns] ELSE Blank
    BY <1>3, <1>4 DEF Scrolled
  <2>2. CASE k + Columns < Size
    <3>1. k + Columns \in Cells /\ ~(k + Columns < k)
      BY <1>4, <2>2
    <3>2. screen[k + Columns] = p[k + Columns] /\ screen[k + Columns] \in Nat
      BY <1>3, <1>5, <3>1
    <3>3. QED
      BY <2>1, <2>2, <3>2
  <2>3. CASE ~(k + Columns < Size)
    BY <1>5, <2>1, <2>3
  <2>4. QED
    BY <2>2, <2>3
<1> HIDE DEF after
<1>7. screen' = [i \in Cells |-> IF i < k + 1 THEN Scrolled(p)[i] ELSE p[i]]
  <2> HIDE DEF k
  <2>1. \A i \in Cells : screen'[i] = IF i < k + 1 THEN Scrolled(p)[i] ELSE p[i]
    <3> TAKE i \in Cells
    <3>1. i \in Nat
      BY ConsoleAssumption DEF Cells
    <3>2. screen'[i] = IF i = k THEN after ELSE screen[i]
      BY <1>1, <1>5
    <3>3. screen[i] = IF i < k THEN Scrolled(p)[i] ELSE p[i]
      BY <1>3
    <3>4. i < k + 1 <=> i < k \/ i = k
      BY <1>4, <3>1
    <3>5. i = k => ~(i < k)
      BY <1>4
    <3>6. QED
      BY <1>6, <3>2, <3>3, <3>4, <3>5
  <2>2. screen' \in [Cells -> Nat]
    BY <1>1, <1>5, <1>6
  <2>3. QED
    BY <2>1, <2>2
<1>8. screen' \in [Cells -> Nat] /\ position' \in [Writers -> 0 .. Size]
      /\ cell' \in [Writers -> 0 .. Size] /\ cell'[Writer] = k + 1
      /\ pc'[Writer] = IF k + 1 = Size THEN "move" ELSE "roll"
  <2>1. screen' \in [Cells -> Nat] /\ position' \in [Writers -> 0 .. Size]
    BY <1>1, <1>2, <1>5, <1>6 DEF Types
  <2> DEFINE m == k + 1
  <2>2. m \in 0 .. Size /\ cell' = [cell EXCEPT ![Writer] = m]
    BY <1>1, <1>4
  <2>3. IF m = Size THEN pc' = [pc EXCEPT ![Writer] = "move"] ELSE UNCHANGED pc
    BY <1>1
  <2> HIDE DEF m
  <2>4. QED
    <3>1. /\ cell' \in [Writers -> 0 .. Size] /\ cell'[Writer] = m
          /\ pc'[Writer] = IF m = Size THEN "move" ELSE "roll"
      <4>1. cell \in [Writers -> 0 .. Size] /\ pc \in [Writers -> Steps] /\ Writer \in Writers
        BY <1>2, OnlyWriter DEF Types, CursorTypeOK
      <4>2. cell' \in [Writers -> 0 .. Size] /\ cell'[Writer] = m
        BY <2>2, <4>1
      <4>3. pc'[Writer] = IF m = Size THEN "move" ELSE "roll"
        BY <1>1, <2>3, <4>1
      <4>4. QED
        BY <4>2, <4>3
    <3>2. QED
      BY <2>1, <3>1 DEF m
<1>9. pc[Writer] # "idle" /\ pc'[Writer] # "idle" /\ UNCHANGED <<text, count>>
  BY <1>1, <1>8
<1>10. PrintfInv' /\ Todo' = Todo
  BY <1>8, <1>9, ConsoleFrame
<1>11. ~Settled' /\ before' = before /\ h' = h /\ c' = c
  BY <1>1, <1>2, <1>8, SettledThen, RememberStep DEF h, c
<1>12. n' = n /\ p' = p
  BY <1>11 DEF n, p, NextCell, Written
<1>13. PrintInProgress'
  <2>1. CASE k + 1 = Size
    <3>1. \A i \in Cells : (IF i < k + 1 THEN Scrolled(p)[i] ELSE p[i]) = Scrolled(p)[i]
      <4> TAKE i \in Cells
      <4>1. CASE i < k + 1
        BY <4>1
      <4>2. CASE ~(i < k + 1)
        <5>1. i \in Nat /\ ~(i < Size)
          BY <2>1, <4>2, ConsoleAssumption DEF Cells
        <5>2. ~(i + Columns < Size)
          BY <1>4, <5>1
        <5>3. Scrolled(p)[i] = p[i]
          BY <5>1, <5>2 DEF Scrolled
        <5>4. QED
          BY <4>2, <5>3
      <4>3. QED
        BY <4>1, <4>2
    <3>2. screen' = Scrolled(p)
      <4>1. screen' = [i \in Cells |-> Scrolled(p)[i]]
        BY <1>7, <3>1
      <4>2. Scrolled(p) = [i \in Cells |-> Scrolled(p)[i]]
        BY DEF Scrolled
      <4>3. QED
        BY <4>1, <4>2
    <3>3. ~(n < Size)
      <4>1. n \in 0 .. Size
        BY <1>2, NextCellRange DEF n
      <4>2. QED
        BY <1>3, <1>4, <4>1
    <3>4. pc'[Writer] = "move" /\ position'[Writer] = n - Columns
      BY <1>1, <1>3, <1>8, <2>1
    <3>5. Scrolled(p)' = Scrolled(p)
      BY <1>12 DEF Scrolled
    <3>6. QED
      BY <1>12, <3>2, <3>3, <3>4, <3>5 DEF PrintInProgress, Reading, Moving, n, p, h, c
  <2>2. CASE k + 1 # Size
    <3>1. pc'[Writer] = "roll" /\ position'[Writer] = n - Columns /\ n >= Size
      BY <1>1, <1>3, <1>8, <2>2
    <3>2. cell'[Writer] < Size
      BY <1>4, <1>8, <2>2
    <3>3. Scrolled(p)' = Scrolled(p)
      BY <1>12 DEF Scrolled
    <3>4. screen' = [i \in Cells |-> IF i < cell'[Writer] THEN Scrolled(p)'[i] ELSE p'[i]]
      BY <1>7, <1>8, <1>12, <3>3
    <3>5. QED
      BY <1>12, <3>1, <3>2, <3>4 DEF PrintInProgress, Reading, Moving, n, p, h, c
  <2>3. QED
    BY <2>1, <2>2
<1>14. InProgress'
  BY <1>1, <1>2, <1>13 DEF InProgress
<1>15. QED
  BY <1>10, <1>11, <1>14, HiddenStep

\* moveCursor is only called with positions on the screen.
LEMMA OnTheMove ==
  ASSUME IInv, pc[Writer] \in Moving
  PROVE  /\ ~Settled /\ Types /\ Flow /\ Amount /\ CursorTypeOK /\ Halfway(Writer) /\ InProgress
         /\ position[Writer] \in 0 .. Size - 1
         /\ before.cursor \in 0 .. Size - 1
<1>1. /\ Types /\ Flow /\ Amount /\ CursorTypeOK /\ Halfway(Writer) /\ InProgress
  BY OnlyWriter DEF IInv, PrintfInv, CursorInv
<1>2. ~Settled
  BY OnlyWriter DEF Moving
<1>3. position[Writer] \in Nat /\ before.cursor \in 0 .. Size - 1
  BY <1>1, OnlyWriter DEF Types, CursorTypeOK
<1>4. position[Writer] < Size
  <2>1. CASE text[Writer] = <<>>
    BY <1>1, <1>2, <2>1 DEF InProgress, MoveInProgress
  <2>2. CASE text[Writer] # <<>>
    <3> DEFINE n == NextCell(before.cursor, Head(text[Writer]))
    <3>1. n \in 0 .. Size /\ (n >= Size => n = Size) /\ Size - Columns \in 0 .. Size - 1
      BY <1>3, NextCellRange
    <3>2. \/ n < Size /\ position[Writer] = n
          \/ ~(n < Size) /\ position[Writer] = n - Columns
      BY <1>1, <1>2, <2>2 DEF InProgress, PrintInProgress
    <3> HIDE DEF n
    <3>3. QED
      BY <3>1, <3>2, SizeType
  <2>3. QED
    BY <2>1, <2>2
<1>5. QED
  BY <1>1, <1>2, <1>3, <1>4, SizeType

\* Its steps but the last change nothing that is shown (stdio.cpp:98-116).
LEMMA MovingStep ==
  ASSUME IInv, Remember, UNCHANGED printfVars, pc[Writer] \in Moving, pc'[Writer] \in Moving,
         UNCHANGED <<screen, text, count, position, cell>>
  PROVE  PrintfInv' /\ InProgress' /\ UNCHANGED T!vars
<1>1. ~Settled /\ Types /\ InProgress
  BY OnTheMove
<1>2. PrintfInv' /\ Todo' = Todo
  BY <1>1, ConsoleFrame DEF Types, Moving
<1>3. ~Settled' /\ before' = before /\ at' = at
  BY <1>1, SettledThen, RememberStep DEF Moving, printfVars
<1>4. UNCHANGED T!vars
  BY <1>2, <1>3, HiddenStep
<1>5. CASE text[Writer] = <<>>
  <2>1. MoveInProgress'
    BY <1>1, <1>3, <1>5 DEF InProgress, MoveInProgress
  <2>2. QED
    BY <1>2, <1>4, <1>5, <2>1 DEF InProgress
<1>6. CASE text[Writer] # <<>>
  <2> DEFINE p == Written(before.screen, before.cursor, Head(text[Writer]))
             n == NextCell(before.cursor, Head(text[Writer]))
  <2>1. IF n < Size THEN position[Writer] = n /\ screen = p
        ELSE position[Writer] = n - Columns /\ screen = Scrolled(p)
    BY <1>1, <1>6 DEF InProgress, PrintInProgress
  <2>2. n' = n /\ p' = p /\ Scrolled(p)' = Scrolled(p)
    BY <1>3 DEF NextCell, Written, Scrolled
  <2> HIDE DEF n, p
  <2>3. IF n' < Size THEN position'[Writer] = n' /\ screen' = p'
        ELSE position'[Writer] = n' - Columns /\ screen' = Scrolled(p)'
    BY <2>1, <2>2
  <2>4. PrintInProgress'
    BY <2>3 DEF PrintInProgress, Reading, Moving, n, p
  <2>5. QED
    BY <1>2, <1>4, <1>6, <2>4 DEF InProgress
<1>7. QED
  BY <1>5, <1>6

\* It never finds the position out of range (stdio.cpp:100-103).
LEMMA EnterMoveCursorStep ==
  ASSUME IInv, EnterMoveCursor(Writer), Remember, UNCHANGED printfVars
  PROVE  PrintfInv' /\ InProgress' /\ UNCHANGED T!vars
<1>1. pc[Writer] = "move"
  BY DEF EnterMoveCursor
<1>2. position[Writer] \in 0 .. Size - 1 /\ CursorTypeOK
  BY <1>1, OnTheMove DEF Moving
<1>3. ~(position[Writer] >= Size)
  BY <1>2, SizeType
<1>4. /\ pc' = [pc EXCEPT ![Writer] = "writeHigh"]
      /\ UNCHANGED <<screen, text, count, position, cell>>
  BY <1>3 DEF EnterMoveCursor, Goto
<1>5. pc[Writer] \in Moving /\ pc'[Writer] \in Moving
  BY <1>1, <1>2, <1>4, OnlyWriter DEF CursorTypeOK, Moving
<1>6. QED
  BY <1>4, <1>5, MovingStep

\* It writes the high half.
LEMMA WriteHighStep ==
  ASSUME IInv, WriteHigh(Writer), Remember, UNCHANGED printfVars
  PROVE  PrintfInv' /\ InProgress' /\ UNCHANGED T!vars
<1>1. /\ pc[Writer] = "writeHigh" /\ pc' = [pc EXCEPT ![Writer] = "selectLowAgain"]
      /\ UNCHANGED <<screen, text, count, position, cell>>
  BY DEF WriteHigh, Goto
<1>2. CursorTypeOK
  BY DEF IInv, CursorInv
<1>3. pc[Writer] \in Moving /\ pc'[Writer] \in Moving
  BY <1>1, <1>2, OnlyWriter DEF CursorTypeOK, Moving
<1>4. QED
  BY <1>1, <1>3, MovingStep

\* It selects the low half.
LEMMA SelectLowAgainStep ==
  ASSUME IInv, SelectLowAgain(Writer), Remember, UNCHANGED printfVars
  PROVE  PrintfInv' /\ InProgress' /\ UNCHANGED T!vars
<1>1. /\ pc[Writer] = "selectLowAgain" /\ pc' = [pc EXCEPT ![Writer] = "writeLow"]
      /\ UNCHANGED <<screen, text, count, position, cell>>
  BY DEF SelectLowAgain, Goto
<1>2. CursorTypeOK
  BY DEF IInv, CursorInv
<1>3. pc[Writer] \in Moving /\ pc'[Writer] \in Moving
  BY <1>1, <1>2, OnlyWriter DEF CursorTypeOK, Moving
<1>4. QED
  BY <1>1, <1>3, MovingStep

\* The two halves written are the position.
LEMMA CursorWritten ==
  ASSUME CursorInv, WriteLow(Writer) PROVE Cursor' = position[Writer]
<1>1. CursorTypeOK /\ Halfway(Writer) /\ pc[Writer] = "writeLow"
  BY OnlyWriter DEF CursorInv, WriteLow
<1>2. /\ position[Writer] \in Nat /\ position[Writer] < Size /\ index = "low"
      /\ register["high"] = (position[Writer] \div Base) % Base
  BY <1>1, OnlyWriter DEF CursorTypeOK, Halfway
<1>3. register'["low"] = position[Writer] % Base /\ register'["high"] = register["high"]
  BY <1>1, <1>2 DEF WriteLow, CursorTypeOK, Halves
<1>4. QED
  BY <1>2, <1>3, CellHalves DEF Cursor

\* A call of moveCursor ends with the cursor moved, and nothing else.
LEMMA WriteLowMoves ==
  ASSUME IInv, WriteLow(Writer), Remember, UNCHANGED printfVars, text[Writer] = <<>>
  PROVE  PrintfInv' /\ InProgress' /\ T!MoveTo(position[Writer])
<1>1. /\ pc[Writer] = "writeLow" /\ pc' = [pc EXCEPT ![Writer] = "print"]
      /\ UNCHANGED <<screen, text, count, position, cell>>
  BY DEF WriteLow, Moved, Goto
<1>2. /\ ~Settled /\ Types /\ Flow /\ CursorTypeOK /\ InProgress
  BY <1>1, OnTheMove DEF Moving
<1>3. at = "last" /\ screen = before.screen
  BY <1>2 DEF InProgress, MoveInProgress
<1>4. pc'[Writer] = "print"
  BY <1>1, <1>2, OnlyWriter DEF CursorTypeOK
<1>5. Settled'
  BY <1>4, SettledThen
<1>6. PrintfInv' /\ Todo' = Todo
  BY <1>1, <1>2, <1>4, ConsoleFrame DEF Types
<1>7. InProgress'
  BY <1>5 DEF InProgress
<1>8. Todo = <<>>
  BY <1>3 DEF Todo
<1>9. Cursor' = position[Writer]
  BY CursorWritten DEF IInv
<1>10. T!MoveTo(position[Writer])
  BY <1>1, <1>2, <1>3, <1>5, <1>6, <1>8, <1>9 DEF T!MoveTo, T!Idle
<1>11. QED
  BY <1>6, <1>7, <1>10

\* A character ends with it shown, and the cursor behind it, as Teletype says; and
\* print has counted it.
LEMMA WriteLowShows ==
  ASSUME IInv, WriteLow(Writer), Remember, UNCHANGED printfVars, text[Writer] # <<>>
  PROVE  PrintfInv' /\ InProgress' /\ (T!EndLine \/ T!ShowGlyph)
<1> DEFINE h == Head(text[Writer])
           c == before.cursor
           n == NextCell(c, h)
           p == Written(before.screen, c, h)
<1>1. /\ pc[Writer] = "writeLow" /\ pc' = [pc EXCEPT ![Writer] = "print"]
      /\ text' = [text EXCEPT ![Writer] = Tail(@)]
      /\ count' = [count EXCEPT ![Writer] = @ + 1]
      /\ UNCHANGED <<screen, position, cell>>
  BY DEF WriteLow, Moved, Goto
<1>2. /\ ~Settled /\ Types /\ Flow /\ Amount /\ CursorTypeOK /\ InProgress
  BY <1>1, OnTheMove DEF Moving
<1>3. UNCHANGED <<at, call, fmt, number, argument, buffer, idx, counter, calls>>
  BY DEF printfVars
<1>4. /\ Todo # <<>> /\ Head(Todo) = h /\ Todo' = Tail(Todo)
      /\ text' \in [Writers -> Seq(Characters)]
      /\ Len(Todo) = Len(Todo') + 1 /\ Len(Todo') \in Nat
  BY <1>1, <1>2, <1>3, TodoHead
<1>5. pc'[Writer] = "print" /\ count' \in [Writers -> Nat] /\ count'[Writer] = count[Writer] + 1
      /\ count[Writer] \in Nat /\ counter \in Nat
  BY <1>1, <1>2, OnlyWriter DEF CursorTypeOK, Types
<1>6. Settled'
  BY <1>5, SettledThen
<1>7. before' \in [screen : [Cells -> Nat], cursor : 0 .. Size - 1]
  BY RememberStep
<1>8. Types'
  BY <1>1, <1>2, <1>3, <1>4, <1>5, <1>7 DEF Types
<1>9. Flow'
  <2>1. at # "idle"
    BY <1>1, <1>2 DEF Flow
  <2>2. QED
    BY <1>2, <1>3, <1>5, <2>1 DEF Flow
<1>10. Amount'
  <2>1. counter + count[Writer] + Len(Todo) = Len(call)
    BY <1>1, <1>2 DEF Amount
  <2>2. counter' + count'[Writer] + Len(Todo') = Len(call')
    BY <1>3, <1>4, <1>5, <2>1
  <2>3. QED
    BY <1>5, <2>2 DEF Amount
<1>11. InProgress'
  BY <1>6 DEF InProgress
<1>12. Cursor' = position[Writer]
  BY CursorWritten DEF IInv
<1>13. IF n < Size THEN position[Writer] = n /\ screen = p
       ELSE position[Writer] = n - Columns /\ screen = Scrolled(p)
  BY <1>1, <1>2 DEF InProgress, PrintInProgress, Moving
<1>14. CASE h = Newline
  <2>1. n = (c \div Columns + 1) * Columns /\ p = before.screen
    BY <1>14 DEF NextCell, Written
  <2>2. T!EndLine
    BY <1>1, <1>2, <1>4, <1>6, <1>12, <1>13, <1>14, <2>1
       DEF T!EndLine, T!Idle, T!Advance, T!Size, Size, Scrolled
  <2>3. QED
    BY <1>8, <1>9, <1>10, <1>11, <2>2 DEF PrintfInv
<1>15. CASE h # Newline
  <2>1. n = c + 1 /\ p = [before.screen EXCEPT ![c] = h]
    BY <1>15 DEF NextCell, Written
  <2>2. T!ShowGlyph
    BY <1>1, <1>2, <1>4, <1>6, <1>12, <1>13, <1>15, <2>1
       DEF T!ShowGlyph, T!Idle, T!Advance, T!Size, Size, Scrolled
  <2>3. QED
    BY <1>8, <1>9, <1>10, <1>11, <2>2 DEF PrintfInv
<1>16. QED
  BY <1>14, <1>15

-----------------------------------------------------------------------------
\* Together.

\* The invariant holds at the start, which is one of Teletype.
LEMMA InitIInv == Init => IInv /\ T!Init
<1> SUFFICES ASSUME Init PROVE IInv /\ T!Init
  OBVIOUS
<1>1. /\ ConsoleInitially /\ screen = Picture
      /\ at = "idle" /\ call = <<>> /\ fmt = <<>> /\ number = <<>> /\ argument = <<>>
      /\ buffer = [k \in 0 .. BufferLength |-> Unset] /\ idx = 0 /\ counter = 0
      /\ before = [screen |-> screen, cursor |-> Cursor]
  BY DEF Init, ConsoleInitially
<1>2. /\ pc[Writer] = "idle" /\ text = [w \in Writers |-> <<>>] /\ text[Writer] = <<>>
      /\ count = [w \in Writers |-> 0] /\ position = [w \in Writers |-> 0]
      /\ cell = [w \in Writers |-> 0]
  BY <1>1, OnlyWriter DEF ConsoleInitially, ConsoleInit
<1>3. CursorInv
  BY <1>1, ConsoleStarts
<1>4. Settled /\ Cursor \in 0 .. Size - 1
  BY <1>2, <1>3, OnlyWriter, CursorRange
<1>5. <<>> \in Seq(Characters) /\ <<>> \in Seq(Directives)
  BY EmptySeq
<1>6. screen \in [Cells -> Nat]
  BY <1>1, PrintfAssumption
<1>7. Types
  <2>1. buffer \in [0 .. BufferLength -> Nat]
    BY <1>1 DEF Unset
  <2>2. 0 \in 0 .. Size /\ 0 \in 0 .. BufferLength - 1
    BY SizeType, BufferNumbers
  <2>3. before \in [screen : [Cells -> Nat], cursor : 0 .. Size - 1]
    BY <1>1, <1>4, <1>6
  <2>4. /\ text \in [Writers -> Seq(Characters)] /\ count \in [Writers -> Nat]
        /\ position \in [Writers -> 0 .. Size] /\ cell \in [Writers -> 0 .. Size]
    BY <1>2, <1>5, <2>2
  <2>5. QED
    BY <1>1, <1>5, <1>6, <2>1, <2>2, <2>3, <2>4 DEF Types
<1>8. Flow
  BY <1>1, <1>2 DEF Flow
<1>9. Todo = <<>>
  BY <1>1, <1>2 DEF Todo
<1>10. Amount
  BY <1>1, <1>2, <1>9 DEF Amount
<1>11. InProgress
  BY <1>4 DEF InProgress
<1>12. T!Init
  BY <1>4, <1>6, <1>9 DEF T!Init, T!Size, Size
<1>13. QED
  BY <1>3, <1>7, <1>8, <1>10, <1>11, <1>12 DEF IInv, PrintfInv

\* add_to_buffer calls print or leaves the console alone.
LEMMA AddMoves == ASSUME NEW c, AddToBuffer(c) PROVE ConsoleMoves(Writer)
  BY DEF AddToBuffer, Flush, ConsoleMoves

\* Every step of printf does to the console what a writer may.
LEMMA NextMoves ==
  ASSUME [Next]_vars PROVE ConsoleMoves(Writer)
<1>1. CASE Character
  BY <1>1, AddMoves DEF Character
<1>2. CASE String
  BY <1>2 DEF String, Flush, ConsoleMoves
<1>3. CASE StringArgument
  BY <1>3 DEF StringArgument, ConsoleMoves
<1>4. CASE Number
  <2>1. AddToBuffer(45) \/ UNCHANGED consoleVars
    BY <1>4 DEF Number
  <2>2. QED
    BY <2>1, AddMoves DEF ConsoleMoves
<1>5. CASE NumberDigit
  BY <1>5, AddMoves DEF NumberDigit
<1>6. CASE Unknown
  BY <1>6 DEF Unknown, ConsoleMoves
<1>7. CASE LastFlush
  BY <1>7 DEF LastFlush, Flush, ConsoleMoves
<1>8. CASE Printed
  BY <1>8 DEF Printed, ConsoleMoves
<1>9. CASE Return
  BY <1>9 DEF Return, ConsoleMoves
<1>10. CASE ConsoleStep
  BY <1>10 DEF ConsoleStep, ConsoleMoves
<1>11. CASE Call
  <2>1. ASSUME NEW f \in Formats, CallPrintf(f) PROVE ConsoleMoves(Writer)
    BY <2>1 DEF CallPrintf, ConsoleMoves
  <2>2. ASSUME NEW s \in Strings, CallPrint(s) PROVE ConsoleMoves(Writer)
    BY <2>2 DEF CallPrint, ConsoleMoves
  <2>3. ASSUME NEW p \in Points, CallMoveCursor(p) PROVE ConsoleMoves(Writer)
    BY <2>3, PrintfAssumption DEF CallMoveCursor, ConsoleMoves
  <2>4. ASSUME NEW p \in Points, NEW c \in Glyphs, CallPrintAt(p, c) PROVE ConsoleMoves(Writer)
    BY <2>4, PrintfAssumption DEF CallPrintAt, ConsoleMoves
  <2>5. QED
    BY <1>11, <2>1, <2>2, <2>3, <2>4 DEF Call
<1>12. CASE UNCHANGED vars
  BY <1>12 DEF vars, ConsoleMoves
<1>13. CASE Done
  BY <1>12, <1>13 DEF Done
<1>14. QED
  BY <1>1, <1>2, <1>3, <1>4, <1>5, <1>6, <1>7, <1>8, <1>9, <1>10, <1>11, <1>12, <1>13
     DEF Next, Progress

\* Every step of the console shows the next character, moves the cursor or shows
\* nothing.
LEMMA ConsoleStepStep ==
  ASSUME IInv, ConsoleStep
  PROVE  PrintfInv' /\ InProgress' /\ [T!Next]_(T!vars)
<1>1. Step(Writer) /\ Remember /\ UNCHANGED printfVars
  BY DEF ConsoleStep
<1>2. CASE WriteLow(Writer)
  <2>1. position[Writer] \in 0 .. Size - 1
    <3>1. pc[Writer] \in Moving
      BY <1>2 DEF WriteLow, Moving
    <3>2. QED
      BY <3>1, OnTheMove
  <2>2. CASE text[Writer] = <<>>
    <3>1. PrintfInv' /\ InProgress' /\ T!MoveTo(position[Writer])
      BY <1>1, <1>2, <2>2, WriteLowMoves
    <3>2. T!Next
      BY <2>1, <3>1 DEF T!Next, T!Size, Size
    <3>3. QED
      BY <3>1, <3>2
  <2>3. CASE text[Writer] # <<>>
    <3>1. PrintfInv' /\ InProgress' /\ (T!EndLine \/ T!ShowGlyph)
      BY <1>1, <1>2, <2>3, WriteLowShows
    <3>2. QED
      BY <3>1 DEF T!Next
  <2>4. QED
    BY <2>2, <2>3
<1>3. ~WriteLow(Writer) => PrintfInv' /\ InProgress' /\ UNCHANGED T!vars
  BY <1>1, SelectHighStep, ReadHighStep, SelectLowStep, ReadLowStep, PutGlyphStep, PutNewlineStep,
     RollStep, EnterMoveCursorStep, WriteHighStep, SelectLowAgainStep, Zenon DEF Step
<1>4. QED
  BY <1>2, <1>3

\* Every call asks for a text, places a character or shows nothing.
LEMMA CallStep ==
  ASSUME IInv, Call PROVE PrintfInv' /\ InProgress' /\ [T!Next]_(T!vars)
<1>1. ASSUME NEW f \in Formats, CallPrintf(f)
      PROVE  PrintfInv' /\ InProgress' /\ T!Next
  <2>1. PrintfInv' /\ InProgress' /\ T!Ask(Expand(f))
    BY <1>1, CallPrintfStep
  <2>2. Expand(f) \in AllTexts
    BY DEF AllTexts
  <2>3. QED
    BY <2>1, <2>2 DEF T!Next
<1>2. ASSUME NEW s \in Strings, CallPrint(s)
      PROVE  PrintfInv' /\ InProgress' /\ T!Next
  <2>1. PrintfInv' /\ InProgress' /\ T!Ask(s)
    BY <1>2, CallPrintStep
  <2>2. s \in AllTexts
    BY DEF AllTexts
  <2>3. QED
    BY <2>1, <2>2 DEF T!Next
<1>3. ASSUME NEW p \in Points, CallMoveCursor(p)
      PROVE  PrintfInv' /\ InProgress' /\ UNCHANGED T!vars
  BY <1>3, CallMoveCursorStep
<1>4. ASSUME NEW p \in Points, NEW c \in Glyphs, CallPrintAt(p, c)
      PROVE  PrintfInv' /\ InProgress' /\ [T!Next]_(T!vars)
  <2>1. PrintfInv' /\ InProgress' /\ (UNCHANGED T!vars \/ \E n \in 0 .. Size - 1 : T!Place(n, c))
    BY <1>4, CallPrintAtStep
  <2>2. ASSUME NEW n \in 0 .. Size - 1, T!Place(n, c) PROVE T!Next
    BY <2>2 DEF T!Next, T!Size, Size
  <2>3. QED
    BY <2>1, <2>2
<1>5. QED
  BY <1>1, <1>2, <1>3, <1>4 DEF Call

\* Nothing changes, nothing is shown.
LEMMA StutterStep ==
  ASSUME IInv, UNCHANGED vars PROVE PrintfInv' /\ InProgress' /\ UNCHANGED T!vars
<1>1. /\ UNCHANGED <<screen, index, register, pc, text, count, position, cell>>
      /\ UNCHANGED <<at, call, fmt, number, argument, buffer, idx, counter, calls, before>>
  BY DEF vars, consoleVars, ports, printfVars
<1>2. Cursor' = Cursor /\ Todo' = Todo
  BY <1>1 DEF Cursor, Todo, Expand, Shown
<1>3. Settled' <=> Settled
  BY <1>1 DEF Settled
<1>4. Types' /\ Flow' /\ Amount'
  BY <1>1, <1>2 DEF IInv, PrintfInv, Types, Flow, Amount
<1>5. MoveInProgress' <=> MoveInProgress
  BY <1>1 DEF MoveInProgress
<1>6. PrintInProgress' <=> PrintInProgress
  BY <1>1, <1>2 DEF PrintInProgress, NextCell, Written, Scrolled
<1>7. InProgress'
  BY <1>1, <1>3, <1>5, <1>6 DEF IInv, InProgress
<1>8. UNCHANGED T!vars
  BY <1>1, <1>2, <1>3 DEF T!vars
<1>9. QED
  BY <1>4, <1>7, <1>8 DEF PrintfInv

\* Every step keeps the invariant, and is a step of Teletype or shows nothing.
LEMMA NextIInv ==
  ASSUME IInv, [Next]_vars PROVE IInv' /\ [T!Next]_(T!vars)
<1>1. CursorInv'
  BY NextMoves, MovesCursor, OnlyWriter DEF IInv
<1>2. CASE Next
  <2>1. PrintfInv' /\ InProgress' /\ [T!Next]_(T!vars)
    <3>1. CASE Call
      BY <3>1, CallStep
    <3>2. CASE ConsoleStep
      BY <3>2, ConsoleStepStep
    <3>3. CASE \/ Character \/ String \/ StringArgument \/ Number \/ NumberDigit
               \/ Unknown \/ LastFlush \/ Printed \/ Return
      BY <3>3, CharacterStep, StringStep, StringArgumentStep, NumberStep, NumberDigitStep,
         UnknownStep, LastFlushStep, PrintedStep, ReturnStep, Zenon
    <3>4. CASE Done
      <4>1. UNCHANGED vars
        BY <3>4 DEF Done
      <4>2. QED
        BY <4>1, StutterStep
    <3>5. QED
      BY <1>2, <3>1, <3>2, <3>3, <3>4 DEF Next, Progress
  <2>2. QED
    BY <1>1, <2>1 DEF IInv
<1>3. CASE UNCHANGED vars
  BY <1>1, <1>3, StutterStep DEF IInv
<1>4. QED
  BY <1>2, <1>3

\* printf never writes beyond its buffer, prints of it only what was put there
\* and up to its NUL, and returns the number of characters it was to show
\* (stdio.cpp:168-273), whatever the format, the length of the buffer and the
\* width of an int.
THEOREM PrintfTypeTheorem == Spec => []PrintfTypeOK
<1>1. Init => IInv
  BY InitIInv
<1>2. IInv /\ [Next]_vars => IInv'
  BY NextIInv
<1>3. IInv => PrintfTypeOK
  <2> SUFFICES ASSUME IInv PROVE PrintfTypeOK
    OBVIOUS
  <2>1. CursorTypeOK /\ Types /\ Flow /\ Amount
    BY DEF IInv, PrintfInv, CursorInv
  <2>2. at = "idle" => counter = Len(call)
    <3>1. SUFFICES ASSUME at = "idle" PROVE counter = Len(call)
      OBVIOUS
    <3>2. pc[Writer] = "idle" /\ Todo = <<>>
      BY <2>1, <3>1 DEF Flow, Todo
    <3>3. QED
      BY <2>1, <3>2 DEF Amount, Types
  <2>3. QED
    BY <2>1, <2>2 DEF PrintfTypeOK, CursorTypeOK, Types
<1>4. QED
  BY <1>1, <1>2, <1>3, PTL DEF Spec

\* Whatever printf, print, moveCursor and the system calls are asked for, in any
\* order, the cursor is on the screen between two characters (stdio.cpp:34-166).
THEOREM PrintfCursorTheorem == Spec => []CursorOnScreen
<1>1. Init => IInv
  BY InitIInv
<1>2. IInv /\ [Next]_vars => IInv'
  BY NextIInv
<1>3. IInv => CursorOnScreen
  BY SettledOnScreen, OnlyWriter DEF IInv
<1>4. QED
  BY <1>1, <1>2, <1>3, PTL DEF Spec

\* The console implements Teletype: from an initial state of it, each step shows
\* the next character of the text that was asked for, in order, at the cursor,
\* scrolls where it must, and changes nothing else; or it shows nothing
\* (stdio.cpp:21-273, stdlib.cpp:11-40).  That all text is shown in the end is
\* the fairness of ImplementsTeletype, which is model-checked.
THEOREM TeletypeTheorem == Spec => T!Init /\ [][T!Next]_(T!vars)
<1>1. Init => IInv /\ T!Init
  BY InitIInv
<1>2. IInv /\ [Next]_vars => IInv' /\ [T!Next]_(T!vars)
  BY NextIInv
<1>3. QED
  BY <1>1, <1>2, PTL DEF Spec
=============================================================================
