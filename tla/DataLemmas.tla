----------------------------- MODULE DataLemmas -----------------------------
(***************************************************************************)
(* Facts about the data the models are built from: the total of a          *)
(* sequence, what is sifted out of one, and the larger and smaller of two  *)
(* numbers, for every sequence and number.  The library's induction        *)
(* theorems take the property as a parameter; its WFMin takes a set, so    *)
(* CountsUp states induction with a set instead, and the facts about the   *)
(* recursive functions Total and Sifted follow from it.                    *)
(***************************************************************************)
EXTENDS Tally, FiniteSetsExt, WellFoundedInduction, SequenceTheorems, TLAPS

(* A set that has 0, and has the next number up to L whenever it has one,  *)
(* has them all: the induction every fact about a recursive function of    *)
(* this module rests on, from the well-foundedness of the naturals.        *)
LEMMA CountsUp ==
  ASSUME NEW L \in Nat, NEW S, 0 \in S, \A i \in 1 .. L : i - 1 \in S => i \in S
  PROVE  \A i \in 0 .. L : i \in S
<1> DEFINE R == {p \in Nat \X Nat : p[1] < p[2]}
           Bad == {i \in 0 .. L : i \notin S}
<1>1. IsWellFoundedOn(R, Nat)
  BY NatLessThanWellFounded, IsWellFoundedOnSubrelation DEF OpToRel
<1>2. SUFFICES ASSUME Bad # {} PROVE FALSE
  OBVIOUS
<1>3. PICK m \in Bad : \A k \in Bad : ~ (<<k, m>> \in R)
  <2>1. Bad \subseteq Nat
    OBVIOUS
  <2> HIDE DEF Bad, R
  <2> QED BY <1>1, <1>2, <2>1, WFMin
<1>4. m \in 1 .. L /\ m \notin S
  BY <1>3
<1>5. m - 1 \in Nat /\ m \in Nat /\ m - 1 < m /\ m - 1 \in 0 .. L
  BY <1>4
<1>6. <<m - 1, m>> \in R
  BY <1>5
<1>7. m - 1 \notin Bad
  BY <1>3, <1>6
<1> QED BY <1>4, <1>5, <1>7

(* The running totals of a sequence.                                       *)
Tallied(q, t) ==
    /\ t \in [0 .. Len(q) -> Nat]
    /\ t[0] = 0 /\ \A i \in 1 .. Len(q) : t[i] = t[i - 1] + q[i]

LEMMA TallyExists ==
  ASSUME NEW q \in Seq(Nat)
  PROVE  \E t : Tallied(q, t)
<1> DEFINE L == Len(q)
           Upto(n, t) == t \in [0 .. n -> Nat] /\ t[0] = 0 /\ \A i \in 1 .. n : t[i] = t[i - 1] + q[i]
           S == {n \in 0 .. L : \E t : Upto(n, t)}
<1>0. L \in Nat /\ \A i \in 1 .. L : q[i] \in Nat
  OBVIOUS
<1>1. 0 \in S
  <2>1. Upto(0, [i \in 0 .. 0 |-> 0])
    OBVIOUS
  <2>2. 0 \in 0 .. L
    BY <1>0
  <2> QED BY <2>1, <2>2
<1>2. ASSUME NEW m \in 1 .. L, m - 1 \in S PROVE m \in S
  <2>2. PICK t : Upto(m - 1, t)
    BY <1>2
  <2> DEFINE u == [i \in 0 .. m |-> IF i = m THEN t[m - 1] + q[m] ELSE t[i]]
  <2>3. t[m - 1] \in Nat /\ q[m] \in Nat /\ \A i \in 0 .. m - 1 : t[i] \in Nat
    BY <2>2, <1>0
  <2>4. u \in [0 .. m -> Nat] /\ u[0] = 0
    BY <2>2, <2>3
  <2>5. ASSUME NEW i \in 1 .. m PROVE u[i] = u[i - 1] + q[i]
    <3>1. CASE i = m
      BY <3>1
    <3>2. CASE i \in 1 .. m - 1
      BY <3>2, <2>2
    <3> QED BY <3>1, <3>2
  <2>6. Upto(m, u)
    BY <2>4, <2>5
  <2>7. m \in 0 .. L
    BY <1>0
  <2> HIDE DEF u, Upto
  <2> QED BY <2>6, <2>7
<1>3. L \in S
  <2> HIDE DEF S, L
  <2>1. \A i \in 0 .. L : i \in S
    BY <1>0, <1>1, <1>2, CountsUp
  <2> QED BY <2>1, <1>0
<1>4. PICK t : Upto(L, t)
  BY <1>3
<1>5. Tallied(q, t)
  BY <1>4 DEF Tallied
<1> QED BY <1>5

(* The total is the last of any running totals, so there is only one.      *)
LEMMA TotalIsTally ==
  ASSUME NEW q \in Seq(Nat), NEW t, Tallied(q, t)
  PROVE  Total(q) = t[Len(q)]
<1> DEFINE L == Len(q)
           Recurs(u) == u = [i \in 0 .. L |-> IF i = 0 THEN 0 ELSE u[i - 1] + q[i]]
           c == CHOOSE u : Recurs(u)
           S == {i \in 0 .. L : c[i] = t[i]}
<1>0. L \in Nat /\ \A i \in 1 .. L : q[i] \in Nat
  OBVIOUS
<1>1. Total(q) = c[L]
  BY DEF Total
<1>2. Recurs(t)
  BY <1>0 DEF Tallied
<1>3. Recurs(c)
  BY <1>2
<1>4. t[0] = 0 /\ \A i \in 1 .. L : t[i] = t[i - 1] + q[i]
  BY DEF Tallied
<1> HIDE DEF c
<1>5. c[0] = 0 /\ \A i \in 1 .. L : c[i] = c[i - 1] + q[i]
  <2>1. \A i \in 0 .. L : c[i] = IF i = 0 THEN 0 ELSE c[i - 1] + q[i]
    <3> HIDE DEF L
    <3> QED BY <1>3
  <2> HIDE DEF L, Recurs
  <2>2. 0 \in 0 .. L /\ \A i \in 1 .. L : i \in 0 .. L /\ i # 0
    BY <1>0
  <2> QED BY <2>1, <2>2
<1>6. 0 \in S
  BY <1>0, <1>4, <1>5
<1>7. ASSUME NEW i \in 1 .. L, i - 1 \in S PROVE i \in S
  <2>1. i \in 0 .. L /\ c[i - 1] = t[i - 1]
    BY <1>0, <1>7
  <2> QED BY <2>1, <1>4, <1>5
<1>8. L \in S
  <2> HIDE DEF S, L
  <2>1. \A i \in 0 .. L : i \in S
    BY <1>0, <1>6, <1>7, CountsUp
  <2> QED BY <2>1, <1>0
<1> QED BY <1>1, <1>8

LEMMA TotalEmpty == Total(<<>>) = 0
<1>1. <<>> \in Seq(Nat) /\ Len(<<>>) = 0
  OBVIOUS
<1>2. Tallied(<<>>, [i \in 0 .. 0 |-> 0])
  BY <1>1 DEF Tallied
<1> QED BY <1>1, <1>2, TotalIsTally

LEMMA TotalAppend ==
  ASSUME NEW q \in Seq(Nat), NEW n \in Nat
  PROVE  Append(q, n) \in Seq(Nat) /\ Total(q) \in Nat /\ Total(Append(q, n)) = Total(q) + n
<1> DEFINE L == Len(q)
           a == Append(q, n)
<1>1. L \in Nat /\ a \in Seq(Nat) /\ Len(a) = L + 1 /\ a[L + 1] = n /\ \A i \in 1 .. L : a[i] = q[i]
  OBVIOUS
<1>2. PICK t : Tallied(q, t)
  BY TallyExists
<1> HIDE DEF a
<1>3. t \in [0 .. L -> Nat] /\ t[0] = 0 /\ \A i \in 1 .. L : t[i] = t[i - 1] + q[i]
  BY <1>2 DEF Tallied
<1> DEFINE u == [i \in 0 .. L + 1 |-> IF i = L + 1 THEN t[L] + n ELSE t[i]]
<1>4. Total(q) = t[L]
  BY <1>2, TotalIsTally
<1> HIDE DEF L
<1>5. t[L] \in Nat /\ \A i \in 0 .. L : t[i] \in Nat
  BY <1>1, <1>3
<1>6. ASSUME NEW i \in 1 .. L + 1 PROVE u[i] = u[i - 1] + a[i]
  <2>1. CASE i = L + 1
    BY <1>1, <2>1
  <2>2. CASE i \in 1 .. L
    BY <1>1, <1>3, <2>2
  <2> QED BY <1>1, <2>1, <2>2
<1>7. u \in [0 .. L + 1 -> Nat] /\ u[0] = 0 /\ u[L + 1] = t[L] + n
  BY <1>1, <1>3, <1>5
<1> HIDE DEF u
<1>8. Tallied(a, u)
  BY <1>1, <1>6, <1>7 DEF Tallied
<1>9. Total(a) = u[L + 1]
  BY <1>1, <1>8, TotalIsTally
<1> QED BY <1>1, <1>4, <1>5, <1>7, <1>9 DEF a

LEMMA TotalTail ==
  ASSUME NEW q \in Seq(Nat), q # <<>>
  PROVE  Tail(q) \in Seq(Nat) /\ Head(q) \in Nat /\ Total(Tail(q)) \in Nat /\ Total(q) = Head(q) + Total(Tail(q))
<1> DEFINE L == Len(q)
           r == Tail(q)
<1>1. L \in Nat /\ L >= 1 /\ r \in Seq(Nat) /\ Len(r) = L - 1 /\ Head(q) = q[1]
      /\ \A i \in 1 .. L - 1 : r[i] = q[i + 1]
  BY HeadTailProperties
<1>2. \A i \in 1 .. L : q[i] \in Nat
  OBVIOUS
<1>3. PICK t : Tallied(r, t)
  BY <1>1, TallyExists
<1> HIDE DEF r
<1>4. t \in [0 .. L - 1 -> Nat] /\ t[0] = 0 /\ \A i \in 1 .. L - 1 : t[i] = t[i - 1] + r[i]
  BY <1>1, <1>3 DEF Tallied
<1>5. Total(r) = t[L - 1]
  BY <1>1, <1>3, TotalIsTally
<1> DEFINE v == [i \in 0 .. L |-> IF i = 0 THEN 0 ELSE q[1] + t[i - 1]]
<1> HIDE DEF L
<1>6. q[1] \in Nat /\ t[L - 1] \in Nat /\ \A i \in 1 .. L : t[i - 1] \in Nat
  BY <1>1, <1>2, <1>4
<1>7. v \in [0 .. L -> Nat] /\ v[0] = 0 /\ v[L] = q[1] + t[L - 1]
  BY <1>1, <1>6
<1>8. ASSUME NEW i \in 1 .. L PROVE v[i] = v[i - 1] + q[i]
  <2>1. CASE i = 1
    BY <1>1, <1>4, <1>6, <2>1
  <2>2. CASE i \in 2 .. L
    <3>1. i - 1 \in 1 .. L - 1 /\ i - 2 \in 0 .. L - 1 /\ i - 1 # 0 /\ i # 0 /\ (i - 1) - 1 = i - 2
      BY <1>1, <2>2
    <3>2. t[i - 1] = t[i - 2] + r[i - 1]
      BY <1>4, <3>1
    <3>4. r[i - 1] = q[(i - 1) + 1] /\ (i - 1) + 1 = i
      BY <1>1, <3>1
    <3>5. q[i] \in Nat /\ t[i - 2] \in Nat
      BY <1>2, <1>4, <3>1
    <3>3. v[i] = q[1] + t[i - 1] /\ v[i - 1] = q[1] + t[i - 2]
      BY <1>1, <3>1
    <3> QED BY <3>2, <3>3, <3>4, <3>5, <1>6
  <2> QED BY <1>1, <2>1, <2>2
<1> HIDE DEF v
<1>9. Tallied(q, v)
  BY <1>7, <1>8 DEF Tallied, L
<1>10. Total(q) = v[L]
  BY <1>9, TotalIsTally DEF L
<1> QED BY <1>1, <1>5, <1>6, <1>7, <1>10 DEF r
-----------------------------------------------------------------------------
(* Min and Max of two numbers.                                             *)
LEMMA MinOfTwo ==
  ASSUME NEW a \in Int, NEW b \in Int
  PROVE  Min({a, b}) = IF a <= b THEN a ELSE b
<1> DEFINE m == IF a <= b THEN a ELSE b
           Least(x) == x \in {a, b} /\ \A y \in {a, b} : x <= y
<1>1. Least(m)
  OBVIOUS
<1>2. Min({a, b}) = CHOOSE x : Least(x)
  BY DEF Min
<1>3. Least(CHOOSE x : Least(x))
  BY <1>1
<1>4. ASSUME NEW x, Least(x) PROVE x = m
  BY <1>4
<1> HIDE DEF Least, m
<1>5. Min({a, b}) = m
  BY <1>2, <1>3, <1>4
<1> QED BY <1>5 DEF m

LEMMA MaxOfTwo ==
  ASSUME NEW a \in Int, NEW b \in Int
  PROVE  Max({a, b}) = IF a >= b THEN a ELSE b
<1> DEFINE m == IF a >= b THEN a ELSE b
           Most(x) == x \in {a, b} /\ \A y \in {a, b} : x >= y
<1>1. Most(m)
  OBVIOUS
<1>2. Max({a, b}) = CHOOSE x : Most(x)
  BY DEF Max
<1>3. Most(CHOOSE x : Most(x))
  BY <1>1
<1>4. ASSUME NEW x, Most(x) PROVE x = m
  BY <1>4
<1> HIDE DEF Most, m
<1>5. Max({a, b}) = m
  BY <1>2, <1>3, <1>4
<1> QED BY <1>5 DEF m
-----------------------------------------------------------------------------
(* The elements of a sequence that are in a set.                           *)
SiftedSoFar(q, S, n, t) ==
    /\ t[0] = <<>>
    /\ \A i \in 1 .. n : t[i] = IF q[i] \in S THEN Append(t[i - 1], q[i]) ELSE t[i - 1]

LEMMA SiftingExists ==
  ASSUME NEW T, NEW q \in Seq(T), NEW S
  PROVE  \E t \in [0 .. Len(q) -> Seq(T)] : SiftedSoFar(q, S, Len(q), t)
<1> DEFINE L == Len(q)
           R == {n \in 0 .. L : \E t \in [0 .. n -> Seq(T)] : SiftedSoFar(q, S, n, t)}
<1>0. L \in Nat /\ \A i \in 1 .. L : q[i] \in T
  OBVIOUS
<1>1. 0 \in R
  <2>1. [i \in 0 .. 0 |-> <<>>] \in [0 .. 0 -> Seq(T)]
    OBVIOUS
  <2>2. SiftedSoFar(q, S, 0, [i \in 0 .. 0 |-> <<>>])
    BY DEF SiftedSoFar
  <2>3. 0 \in 0 .. L
    BY <1>0
  <2> QED BY <2>1, <2>2, <2>3
<1>2. ASSUME NEW m \in 1 .. L, m - 1 \in R PROVE m \in R
  <2>1. PICK t \in [0 .. m - 1 -> Seq(T)] : SiftedSoFar(q, S, m - 1, t)
    BY <1>2
  <2>2. PICK last : last = IF q[m] \in S THEN Append(t[m - 1], q[m]) ELSE t[m - 1]
    OBVIOUS
  <2> DEFINE u == [i \in 0 .. m |-> IF i = m THEN last ELSE t[i]]
  <2>3. t[m - 1] \in Seq(T) /\ q[m] \in T /\ \A i \in 0 .. m - 1 : t[i] \in Seq(T)
    BY <1>0
  <2>4. last \in Seq(T)
    BY <2>2, <2>3
  <2>5. u \in [0 .. m -> Seq(T)] /\ u[0] = <<>>
    BY <2>1, <2>3, <2>4 DEF SiftedSoFar
  <2>6. ASSUME NEW i \in 1 .. m PROVE u[i] = IF q[i] \in S THEN Append(u[i - 1], q[i]) ELSE u[i - 1]
    <3>1. CASE i = m
      <4>1. u[m] = last /\ u[m - 1] = t[m - 1]
        OBVIOUS
      <4> HIDE DEF u
      <4> QED BY <3>1, <4>1, <2>2
    <3>2. CASE i \in 1 .. m - 1
      <4>1. u[i] = t[i] /\ u[i - 1] = t[i - 1]
        BY <3>2
      <4> HIDE DEF u
      <4> QED BY <3>2, <4>1, <2>1 DEF SiftedSoFar
    <3> QED BY <3>1, <3>2
  <2> HIDE DEF u
  <2>7. SiftedSoFar(q, S, m, u)
    BY <2>5, <2>6 DEF SiftedSoFar
  <2>8. m \in 0 .. L
    BY <1>0
  <2> QED BY <2>5, <2>7, <2>8
<1>3. L \in R
  <2> HIDE DEF R, L
  <2>1. \A i \in 0 .. L : i \in R
    BY <1>0, <1>1, <1>2, CountsUp
  <2> QED BY <2>1, <1>0
<1> QED BY <1>3

LEMMA SiftedIsLast ==
  ASSUME NEW T, NEW q \in Seq(T), NEW S, NEW t \in [0 .. Len(q) -> Seq(T)], SiftedSoFar(q, S, Len(q), t)
  PROVE  Sifted(q, S) = t[Len(q)]
<1> DEFINE L == Len(q)
           Recurs(u) == u = [i \in 0 .. L |-> IF i = 0 THEN <<>>
                               ELSE IF q[i] \in S THEN Append(u[i - 1], q[i]) ELSE u[i - 1]]
           c == CHOOSE u : Recurs(u)
           R == {i \in 0 .. L : c[i] = t[i]}
<1>0. L \in Nat
  OBVIOUS
<1>1. Sifted(q, S) = c[L]
  BY DEF Sifted
<1>2. t[0] = <<>> /\ \A i \in 1 .. L : t[i] = IF q[i] \in S THEN Append(t[i - 1], q[i]) ELSE t[i - 1]
  BY DEF SiftedSoFar
<1>3. Recurs(t)
  <2> HIDE DEF L
  <2>1. t = [i \in 0 .. L |-> t[i]]
    BY DEF L
  <2>2. \A i \in 0 .. L : t[i] = IF i = 0 THEN <<>>
                               ELSE IF q[i] \in S THEN Append(t[i - 1], q[i]) ELSE t[i - 1]
    BY <1>0, <1>2
  <2> QED BY <2>1, <2>2
<1>4. Recurs(c)
  BY <1>3
<1> HIDE DEF c
<1>5. c[0] = <<>> /\ \A i \in 1 .. L : c[i] = IF q[i] \in S THEN Append(c[i - 1], q[i]) ELSE c[i - 1]
  <2>1. \A i \in 0 .. L : c[i] = IF i = 0 THEN <<>>
                               ELSE IF q[i] \in S THEN Append(c[i - 1], q[i]) ELSE c[i - 1]
    <3> HIDE DEF L
    <3> QED BY <1>4
  <2> HIDE DEF L, Recurs
  <2>2. 0 \in 0 .. L /\ \A i \in 1 .. L : i \in 0 .. L /\ i # 0
    BY <1>0
  <2> QED BY <2>1, <2>2
<1>6. 0 \in R
  BY <1>0, <1>2, <1>5
<1>7. ASSUME NEW i \in 1 .. L, i - 1 \in R PROVE i \in R
  <2>1. i \in 0 .. L /\ c[i - 1] = t[i - 1]
    BY <1>0, <1>7
  <2> QED BY <2>1, <1>2, <1>5
<1>8. L \in R
  <2> HIDE DEF R, L
  <2>1. \A i \in 0 .. L : i \in R
    BY <1>0, <1>6, <1>7, CountsUp
  <2> QED BY <2>1, <1>0
<1> QED BY <1>1, <1>8

(* The sifted sequence has the elements of the set, no others, and is      *)
(* shorter when it left one out.                                           *)
LEMMA SiftedHas ==
  ASSUME NEW T, NEW q \in Seq(T), NEW S
  PROVE  /\ Sifted(q, S) \in Seq(T)
         /\ \A j \in 1 .. Len(Sifted(q, S)) :
              Sifted(q, S)[j] \in S /\ \E i \in 1 .. Len(q) : q[i] = Sifted(q, S)[j]
         /\ \A i \in 1 .. Len(q) : q[i] \in S => \E j \in 1 .. Len(Sifted(q, S)) : Sifted(q, S)[j] = q[i]
         /\ Len(Sifted(q, S)) <= Len(q)
         /\ (\E i \in 1 .. Len(q) : q[i] \notin S) => Len(Sifted(q, S)) < Len(q)
<1> DEFINE L == Len(q)
<1>0. L \in Nat /\ \A i \in 1 .. L : q[i] \in T
  OBVIOUS
<1>1. PICK t \in [0 .. L -> Seq(T)] : SiftedSoFar(q, S, L, t)
  BY SiftingExists
<1>2. Sifted(q, S) = t[L]
  BY <1>1, SiftedIsLast
<1>3. t[0] = <<>> /\ \A i \in 1 .. L : t[i] = IF q[i] \in S THEN Append(t[i - 1], q[i]) ELSE t[i - 1]
  BY <1>1 DEF SiftedSoFar
<1> DEFINE Has(n) ==
             /\ \A j \in 1 .. Len(t[n]) : t[n][j] \in S /\ \E i \in 1 .. n : q[i] = t[n][j]
             /\ \A i \in 1 .. n : q[i] \in S => \E j \in 1 .. Len(t[n]) : t[n][j] = q[i]
             /\ Len(t[n]) <= n
             /\ (\E i \in 1 .. n : q[i] \notin S) => Len(t[n]) < n
           R == {n \in 0 .. L : Has(n)}
<1>4. 0 \in R
  <2>1. Has(0)
    BY <1>3
  <2> QED BY <2>1, <1>0
<1>5. ASSUME NEW m \in 1 .. L, m - 1 \in R PROVE m \in R
  <2>1. Has(m - 1) /\ m \in 0 .. L /\ m - 1 \in 0 .. L
    BY <1>0, <1>5
  <2>2. PICK old \in Seq(T), new \in Seq(T) : old = t[m - 1] /\ new = t[m]
    BY <1>1, <2>1
  <2>3. new = IF q[m] \in S THEN Append(old, q[m]) ELSE old
    BY <1>3, <2>2
  <2>4. /\ \A j \in 1 .. Len(old) : old[j] \in S /\ \E i \in 1 .. m - 1 : q[i] = old[j]
        /\ \A i \in 1 .. m - 1 : q[i] \in S => \E j \in 1 .. Len(old) : old[j] = q[i]
        /\ Len(old) <= m - 1
        /\ (\E i \in 1 .. m - 1 : q[i] \notin S) => Len(old) < m - 1
    BY <2>1, <2>2
  <2>5. \A i \in 1 .. m : i = m \/ i \in 1 .. m - 1
    BY <1>0
  <2>6. Len(old) \in Nat /\ q[m] \in T /\ \A i \in 1 .. m - 1 : i \in 1 .. m
    BY <1>0, <2>2
  <2>7. /\ \A j \in 1 .. Len(new) : new[j] \in S /\ \E i \in 1 .. m : q[i] = new[j]
        /\ \A i \in 1 .. m : q[i] \in S => \E j \in 1 .. Len(new) : new[j] = q[i]
        /\ Len(new) <= m
        /\ (\E i \in 1 .. m : q[i] \notin S) => Len(new) < m
    <3> HIDE DEF L
    <3>1. CASE q[m] \in S
      <4>1. /\ new = Append(old, q[m]) /\ Len(new) = Len(old) + 1 /\ new[Len(old) + 1] = q[m]
            /\ \A j \in 1 .. Len(old) : new[j] = old[j]
        BY <2>2, <2>3, <2>6, <3>1
      <4>2. \A j \in 1 .. Len(new) : j = Len(old) + 1 \/ j \in 1 .. Len(old)
        BY <4>1, <2>6
      <4>3. \A j \in 1 .. Len(old) : j \in 1 .. Len(new)
        BY <4>1, <2>6
      <4>4. Len(old) + 1 \in 1 .. Len(new)
        BY <4>1, <2>6
      <4>5. \A j \in 1 .. Len(new) : new[j] \in S /\ \E i \in 1 .. m : q[i] = new[j]
        BY <4>1, <4>2, <2>4, <2>6, <3>1
      <4>6. \A i \in 1 .. m : q[i] \in S => \E j \in 1 .. Len(new) : new[j] = q[i]
        BY <4>1, <4>3, <4>4, <2>4, <2>5
      <4>7. Len(new) <= m /\ ((\E i \in 1 .. m : q[i] \notin S) => Len(new) < m)
        BY <4>1, <2>4, <2>5, <2>6, <3>1
      <4> QED BY <4>5, <4>6, <4>7
    <3>2. CASE q[m] \notin S
      <4>1. new = old
        BY <2>3, <3>2
      <4>2. \A j \in 1 .. Len(new) : new[j] \in S /\ \E i \in 1 .. m : q[i] = new[j]
        BY <4>1, <2>4, <2>6
      <4>3. \A i \in 1 .. m : q[i] \in S => \E j \in 1 .. Len(new) : new[j] = q[i]
        BY <4>1, <2>4, <2>5, <3>2
      <4>4. Len(new) < m
        BY <4>1, <2>4, <2>6
      <4>5. Len(new) <= m
        BY <4>1, <2>4, <2>6
      <4> QED BY <4>2, <4>3, <4>4, <4>5
    <3> QED BY <3>1, <3>2
  <2> QED BY <2>1, <2>2, <2>7
<1>6. Has(L)
  <2>1. L \in R
    <3> HIDE DEF R, L
    <3>1. \A i \in 0 .. L : i \in R
      BY <1>0, <1>4, <1>5, CountsUp
    <3> QED BY <3>1, <1>0
  <2> QED BY <2>1
<1>7. t[L] \in Seq(T)
  BY <1>0, <1>1
<1> QED BY <1>2, <1>6, <1>7

(* A set of natural numbers that is not empty has a least one.             *)
LEMMA LeastOfSet ==
  ASSUME NEW S, S \subseteq Nat, S # {}
  PROVE  Min(S) \in S /\ \A y \in S : Min(S) <= y
<1> DEFINE R == {p \in Nat \X Nat : p[1] < p[2]}
<1>1. IsWellFoundedOn(R, Nat)
  BY NatLessThanWellFounded, IsWellFoundedOnSubrelation DEF OpToRel
<1>2. PICK m \in S : \A k \in S : ~ (<<k, m>> \in R)
  <2> HIDE DEF R
  <2> QED BY <1>1, WFMin
<1>3. ASSUME NEW k \in S PROVE m <= k
  <2>1. k \in Nat /\ m \in Nat
    OBVIOUS
  <2>2. k < m => <<k, m>> \in R
    BY <2>1
  <2> QED BY <1>2, <2>1, <2>2
<1> QED BY <1>3 DEF Min
=============================================================================
