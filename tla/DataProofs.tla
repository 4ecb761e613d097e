----------------------------- MODULE DataProofs ------------------------------
(***************************************************************************)
(* What filtering a list keeps, for every list; the sum of the values of a *)
(* function over a finite set; and the least number of a set of numbers,   *)
(* from which both are proved: of what fails for some prefix or some       *)
(* subset, a smallest one would fail.                                      *)
(***************************************************************************)
EXTENDS Lists, FiniteSetTheorems, SequenceTheorems, NaturalsInduction, WellFoundedInduction, TLAPS

LEMMA LeastNumber ==
    ASSUME NEW T \in SUBSET Nat, T # {}
    PROVE  \E n \in T : \A m \in T : n <= m
  <1> DEFINE R == {p \in Nat \X Nat : p[1] < p[2]}
  <1>1. IsWellFoundedOn(R, Nat)
    BY NatLessThanWellFounded DEF OpToRel
  <1>2. PICK x \in T : \A y \in T : ~(<<y, x>> \in R)
    BY <1>1, WFMin
  <1>3. \A y \in T : ~(y < x)
    BY <1>2
  <1> QED
    BY <1>3

\* A set of numbers up to n has a greatest one.
LEMMA GreatestNumber ==
    ASSUME NEW n \in Nat, NEW T \in SUBSET (1 .. n), T # {}
    PROVE  \E m \in T : \A x \in T : m >= x
  <1> DEFINE U == {k \in Nat : n - k \in T}
  <1>1. U # {}
    <2>1. PICK x \in T : TRUE
      OBVIOUS
    <2>2. x \in 1 .. n
      BY <2>1
    <2>3. n - x \in Nat /\ n - (n - x) = x
      BY <2>2
    <2>4. n - x \in U
      BY <2>1, <2>3
    <2> QED
      BY <2>4
  <1>2. PICK k \in U : \A j \in U : k <= j
    BY <1>1, LeastNumber
  <1>3. ASSUME NEW x \in T PROVE n - k >= x
    <2>1. x \in 1 .. n
      OBVIOUS
    <2>2. n - x \in Nat /\ n - (n - x) = x
      BY <2>1
    <2>3. n - x \in U
      BY <2>2
    <2>4. k <= n - x /\ k \in Nat
      BY <1>2, <2>3
    <2> QED
      BY <2>1, <2>4
  <1> QED
    BY <1>2, <1>3

\* The walk of the filter is defined.
KeepStep(list, S, kept, i) == IF list[i] \in S THEN Append(kept, list[i]) ELSE kept

LEMMA FilteredWalk ==
    ASSUME NEW list, Len(list) \in Nat, NEW S
    PROVE  \E walk :
             /\ DOMAIN walk = 0 .. Len(list) /\ walk[0] = <<>>
             /\ \A i \in 1 .. Len(list) : walk[i] = KeepStep(list, S, walk[i - 1], i)
             /\ Filtered(list, S) = walk[Len(list)]
  <1> DEFINE G(n, f) == f = [i \in 0 .. n |->
                               IF i = 0 THEN <<>> ELSE KeepStep(list, S, f[i - 1], i)]
             T == {n \in Nat : n <= Len(list) /\ ~\E f : G(n, f)}
  <1>1. T = {}
    <2>1. SUFFICES ASSUME T # {} PROVE FALSE
      OBVIOUS
    <2>2. PICK n \in T : \A m \in T : n <= m
      BY <2>1, LeastNumber
    <2>3. n # 0
      <3>1. G(0, [i \in 0 .. 0 |-> <<>>])
        OBVIOUS
      <3> QED
        BY <2>2, <3>1
    <2>4. PICK f : G(n - 1, f)
      <3>1. n - 1 \in Nat /\ n - 1 <= Len(list) /\ ~(n <= n - 1)
        BY <2>2, <2>3
      <3>2. n - 1 \notin T
        BY <2>2, <3>1
      <3> HIDE DEF G
      <3> QED
        BY <3>1, <3>2
    <2> DEFINE g == [i \in 0 .. n |-> IF i = n THEN KeepStep(list, S, f[n - 1], n) ELSE f[i]]
    <2>5. G(n, g)
      <3>1. ASSUME NEW i \in 0 .. n
            PROVE  g[i] = IF i = 0 THEN <<>> ELSE KeepStep(list, S, g[i - 1], i)
        <4>1. CASE i = n
          BY <2>2, <2>3, <4>1
        <4>2. CASE i # n
          <5>1. i \in 0 .. (n - 1) /\ g[i] = f[i] /\ (i # 0 => g[i - 1] = f[i - 1])
            BY <2>2, <3>1, <4>2
          <5> QED
            BY <2>4, <5>1
        <4> QED
          BY <4>1, <4>2
      <3> HIDE DEF g
      <3>2. g = [i \in 0 .. n |-> g[i]]
        BY DEF g
      <3> QED
        BY <3>1, <3>2
    <2> QED
      BY <2>2, <2>5
  <1>2. \E f : G(Len(list), f)
    BY <1>1
  <1> DEFINE kept == CHOOSE f : G(Len(list), f)
  <1>3. G(Len(list), kept)
    BY <1>2
  <1>4. Filtered(list, S) = kept[Len(list)]
    BY DEF Filtered, KeepStep
  <1> HIDE DEF kept
  <1>5. DOMAIN kept = 0 .. Len(list) /\ Len(list) \in Nat
    BY <1>3
  <1>6. \A i \in 0 .. Len(list) :
           kept[i] = IF i = 0 THEN <<>> ELSE KeepStep(list, S, kept[i - 1], i)
    BY <1>3
  <1>7. kept[0] = <<>>
    BY <1>5, <1>6
  <1>8. \A i \in 1 .. Len(list) : kept[i] = KeepStep(list, S, kept[i - 1], i)
    BY <1>5, <1>6
  <1> QED
    BY <1>4, <1>5, <1>7, <1>8


\* What is kept was in the list and is in S, and there is not more of it.
LEMMA FilteredEntries ==
    ASSUME NEW X, NEW list \in Seq(X), NEW S
    PROVE  Filtered(list, S) \in Seq(X \cap S) /\ Len(Filtered(list, S)) <= Len(list)
  <1>1. PICK walk :
          /\ walk[0] = <<>>
          /\ \A i \in 1 .. Len(list) : walk[i] = KeepStep(list, S, walk[i - 1], i)
          /\ Filtered(list, S) = walk[Len(list)]
    BY FilteredWalk
  <1> DEFINE Good(n) == walk[n] \in Seq(X \cap S) /\ Len(walk[n]) <= n
             T == {n \in Nat : n <= Len(list) /\ ~Good(n)}
  <1>2. T = {}
    <2>1. SUFFICES ASSUME T # {} PROVE FALSE
      OBVIOUS
    <2>2. PICK n \in T : \A m \in T : n <= m
      BY <2>1, LeastNumber
    <2>3. n # 0
      <3>1. Good(0)
        BY <1>1
      <3> QED
        BY <2>2, <3>1
    <2>4. n \in 1 .. Len(list) /\ n - 1 \in Nat /\ n - 1 <= Len(list) /\ ~(n <= n - 1)
      BY <2>2, <2>3
    <2>5. Good(n - 1)
      BY <2>2, <2>4
    <2>6. CASE list[n] \in S
      <3>1. list[n] \in X \cap S /\ walk[n] = Append(walk[n - 1], list[n])
        <4>1. list[n] \in X
          BY <2>4
        <4> QED
          BY <1>1, <2>4, <2>6, <4>1 DEF KeepStep
      <3>2. Good(n)
        BY <2>4, <2>5, <3>1
      <3> QED
        BY <2>2, <3>2
    <2>7. CASE list[n] \notin S
      <3>1. walk[n] = walk[n - 1]
        BY <1>1, <2>4, <2>7 DEF KeepStep
      <3>2. Good(n)
        BY <2>4, <2>5, <3>1
      <3> QED
        BY <2>2, <3>2
    <2> QED
      BY <2>6, <2>7
  <1> QED
    BY <1>1, <1>2

\* Nothing that is in S is left out.
LEMMA FilteredHasAll ==
    ASSUME NEW X, NEW list \in Seq(X), NEW S
    PROVE  \A i \in 1 .. Len(list) : list[i] \in S =>
               \E k \in DOMAIN Filtered(list, S) : Filtered(list, S)[k] = list[i]
  <1>1. PICK walk :
          /\ walk[0] = <<>>
          /\ \A i \in 1 .. Len(list) : walk[i] = KeepStep(list, S, walk[i - 1], i)
          /\ Filtered(list, S) = walk[Len(list)]
    BY FilteredWalk
  <1> DEFINE Good(n) == /\ walk[n] \in Seq(X \cap S)
                        /\ \A i \in 1 .. n : list[i] \in S =>
                              \E k \in 1 .. Len(walk[n]) : walk[n][k] = list[i]
             T == {n \in Nat : n <= Len(list) /\ ~Good(n)}
  <1>2. T = {}
    <2>1. SUFFICES ASSUME T # {} PROVE FALSE
      OBVIOUS
    <2>2. PICK n \in T : \A m \in T : n <= m
      BY <2>1, LeastNumber
    <2>3. n # 0
      <3>1. Good(0)
        BY <1>1
      <3> QED
        BY <2>2, <3>1
    <2>4. n \in 1 .. Len(list) /\ n - 1 \in Nat /\ n - 1 <= Len(list) /\ ~(n <= n - 1)
      BY <2>2, <2>3
    <2>5. Good(n - 1)
      BY <2>2, <2>4
    <2>6. CASE list[n] \in S
      <3>1. list[n] \in X \cap S /\ walk[n] = Append(walk[n - 1], list[n])
        <4>1. list[n] \in X
          BY <2>4
        <4> QED
          BY <1>1, <2>4, <2>6, <4>1 DEF KeepStep
      <3>2. Good(n)
        <4>1. /\ walk[n] \in Seq(X \cap S) /\ Len(walk[n]) = Len(walk[n - 1]) + 1
              /\ walk[n][Len(walk[n])] = list[n] /\ Len(walk[n - 1]) \in Nat
              /\ \A k \in 1 .. Len(walk[n - 1]) : walk[n][k] = walk[n - 1][k]
          BY <2>5, <3>1
        <4>2. ASSUME NEW i \in 1 .. n, list[i] \in S
              PROVE  \E k \in 1 .. Len(walk[n]) : walk[n][k] = list[i]
          <5>1. CASE i = n
            BY <4>1, <5>1
          <5>2. CASE i # n
            <6>1. PICK k \in 1 .. Len(walk[n - 1]) : walk[n - 1][k] = list[i]
              BY <2>4, <2>5, <4>2, <5>2
            <6> QED
              BY <4>1, <6>1
          <5> QED
            BY <5>1, <5>2
        <4> QED
          BY <4>1, <4>2
      <3> QED
        BY <2>2, <3>2
    <2>7. CASE list[n] \notin S
      <3>1. walk[n] = walk[n - 1]
        BY <1>1, <2>4, <2>7 DEF KeepStep
      <3>2. Good(n)
        <4>1. \A i \in 1 .. n : list[i] \in S => i \in 1 .. (n - 1)
          BY <2>4, <2>7
        <4> QED
          BY <2>5, <3>1, <4>1
      <3> QED
        BY <2>2, <3>2
    <2> QED
      BY <2>6, <2>7
  <1>3. Good(Len(list))
    BY <1>2
  <1> QED
    BY <1>1, <1>3

\* What is kept is kept once, if it was once in the list.
LEMMA FilteredDistinct ==
    ASSUME NEW X, NEW list \in Seq(X), NEW S,
           \A i, j \in 1 .. Len(list) : list[i] \in S /\ list[i] = list[j] => i = j
    PROVE  \A k, l \in DOMAIN Filtered(list, S) :
               Filtered(list, S)[k] = Filtered(list, S)[l] => k = l
  <1>1. PICK walk :
          /\ walk[0] = <<>>
          /\ \A i \in 1 .. Len(list) : walk[i] = KeepStep(list, S, walk[i - 1], i)
          /\ Filtered(list, S) = walk[Len(list)]
    BY FilteredWalk
  <1> DEFINE Good(n) == /\ walk[n] \in Seq(X \cap S)
                        /\ \A k \in 1 .. Len(walk[n]) : \E i \in 1 .. n : walk[n][k] = list[i]
                        /\ \A k, l \in 1 .. Len(walk[n]) : walk[n][k] = walk[n][l] => k = l
             T == {n \in Nat : n <= Len(list) /\ ~Good(n)}
  <1>2. T = {}
    <2>1. SUFFICES ASSUME T # {} PROVE FALSE
      OBVIOUS
    <2>2. PICK n \in T : \A m \in T : n <= m
      BY <2>1, LeastNumber
    <2>3. n # 0
      <3>1. Good(0)
        BY <1>1
      <3> QED
        BY <2>2, <3>1
    <2>4. n \in 1 .. Len(list) /\ n - 1 \in Nat /\ n - 1 <= Len(list) /\ ~(n <= n - 1)
      BY <2>2, <2>3
    <2>5. Good(n - 1)
      BY <2>2, <2>4
    <2>6. CASE list[n] \in S
      <3>1. list[n] \in X \cap S /\ walk[n] = Append(walk[n - 1], list[n])
        <4>1. list[n] \in X
          BY <2>4
        <4> QED
          BY <1>1, <2>4, <2>6, <4>1 DEF KeepStep
      <3>2. Good(n)
        <4>1. /\ walk[n] \in Seq(X \cap S) /\ Len(walk[n]) = Len(walk[n - 1]) + 1
              /\ walk[n][Len(walk[n])] = list[n] /\ Len(walk[n - 1]) \in Nat
              /\ \A k \in 1 .. Len(walk[n - 1]) : walk[n][k] = walk[n - 1][k]
          BY <2>5, <3>1
        <4>2. ASSUME NEW k \in 1 .. Len(walk[n]), k # Len(walk[n])
              PROVE  k \in 1 .. Len(walk[n - 1]) /\ walk[n][k] = walk[n - 1][k]
          BY <4>1, <4>2
        <4>3. ASSUME NEW k \in 1 .. Len(walk[n - 1]) PROVE walk[n - 1][k] # list[n]
          <5>1. PICK i \in 1 .. (n - 1) : walk[n - 1][k] = list[i]
            BY <2>5
          <5>2. i \in 1 .. Len(list) /\ i # n
            BY <2>4, <5>1
          <5> QED
            BY <2>4, <2>6, <5>1, <5>2
        <4>4. \A k \in 1 .. Len(walk[n]) : \E i \in 1 .. n : walk[n][k] = list[i]
          <5>1. TAKE k \in 1 .. Len(walk[n])
          <5>2. CASE k = Len(walk[n])
            BY <2>4, <4>1, <5>2
          <5>3. CASE k # Len(walk[n])
            <6>1. PICK i \in 1 .. (n - 1) : walk[n - 1][k] = list[i]
              BY <2>5, <4>2, <5>3
            <6>2. i \in 1 .. n
              BY <2>4, <6>1
            <6> QED
              BY <4>2, <5>3, <6>1, <6>2
          <5> QED
            BY <5>2, <5>3
        <4>5. \A k, l \in 1 .. Len(walk[n]) : walk[n][k] = walk[n][l] => k = l
          <5>1. SUFFICES ASSUME NEW k \in 1 .. Len(walk[n]), NEW l \in 1 .. Len(walk[n]),
                                walk[n][k] = walk[n][l]
                         PROVE  k = l
            OBVIOUS
          <5>2. CASE k # Len(walk[n]) /\ l # Len(walk[n])
            BY <2>5, <4>2, <5>1, <5>2
          <5>3. CASE k = Len(walk[n]) /\ l # Len(walk[n])
            BY <4>1, <4>2, <4>3, <5>1, <5>3
          <5>4. CASE k # Len(walk[n]) /\ l = Len(walk[n])
            BY <4>1, <4>2, <4>3, <5>1, <5>4
          <5> QED
            BY <5>2, <5>3, <5>4
        <4> QED
          BY <4>1, <4>4, <4>5
      <3> QED
        BY <2>2, <3>2
    <2>7. CASE list[n] \notin S
      <3>1. walk[n] = walk[n - 1]
        BY <1>1, <2>4, <2>7 DEF KeepStep
      <3>2. Good(n)
        <4>1. 1 .. (n - 1) \subseteq 1 .. n
          BY <2>4
        <4> QED
          BY <2>5, <3>1, <4>1
      <3> QED
        BY <2>2, <3>2
    <2> QED
      BY <2>6, <2>7
  <1>3. Good(Len(list))
    BY <1>2
  <1> QED
    BY <1>1, <1>3

\* What is kept of an ascending list ascends.
LEMMA FilteredAscends ==
    ASSUME NEW X, NEW list \in Seq(X), NEW S, X \subseteq Int,
           \A i, j \in 1 .. Len(list) : i < j => list[i] < list[j]
    PROVE  \A k, l \in DOMAIN Filtered(list, S) :
               k < l => Filtered(list, S)[k] < Filtered(list, S)[l]
  <1>1. PICK walk :
          /\ walk[0] = <<>>
          /\ \A i \in 1 .. Len(list) : walk[i] = KeepStep(list, S, walk[i - 1], i)
          /\ Filtered(list, S) = walk[Len(list)]
    BY FilteredWalk
  <1> DEFINE Good(n) == /\ walk[n] \in Seq(X \cap S)
                        /\ \A k \in 1 .. Len(walk[n]) : \E i \in 1 .. n : walk[n][k] = list[i]
                        /\ \A k, l \in 1 .. Len(walk[n]) : k < l => walk[n][k] < walk[n][l]
             T == {n \in Nat : n <= Len(list) /\ ~Good(n)}
  <1>2. T = {}
    <2>1. SUFFICES ASSUME T # {} PROVE FALSE
      OBVIOUS
    <2>2. PICK n \in T : \A m \in T : n <= m
      BY <2>1, LeastNumber
    <2>3. n # 0
      <3>1. Good(0)
        BY <1>1
      <3> QED
        BY <2>2, <3>1
    <2>4. n \in 1 .. Len(list) /\ n - 1 \in Nat /\ n - 1 <= Len(list) /\ ~(n <= n - 1)
      BY <2>2, <2>3
    <2>5. Good(n - 1)
      BY <2>2, <2>4
    <2>6. CASE list[n] \in S
      <3>1. list[n] \in X \cap S /\ walk[n] = Append(walk[n - 1], list[n])
        <4>1. list[n] \in X
          BY <2>4
        <4> QED
          BY <1>1, <2>4, <2>6, <4>1 DEF KeepStep
      <3>2. Good(n)
        <4>1. /\ walk[n] \in Seq(X \cap S) /\ Len(walk[n]) = Len(walk[n - 1]) + 1
              /\ walk[n][Len(walk[n])] = list[n] /\ Len(walk[n - 1]) \in Nat
              /\ \A k \in 1 .. Len(walk[n - 1]) : walk[n][k] = walk[n - 1][k]
          BY <2>5, <3>1
        <4>2. ASSUME NEW k \in 1 .. Len(walk[n]), k # Len(walk[n])
              PROVE  k \in 1 .. Len(walk[n - 1]) /\ walk[n][k] = walk[n - 1][k]
          BY <4>1, <4>2
        <4>3. ASSUME NEW k \in 1 .. Len(walk[n - 1]) PROVE walk[n - 1][k] < list[n]
          <5>1. PICK i \in 1 .. (n - 1) : walk[n - 1][k] = list[i]
            BY <2>5
          <5>2. i \in 1 .. Len(list) /\ i < n
            BY <2>4, <5>1
          <5> QED
            BY <2>4, <5>1, <5>2
        <4>4. \A k \in 1 .. Len(walk[n]) : \E i \in 1 .. n : walk[n][k] = list[i]
          <5>1. TAKE k \in 1 .. Len(walk[n])
          <5>2. CASE k = Len(walk[n])
            BY <2>4, <4>1, <5>2
          <5>3. CASE k # Len(walk[n])
            <6>1. PICK i \in 1 .. (n - 1) : walk[n - 1][k] = list[i]
              BY <2>5, <4>2, <5>3
            <6>2. i \in 1 .. n
              BY <2>4, <6>1
            <6> QED
              BY <4>2, <5>3, <6>1, <6>2
          <5> QED
            BY <5>2, <5>3
        <4>5. \A k, l \in 1 .. Len(walk[n]) : k < l => walk[n][k] < walk[n][l]
          <5>1. SUFFICES ASSUME NEW k \in 1 .. Len(walk[n]), NEW l \in 1 .. Len(walk[n]), k < l
                         PROVE  walk[n][k] < walk[n][l]
            OBVIOUS
          <5>2. k # Len(walk[n])
            BY <4>1, <5>1
          <5>3. CASE l # Len(walk[n])
            BY <2>5, <4>2, <5>1, <5>2, <5>3
          <5>4. CASE l = Len(walk[n])
            BY <4>1, <4>2, <4>3, <5>2, <5>4
          <5> QED
            BY <5>3, <5>4
        <4> QED
          BY <4>1, <4>4, <4>5
      <3> QED
        BY <2>2, <3>2
    <2>7. CASE list[n] \notin S
      <3>1. walk[n] = walk[n - 1]
        BY <1>1, <2>4, <2>7 DEF KeepStep
      <3>2. Good(n)
        <4>1. 1 .. (n - 1) \subseteq 1 .. n
          BY <2>4
        <4> QED
          BY <2>5, <3>1, <4>1
      <3> QED
        BY <2>2, <3>2
    <2> QED
      BY <2>6, <2>7
  <1>3. Good(Len(list))
    BY <1>2
  <1> QED
    <2>1. /\ Filtered(list, S) = walk[Len(list)] /\ walk[Len(list)] \in Seq(X \cap S)
          /\ \A k, l \in 1 .. Len(walk[Len(list)]) :
                k < l => walk[Len(list)][k] < walk[Len(list)][l]
      BY <1>1, <1>3
    <2>2. DOMAIN walk[Len(list)] = 1 .. Len(walk[Len(list)])
      BY <2>1
    <2> QED
      BY <2>1, <2>2

\* A filter that keeps everything changes nothing.
LEMMA FilteredSame ==
    ASSUME NEW X, NEW list \in Seq(X), NEW S, \A i \in 1 .. Len(list) : list[i] \in S
    PROVE  Filtered(list, S) = list
  <1>1. PICK walk :
          /\ walk[0] = <<>>
          /\ \A i \in 1 .. Len(list) : walk[i] = KeepStep(list, S, walk[i - 1], i)
          /\ Filtered(list, S) = walk[Len(list)]
    BY FilteredWalk
  <1> DEFINE Good(n) == /\ walk[n] \in Seq(X) /\ Len(walk[n]) = n
                        /\ \A k \in 1 .. n : walk[n][k] = list[k]
             T == {n \in Nat : n <= Len(list) /\ ~Good(n)}
  <1>2. T = {}
    <2>1. SUFFICES ASSUME T # {} PROVE FALSE
      OBVIOUS
    <2>2. PICK n \in T : \A m \in T : n <= m
      BY <2>1, LeastNumber
    <2>3. n # 0
      <3>1. Good(0)
        BY <1>1
      <3> QED
        BY <2>2, <3>1
    <2>4. n \in 1 .. Len(list) /\ n - 1 \in Nat /\ n - 1 <= Len(list) /\ ~(n <= n - 1)
      BY <2>2, <2>3
    <2>5. Good(n - 1)
      BY <2>2, <2>4
    <2>6. walk[n] = Append(walk[n - 1], list[n]) /\ list[n] \in X
      <3>1. list[n] \in S /\ list[n] \in X
        BY <2>4
      <3>2. walk[n] = KeepStep(list, S, walk[n - 1], n)
        BY <1>1, <2>4
      <3> QED
        BY <3>1, <3>2 DEF KeepStep
    <2>7. Good(n)
      <3>1. walk[n] \in Seq(X) /\ Len(walk[n]) = n /\ walk[n][n] = list[n]
        BY <2>4, <2>5, <2>6
      <3>2. \A k \in 1 .. (n - 1) : walk[n][k] = walk[n - 1][k]
        BY <2>4, <2>5, <2>6
      <3>3. \A k \in 1 .. n : k = n \/ k \in 1 .. (n - 1)
        BY <2>4
      <3> QED
        BY <2>5, <3>1, <3>2, <3>3
    <2> QED
      BY <2>2, <2>7
  <1>3. Len(list) \in Nat
    OBVIOUS
  <1>4. Good(Len(list))
    BY <1>2, <1>3
  <1>5. /\ walk[Len(list)] \in Seq(X) /\ Len(walk[Len(list)]) = Len(list)
        /\ \A k \in 1 .. Len(list) : walk[Len(list)][k] = list[k]
    BY <1>4
  <1>6. walk[Len(list)] = list
    BY <1>5
  <1> QED
    BY <1>1, <1>6

\* What Picked takes from a list: the entries at these places.
PickedAt(list, P, places) ==
    /\ places \in Seq(1 .. Len(list))
    /\ \A k \in DOMAIN places : places[k] \in P
    /\ \A i \in 1 .. Len(list) : i \in P => \E k \in DOMAIN places : places[k] = i
    /\ \A k, l \in DOMAIN places : k < l => places[k] < places[l]
    /\ DOMAIN Picked(list, P) = DOMAIN places
    /\ \A k \in DOMAIN places : Picked(list, P)[k] = list[places[k]]

\* The places that are picked, in their order, and what is at them.
LEMMA PickedPlaces ==
    ASSUME NEW X, NEW list \in Seq(X), NEW P
    PROVE  Picked(list, P) \in Seq(X) /\ \E places : PickedAt(list, P, places)
  <1> DEFINE all == [i \in 1 .. Len(list) |-> i]
             places == Filtered(all, P)
             d == [k \in DOMAIN places |-> list[places[k]]]
  <1>1. /\ all \in Seq(1 .. Len(list)) /\ Len(all) = Len(list) /\ Len(list) \in Nat
        /\ \A i \in 1 .. Len(list) : all[i] = i
    OBVIOUS
  <1>2. Picked(list, P) = d
    BY DEF Picked
  <1> HIDE DEF all
  <1>3. places \in Seq((1 .. Len(list)) \cap P)
    BY <1>1, FilteredEntries
  <1>4. \A i \in 1 .. Len(list) : i \in P => \E k \in DOMAIN places : places[k] = i
    <2>1. \A i \in 1 .. Len(all) : all[i] \in P => \E k \in DOMAIN places : places[k] = all[i]
      BY <1>1, FilteredHasAll
    <2> QED
      BY <1>1, <2>1
  <1>5. \A k, l \in DOMAIN places : k < l => places[k] < places[l]
    <2>1. /\ 1 .. Len(list) \subseteq Int
          /\ \A i, j \in 1 .. Len(all) : i < j => all[i] < all[j]
      BY <1>1
    <2> QED
      BY <1>1, <2>1, FilteredAscends
  <1> HIDE DEF places
  <1>6. /\ DOMAIN places = 1 .. Len(places) /\ Len(places) \in Nat
        /\ \A k \in DOMAIN places : places[k] \in 1 .. Len(list) /\ places[k] \in P
    BY <1>3
  <1>7. d \in Seq(X) /\ DOMAIN d = DOMAIN places /\ \A k \in DOMAIN places : d[k] = list[places[k]]
    <2>1. \A k \in 1 .. Len(places) : list[places[k]] \in X
      BY <1>6
    <2>2. d = [k \in 1 .. Len(places) |-> list[places[k]]]
      BY <1>6
    <2> QED
      BY <1>6, <2>1, <2>2
  <1>8. places \in Seq(1 .. Len(list))
    BY <1>3
  <1> HIDE DEF d
  <1>9. PickedAt(list, P, places)
    BY <1>2, <1>4, <1>5, <1>6, <1>7, <1>8 DEF PickedAt
  <1> QED
    BY <1>2, <1>7, <1>9

\* Sums over finite sets, of the values of a function.

AnyOf(s) == CHOOSE x \in s : TRUE
IsSum(w, D, sum) ==
    sum = [s \in D |-> IF s = {} THEN 0 ELSE w[AnyOf(s)] + sum[s \ {AnyOf(s)}]]
Total(w, S) == (CHOOSE sum : IsSum(w, SUBSET S, sum))[S]

\* A finite set that is not empty, less one element.
LEMMA OneLess ==
    ASSUME NEW S, IsFiniteSet(S), NEW s \in SUBSET S, NEW x \in s
    PROVE  /\ s \ {x} \in SUBSET S /\ IsFiniteSet(s) /\ IsFiniteSet(s \ {x})
           /\ Cardinality(s) \in Nat /\ Cardinality(s \ {x}) \in Nat
           /\ Cardinality(s \ {x}) = Cardinality(s) - 1
  <1>1. IsFiniteSet(s)
    BY FS_Subset
  <1>2. Cardinality(s) \in Nat
    BY <1>1, FS_CardinalityType
  <1>3. IsFiniteSet(s \ {x}) /\ Cardinality(s \ {x}) = Cardinality(s) - 1
    BY <1>1, FS_RemoveElement
  <1> QED
    BY <1>1, <1>2, <1>3, FS_CardinalityType

LEMMA AnyOfIt == ASSUME NEW s, s # {} PROVE AnyOf(s) \in s
  BY DEF AnyOf

LEMMA SumExists == ASSUME NEW w, NEW S, IsFiniteSet(S) PROVE \E sum : IsSum(w, SUBSET S, sum)
  <1> DEFINE rest(s) == s \ {AnyOf(s)}
             D(n) == {s \in SUBSET S : Cardinality(s) <= n}
             T == {n \in Nat : ~\E f : IsSum(w, D(n), f)}
  <1>1. ASSUME NEW n \in Nat, NEW s \in D(n), s # {}
        PROVE  rest(s) \in D(n) /\ n # 0 /\ rest(s) \in D(n - 1)
    <2>1. Cardinality(rest(s)) = Cardinality(s) - 1 /\ Cardinality(s) \in Nat /\ rest(s) \in SUBSET S
          /\ Cardinality(rest(s)) \in Nat
      BY <1>1, OneLess, AnyOfIt
    <2> HIDE DEF rest
    <2> QED
      BY <1>1, <2>1
  <1>2. T = {}
    <2>1. SUFFICES ASSUME T # {} PROVE FALSE
      OBVIOUS
    <2>2. PICK n \in T : \A m \in T : n <= m
      <3>1. T \in SUBSET Nat
        OBVIOUS
      <3> HIDE DEF T
      <3> QED
        BY <2>1, <3>1, LeastNumber
    <2>3. n # 0
      <3>1. \A s \in D(0) : s = {}
        BY <1>1
      <3> DEFINE g == [s \in D(0) |-> 0]
      <3>2. IsSum(w, D(0), g)
        <4> HIDE DEF D
        <4> QED
          BY <3>1 DEF IsSum
      <3> QED
        BY <2>2, <3>2
    <2>4. PICK f : IsSum(w, D(n - 1), f)
      <3>1. n \in Nat
        OBVIOUS
      <3>2. n - 1 \in Nat /\ n - 1 \notin T
        <4> HIDE DEF T
        <4> QED
          BY <2>2, <2>3, <3>1
      <3> HIDE DEF D
      <3> QED
        BY <3>2
    <2> DEFINE g == [s \in D(n) |-> IF s \in D(n - 1) THEN f[s]
                                    ELSE IF s = {} THEN 0 ELSE w[AnyOf(s)] + f[rest(s)]]
    <2>5. ASSUME NEW s \in D(n)
          PROVE  g[s] = IF s = {} THEN 0 ELSE w[AnyOf(s)] + g[rest(s)]
      <3>1. s # {} => rest(s) \in D(n) /\ rest(s) \in D(n - 1)
        BY <1>1, <2>2
      <3>2. s # {} => g[rest(s)] = f[rest(s)]
        <4> HIDE DEF D, rest
        <4> QED
          BY <3>1
      <3>3. s \in D(n - 1) => f[s] = IF s = {} THEN 0 ELSE w[AnyOf(s)] + f[rest(s)]
        <4> HIDE DEF D
        <4> QED
          BY <2>4 DEF IsSum
      <3>4. g[s] = IF s \in D(n - 1) THEN f[s]
                   ELSE IF s = {} THEN 0 ELSE w[AnyOf(s)] + f[rest(s)]
        <4> HIDE DEF D, rest
        <4> QED
          BY <2>5
      <3> HIDE DEF g, D, rest
      <3> QED
        BY <3>2, <3>3, <3>4
    <2>6. g = [s \in D(n) |-> g[s]]
      <3> HIDE DEF D, rest
      <3> QED
        OBVIOUS
    <2>7. IsSum(w, D(n), g)
      <3> HIDE DEF g, D
      <3> QED
        BY <2>5, <2>6 DEF IsSum
    <2> QED
      BY <2>2, <2>7
  <1>3. Cardinality(S) \in Nat /\ \A s \in SUBSET S : Cardinality(s) <= Cardinality(S)
    BY FS_CardinalityType, FS_Subset
  <1>4. D(Cardinality(S)) = SUBSET S
    BY <1>3
  <1>5. \E f : IsSum(w, D(Cardinality(S)), f)
    <2> HIDE DEF D
    <2> QED
      BY <1>2, <1>3
  <1> QED
    BY <1>4, <1>5

\* The walk over a set goes as it goes over a larger one, when the values are the same.
LEMMA SumsAgree ==
    ASSUME NEW w, NEW v, NEW S, IsFiniteSet(S), NEW R, IsFiniteSet(R),
           NEW f, NEW g, NEW Q \in SUBSET (S \cap R), IsSum(w, SUBSET S, f), IsSum(v, SUBSET R, g),
           \A x \in Q : w[x] = v[x]
    PROVE  f[Q] = g[Q]
  <1> DEFINE T == {n \in Nat : \E s \in SUBSET Q : Cardinality(s) = n /\ f[s] # g[s]}
  <1>1. \A s \in SUBSET Q : /\ f[s] = IF s = {} THEN 0 ELSE w[AnyOf(s)] + f[s \ {AnyOf(s)}]
                            /\ g[s] = IF s = {} THEN 0 ELSE v[AnyOf(s)] + g[s \ {AnyOf(s)}]
    <2>1. ASSUME NEW s \in SUBSET Q PROVE s \in SUBSET S /\ s \in SUBSET R
      OBVIOUS
    <2> QED
      BY <2>1 DEF IsSum
  <1>2. IsFiniteSet(Q)
    BY FS_Subset
  <1>3. T = {}
    <2>1. SUFFICES ASSUME T # {} PROVE FALSE
      OBVIOUS
    <2>2. PICK n \in T : \A m \in T : n <= m
      <3>1. T \in SUBSET Nat
        OBVIOUS
      <3> HIDE DEF T
      <3> QED
        BY <2>1, <3>1, LeastNumber
    <2>3. PICK s \in SUBSET Q : Cardinality(s) = n /\ f[s] # g[s]
      BY <2>2
    <2>4. s # {}
      BY <1>1, <2>3
    <2> DEFINE x == AnyOf(s)
               r == s \ {x}
    <2>5. x \in s /\ r \in SUBSET Q /\ Cardinality(r) \in Nat /\ Cardinality(r) = n - 1 /\ n \in Nat
      BY <1>2, <2>3, <2>4, OneLess, AnyOfIt
    <2>6. w[x] = v[x] /\ f[s] = w[x] + f[r] /\ g[s] = v[x] + g[r]
      BY <1>1, <2>4, <2>5
    <2>7. f[r] = g[r]
      <3> HIDE DEF r
      <3> QED
        BY <2>2, <2>5
    <2> QED
      BY <2>3, <2>6, <2>7
  <1>4. Cardinality(Q) \in Nat
    BY <1>2, FS_CardinalityType
  <1> QED
    BY <1>3, <1>4

LEMMA TotalIsASum ==
    ASSUME NEW w, NEW S, NEW f, NEW s \in SUBSET S, IsFiniteSet(S), IsSum(w, SUBSET S, f)
    PROVE  f[s] = Total(w, s)
  <1> DEFINE g == CHOOSE sum : IsSum(w, SUBSET s, sum)
  <1>1. IsFiniteSet(s)
    BY FS_Subset
  <1>2. IsSum(w, SUBSET s, g)
    BY <1>1, SumExists
  <1>3. Total(w, s) = g[s]
    BY DEF Total
  <1> HIDE DEF g
  <1>4. s \in SUBSET (S \cap s) /\ \A x \in s : w[x] = w[x]
    OBVIOUS
  <1>5. f[s] = g[s]
    BY <1>1, <1>2, <1>4, SumsAgree
  <1> QED
    BY <1>3, <1>5

LEMMA TotalOfSame ==
    ASSUME NEW w, NEW v, NEW S, IsFiniteSet(S), \A x \in S : w[x] = v[x]
    PROVE  Total(w, S) = Total(v, S)
  <1>1. PICK f : IsSum(w, SUBSET S, f)
    BY SumExists
  <1>2. PICK g : IsSum(v, SUBSET S, g)
    BY SumExists
  <1>3. S \in SUBSET (S \cap S) /\ S \in SUBSET S
    OBVIOUS
  <1>4. f[S] = g[S]
    BY <1>1, <1>2, <1>3, SumsAgree
  <1>5. f[S] = Total(w, S)
    BY <1>1, <1>3, TotalIsASum
  <1>6. g[S] = Total(v, S)
    BY <1>2, <1>3, TotalIsASum
  <1> QED
    BY <1>4, <1>5, <1>6

LEMMA TotalUnfolds ==
    ASSUME NEW w, NEW S, IsFiniteSet(S)
    PROVE  /\ Total(w, {}) = 0
           /\ S # {} => Total(w, S) = w[AnyOf(S)] + Total(w, S \ {AnyOf(S)})
  <1>1. PICK f : IsSum(w, SUBSET S, f)
    BY SumExists
  <1>2. /\ f[{}] = 0
        /\ S # {} => f[S] = w[AnyOf(S)] + f[S \ {AnyOf(S)}]
    BY <1>1 DEF IsSum
  <1>3. \A s \in SUBSET S : f[s] = Total(w, s)
    BY <1>1, TotalIsASum
  <1> QED
    BY <1>2, <1>3

LEMMA TotalType ==
    ASSUME NEW S, IsFiniteSet(S), NEW w, \A x \in S : w[x] \in Int
    PROVE  Total(w, S) \in Int
  <1> DEFINE T == {n \in Nat : \E s \in SUBSET S : Cardinality(s) = n /\ Total(w, s) \notin Int}
  <1>1. T = {}
    <2>1. SUFFICES ASSUME T # {} PROVE FALSE
      OBVIOUS
    <2>2. PICK n \in T : \A m \in T : n <= m
      <3>1. T \in SUBSET Nat
        OBVIOUS
      <3> HIDE DEF T
      <3> QED
        BY <2>1, <3>1, LeastNumber
    <2>3. PICK s \in SUBSET S : Cardinality(s) = n /\ Total(w, s) \notin Int
      BY <2>2
    <2>4. IsFiniteSet(s)
      BY FS_Subset
    <2>5. s # {}
      <3>1. Total(w, {}) = 0
        BY <2>4, TotalUnfolds
      <3> QED
        BY <2>3, <3>1
    <2> DEFINE x == AnyOf(s)
               r == s \ {x}
    <2>6. x \in s /\ r \in SUBSET S /\ Cardinality(r) \in Nat /\ Cardinality(r) = n - 1 /\ n \in Nat
      BY <2>3, <2>5, OneLess, AnyOfIt
    <2>7. Total(w, s) = w[x] + Total(w, r) /\ w[x] \in Int
      BY <2>4, <2>5, <2>6, TotalUnfolds
    <2>8. Total(w, r) \in Int
      <3> HIDE DEF r
      <3> QED
        BY <2>2, <2>6
    <2> HIDE DEF x, r
    <2> QED
      BY <2>3, <2>7, <2>8
  <1>2. Cardinality(S) \in Nat
    BY FS_CardinalityType
  <1> QED
    BY <1>1, <1>2

\* The order in which a sum is made does not matter.
LEMMA TotalAny ==
    ASSUME NEW S, IsFiniteSet(S), NEW w, \A x \in S : w[x] \in Int, NEW x \in S
    PROVE  Total(w, S) = w[x] + Total(w, S \ {x})
  <1> DEFINE Good(s, y) == Total(w, s) = w[y] + Total(w, s \ {y})
             T == {n \in Nat : \E s \in SUBSET S : Cardinality(s) = n /\ \E y \in s : ~Good(s, y)}
  <1>1. T = {}
    <2>1. SUFFICES ASSUME T # {} PROVE FALSE
      OBVIOUS
    <2>2. PICK n \in T : \A m \in T : n <= m
      <3>1. T \in SUBSET Nat
        OBVIOUS
      <3> HIDE DEF T
      <3> QED
        BY <2>1, <3>1, LeastNumber
    <2>3. PICK s \in SUBSET S : Cardinality(s) = n /\ \E y \in s : ~Good(s, y)
      BY <2>2
    <2>31. PICK y \in s : ~Good(s, y)
      BY <2>3
    <2>4. IsFiniteSet(s) /\ s # {}
      BY <2>3, FS_Subset
    <2> DEFINE z == AnyOf(s)
    <2>5. z \in s
      BY <2>4, AnyOfIt
    <2>6. Total(w, s) = w[z] + Total(w, s \ {z})
      BY <2>4, TotalUnfolds
    <2> HIDE DEF z
    <2>7. CASE y = z
      BY <2>31, <2>6, <2>7
    <2>8. CASE y # z
      <3> DEFINE r == s \ {z}
                 q == s \ {y}
                 both == r \ {y}
      <3>1. y \in r /\ z \in q /\ both = q \ {z}
        BY <2>3, <2>5, <2>8
      <3>2. Cardinality(r) \in Nat /\ Cardinality(r) = n - 1 /\ r \in SUBSET S /\ n \in Nat
        BY <2>3, <2>5, OneLess
      <3>3. Cardinality(q) \in Nat /\ Cardinality(q) = n - 1 /\ q \in SUBSET S
        BY <2>3, OneLess
      <3>4. ~(n <= n - 1) /\ n - 1 \in Nat
        BY <3>2
      <3>5. Good(r, y)
        <4> HIDE DEF r, Good
        <4> QED
          BY <2>2, <3>1, <3>2, <3>4
      <3>6. Good(q, z)
        <4> HIDE DEF q, Good
        <4> QED
          BY <2>2, <3>1, <3>3, <3>4
      <3>7. Total(w, both) \in Int /\ w[y] \in Int /\ w[z] \in Int
        <4>1. both \in SUBSET S /\ IsFiniteSet(both)
          BY FS_Subset
        <4>2. \A u \in both : w[u] \in Int
          BY <4>1
        <4> HIDE DEF both
        <4> QED
          BY <4>1, <4>2, TotalType, <2>3, <2>5
      <3>8. Total(w, r) = w[y] + Total(w, both)
        BY <3>5
      <3>9. Total(w, q) = w[z] + Total(w, both)
        BY <3>6, <3>1
      <3>10. Total(w, s) = w[z] + Total(w, r)
        BY <2>6
      <3> HIDE DEF both, r
      <3>11. Total(w, s) = w[y] + Total(w, q)
        BY <3>7, <3>8, <3>9, <3>10
      <3> QED
        BY <2>31, <3>11
    <2> QED
      BY <2>7, <2>8
  <1>2. Cardinality(S) \in Nat /\ S \in SUBSET S
    BY FS_CardinalityType
  <1> QED
    BY <1>1, <1>2

LEMMA TotalUnion ==
    ASSUME NEW A, NEW B, IsFiniteSet(A), IsFiniteSet(B), A \cap B = {},
           NEW w, \A x \in A \union B : w[x] \in Int
    PROVE  Total(w, A \union B) = Total(w, A) + Total(w, B)
  <1> DEFINE Good(b) == Total(w, A \union b) = Total(w, A) + Total(w, b)
             T == {n \in Nat : \E b \in SUBSET B : Cardinality(b) = n /\ ~Good(b)}
  <1>1. T = {}
    <2>1. SUFFICES ASSUME T # {} PROVE FALSE
      OBVIOUS
    <2>2. PICK n \in T : \A m \in T : n <= m
      <3>1. T \in SUBSET Nat
        OBVIOUS
      <3> HIDE DEF T
      <3> QED
        BY <2>1, <3>1, LeastNumber
    <2>3. PICK b \in SUBSET B : Cardinality(b) = n /\ ~Good(b)
      BY <2>2
    <2>4. Total(w, A) \in Int
      BY TotalType
    <2>5. b # {}
      <3>1. Total(w, {}) = 0 /\ A \union {} = A
        BY TotalUnfolds
      <3>2. Good({})
        BY <2>4, <3>1
      <3> HIDE DEF Good
      <3> QED
        BY <2>3, <3>2
    <2>6. PICK y : y \in b
      BY <2>5
    <2> DEFINE r == b \ {y}
    <2>7. Cardinality(r) \in Nat /\ Cardinality(r) = n - 1 /\ r \in SUBSET B /\ n \in Nat /\ IsFiniteSet(b)
      BY <2>3, <2>6, OneLess
    <2>8. Good(r)
      <3> HIDE DEF r, Good
      <3> QED
        BY <2>2, <2>7
    <2>9. IsFiniteSet(A \union b) /\ y \in A \union b /\ (A \union b) \ {y} = A \union r
      BY <2>6, <2>7, FS_Union
    <2>10. Total(w, A \union b) = w[y] + Total(w, A \union r)
      <3>1. \A x \in A \union b : w[x] \in Int
        OBVIOUS
      <3>2. Total(w, A \union b) = w[y] + Total(w, (A \union b) \ {y})
        BY <2>9, <3>1, TotalAny
      <3> QED
        BY <2>9, <3>2
    <2>11. Total(w, b) = w[y] + Total(w, r)
      <3>1. \A x \in b : w[x] \in Int
        OBVIOUS
      <3> QED
        BY <2>6, <2>7, <3>1, TotalAny
    <2>12. Total(w, r) \in Int /\ w[y] \in Int
      <3>1. IsFiniteSet(r) /\ \A x \in r : w[x] \in Int
        BY <2>7, FS_Subset
      <3> HIDE DEF r
      <3> QED
        BY <2>6, <3>1, TotalType
    <2>13. Total(w, A \union r) = Total(w, A) + Total(w, r)
      BY <2>8
    <2> HIDE DEF r
    <2>14. Total(w, A \union b) = Total(w, A) + Total(w, b)
      BY <2>4, <2>10, <2>11, <2>12, <2>13
    <2> QED
      BY <2>3, <2>14
  <1>2. Cardinality(B) \in Nat /\ B \in SUBSET B
    BY FS_CardinalityType
  <1> QED
    BY <1>1, <1>2

LEMMA TotalOfZeros ==
    ASSUME NEW S, NEW w, IsFiniteSet(S), \A x \in S : w[x] = 0
    PROVE  Total(w, S) = 0
  <1> DEFINE T == {n \in Nat : \E s \in SUBSET S : Cardinality(s) = n /\ Total(w, s) # 0}
  <1>1. T = {}
    <2>1. SUFFICES ASSUME T # {} PROVE FALSE
      OBVIOUS
    <2>2. PICK n \in T : \A m \in T : n <= m
      <3>1. T \in SUBSET Nat
        OBVIOUS
      <3> HIDE DEF T
      <3> QED
        BY <2>1, <3>1, LeastNumber
    <2>3. PICK s \in SUBSET S : Cardinality(s) = n /\ Total(w, s) # 0
      BY <2>2
    <2>4. IsFiniteSet(s)
      BY FS_Subset
    <2>5. s # {}
      <3>1. Total(w, {}) = 0
        BY <2>4, TotalUnfolds
      <3> QED
        BY <2>3, <3>1
    <2> DEFINE x == AnyOf(s)
               r == s \ {x}
    <2>6. x \in s /\ r \in SUBSET S /\ Cardinality(r) \in Nat /\ Cardinality(r) = n - 1 /\ n \in Nat
      BY <2>3, <2>5, OneLess, AnyOfIt
    <2>7. Total(w, s) = w[x] + Total(w, r) /\ w[x] = 0
      BY <2>4, <2>5, <2>6, TotalUnfolds
    <2>8. Total(w, r) = 0
      <3> HIDE DEF r
      <3> QED
        BY <2>2, <2>6
    <2> HIDE DEF x, r
    <2> QED
      BY <2>3, <2>7, <2>8
  <1>2. Cardinality(S) \in Nat
    BY FS_CardinalityType
  <1> QED
    BY <1>1, <1>2

\* The sum follows the change of one value.
LEMMA TotalChange ==
    ASSUME NEW S, IsFiniteSet(S), NEW x \in S, NEW w, NEW v,
           \A y \in S : w[y] \in Int, \A y \in S : v[y] \in Int,
           \A y \in S \ {x} : w[y] = v[y]
    PROVE  Total(v, S) = Total(w, S) + (v[x] - w[x])
  <1>1. Total(w, S) = w[x] + Total(w, S \ {x})
    BY TotalAny
  <1>2. Total(v, S) = v[x] + Total(v, S \ {x})
    BY TotalAny
  <1>3. IsFiniteSet(S \ {x})
    BY FS_Subset
  <1>4. Total(w, S \ {x}) = Total(v, S \ {x})
    BY <1>3, TotalOfSame
  <1>5. Total(w, S \ {x}) \in Int
    BY <1>3, TotalType
  <1> QED
    BY <1>1, <1>2, <1>4, <1>5

\* The image of a finite set under a function.
LEMMA ImageFinite ==
    ASSUME NEW S, NEW f, IsFiniteSet(S)
    PROVE  IsFiniteSet({f[x] : x \in S})
  <1> DEFINE T == {f[x] : x \in S}
             g == [x \in S |-> f[x]]
  <1>1. g \in [S -> T]
    OBVIOUS
  <1>2. \A y \in T : \E x \in S : g[x] = y
    OBVIOUS
  <1>3. g \in Surjection(S, T)
    <2> HIDE DEF g, T
    <2> QED
      BY <1>1, <1>2 DEF Surjection
  <1> HIDE DEF g, T
  <1>4. IsFiniteSet(T)
    BY <1>3, FS_Surjection
  <1> QED
    BY <1>4 DEF T

\* A sum over the image of an injective function is the sum over its arguments.
LEMMA TotalImage ==
    ASSUME NEW S, NEW f, NEW v, NEW w, IsFiniteSet(S),
           \A x \in S : v[x] = w[f[x]], \A x \in S : v[x] \in Int,
           \A x, y \in S : f[x] = f[y] => x = y
    PROVE  Total(v, S) = Total(w, {f[x] : x \in S})
  <1> DEFINE image(s) == {f[x] : x \in s}
             Good(s) == Total(v, s) = Total(w, image(s))
             T == {n \in Nat : \E s \in SUBSET S : Cardinality(s) = n /\ ~Good(s)}
  <1>1. T = {}
    <2>1. SUFFICES ASSUME T # {} PROVE FALSE
      OBVIOUS
    <2>2. PICK n \in T : \A m \in T : n <= m
      <3>1. T \in SUBSET Nat
        OBVIOUS
      <3> HIDE DEF T
      <3> QED
        BY <2>1, <3>1, LeastNumber
    <2>3. PICK s \in SUBSET S : Cardinality(s) = n /\ ~Good(s)
      BY <2>2
    <2>4. s # {}
      <3>1. IsFiniteSet({}) /\ image({}) = {}
        BY FS_EmptySet
      <3>2. Total(v, {}) = 0 /\ Total(w, {}) = 0
        BY <3>1, TotalUnfolds
      <3>3. Good({})
        BY <3>1, <3>2
      <3> HIDE DEF Good
      <3> QED
        BY <2>3, <3>3
    <2>5. PICK y : y \in s
      BY <2>4
    <2> DEFINE r == s \ {y}
    <2>6. Cardinality(r) \in Nat /\ Cardinality(r) = n - 1 /\ r \in SUBSET S /\ n \in Nat
          /\ IsFiniteSet(s) /\ IsFiniteSet(r)
      BY <2>3, <2>5, OneLess
    <2>7. Good(r)
      <3> HIDE DEF r, Good
      <3> QED
        BY <2>2, <2>6
    <2>8. IsFiniteSet(image(s)) /\ f[y] \in image(s) /\ image(s) \ {f[y]} = image(r)
      <3>1. IsFiniteSet(image(s))
        BY <2>6, ImageFinite
      <3> QED
        BY <2>3, <2>5, <3>1
    <2>9. Total(w, image(s)) = w[f[y]] + Total(w, image(r))
      <3>1. \A z \in image(s) : w[z] \in Int
        BY <2>3
      <3> HIDE DEF image
      <3>2. Total(w, image(s)) = w[f[y]] + Total(w, image(s) \ {f[y]})
        BY <2>8, <3>1, TotalAny
      <3> QED
        BY <2>8, <3>2
    <2>10. Total(v, s) = v[y] + Total(v, r)
      <3>1. \A x \in s : v[x] \in Int
        BY <2>3
      <3> QED
        BY <2>5, <2>6, <3>1, TotalAny
    <2>11. v[y] = w[f[y]]
      BY <2>3, <2>5
    <2> HIDE DEF r, image
    <2> QED
      BY <2>3, <2>7, <2>9, <2>10, <2>11
  <1>2. Cardinality(S) \in Nat /\ S \in SUBSET S
    BY FS_CardinalityType
  <1>3. Good(S)
    <2> HIDE DEF Good
    <2> QED
      BY <1>1, <1>2
  <1> QED
    BY <1>3
=============================================================================
