---------------------------- MODULE TallyProofs -----------------------------
(***************************************************************************)
(* What the proofs about limits and ledgers need of finite sets and sums:  *)
(* a sum changes by what one of its numbers changes, moves with its        *)
(* numbers to other keys, and is no more than two sums that cover it.      *)
(***************************************************************************)
EXTENDS Tally, FiniteSetTheorems, FunctionTheorems, WellFoundedInduction, TLAPS

\* One element more, or one fewer.
LEMMA OneMore ==
  ASSUME NEW S, IsFiniteSet(S), NEW r
  PROVE  /\ r \notin S => Cardinality(S \cup {r}) = Cardinality(S) + 1
         /\ r \in S => Cardinality(S \ {r}) = Cardinality(S) - 1 /\ Cardinality(S) > 0
  <1>1. r \notin S => Cardinality(S \cup {r}) = Cardinality(S) + 1 BY FS_AddElement
  <1>2. ASSUME r \in S PROVE Cardinality(S \ {r}) = Cardinality(S) - 1 /\ Cardinality(S) > 0
    <2>1. Cardinality(S \ {r}) = Cardinality(S) - 1 /\ IsFiniteSet(S \ {r})
      BY <1>2, FS_RemoveElement
    <2>2. Cardinality(S) \in Nat /\ Cardinality(S \ {r}) \in Nat
      BY <2>1, FS_CardinalityType
    <2> QED BY <2>1, <2>2
  <1> QED BY <1>1, <1>2

LEMMA IntervalSize ==
  ASSUME NEW n \in Nat
  PROVE  /\ IsFiniteSet(1..n) /\ Cardinality(1..n) = n
         /\ IsFiniteSet(0..(n - 1)) /\ Cardinality(0..(n - 1)) = n
  <1>1. 0 \in Int /\ 1 \in Int /\ n \in Int /\ n - 1 \in Int OBVIOUS
  <1>2. IsFiniteSet(1..n) /\ Cardinality(1..n) = IF 1 > n THEN 0 ELSE n - 1 + 1
    BY <1>1, FS_Interval, Zenon
  <1>3. /\ IsFiniteSet(0..(n - 1))
        /\ Cardinality(0..(n - 1)) = IF 0 > n - 1 THEN 0 ELSE (n - 1) - 0 + 1
    BY <1>1, FS_Interval, Zenon
  <1> QED BY <1>2, <1>3

\* A set of numbers has a least one.
LEMMA LeastNumber ==
  ASSUME NEW T, T \subseteq Nat, T # {}
  PROVE  \E x \in T : \A y \in T : x <= y
  <1>1. PICK x \in T : \A y \in T : ~(<<y, x>> \in OpToRel(<, Nat))
    BY WFMin, NatLessThanWellFounded
  <1>2. \A y \in T : ~(y < x) BY <1>1 DEF OpToRel
  <1> QED BY <1>2

\* A bounded one has a greatest.
LEMMA GreatestNumber ==
  ASSUME NEW n \in Nat, NEW T, T \subseteq 0..n, T # {}
  PROVE  \E x \in T : \A y \in T : x >= y
  <1> DEFINE U == {n - x : x \in T}
  <1>1. U \subseteq Nat /\ U # {}
    <2>1. ASSUME NEW x \in T PROVE n - x \in Nat
      <3>1. x \in 0..n OBVIOUS
      <3> QED BY <3>1
    <2> QED BY <2>1
  <1>2. PICK u \in U : \A v \in U : u <= v BY <1>1, LeastNumber
  <1>3. PICK x \in T : u = n - x OBVIOUS
  <1>4. ASSUME NEW y \in T PROVE x >= y
    <2>1. n - y \in U /\ y \in Int /\ x \in Int OBVIOUS
    <2> QED BY <1>2, <1>3, <2>1
  <1> QED BY <1>4

----------------------------------------------------------------------------
(* Sums *)

LEMMA RowsOf ==
  ASSUME NEW f, NEW keys
  PROVE  \A p : p \in Rows(f, keys)
           <=> \E k \in keys : \E n \in 1..f[k] : p = <<k, n>>
  BY DEF Rows

LEMMA TallyType ==
  ASSUME NEW keys, IsFiniteSet(keys), NEW f, \A k \in keys : f[k] \in Nat
  PROVE  IsFiniteSet(Rows(f, keys)) /\ Tally(f, keys) \in Nat
  <1> DEFINE block == [k \in keys |-> {k} \X (1..f[k])]
             Blocks == {{k} \X (1..f[k]) : k \in keys}
  <1>1. block \in Surjection(keys, Blocks)
    <2>1. block \in [keys -> Blocks] OBVIOUS
    <2>2. \A b \in Blocks : \E k \in keys : block[k] = b OBVIOUS
    <2> QED BY <2>1, <2>2 DEF Surjection
  <1>2. IsFiniteSet(Blocks)
    <2> HIDE DEF block, Blocks
    <2> QED BY <1>1, FS_Surjection
  <1>3. ASSUME NEW k \in keys PROVE IsFiniteSet({k} \X (1..f[k]))
    <2>1. IsFiniteSet({k}) /\ IsFiniteSet(1..f[k]) BY <1>3, FS_Singleton, IntervalSize
    <2> QED BY <2>1, FS_Product
  <1>4. \A b \in Blocks : IsFiniteSet(b) BY <1>3
  <1>5. IsFiniteSet(UNION Blocks)
    <2> HIDE DEF Blocks
    <2> QED BY <1>2, <1>4, FS_UNION
  <1>6. IsFiniteSet(Rows(f, keys)) BY <1>5 DEF Rows
  <1> QED BY <1>6, FS_CardinalityType DEF Tally

\* The same numbers, the same sum.
LEMMA TallySame ==
  ASSUME NEW keys, NEW f, NEW g, \A k \in keys : f[k] = g[k]
  PROVE  Tally(f, keys) = Tally(g, keys)
  <1>1. Rows(f, keys) = Rows(g, keys) BY DEF Rows
  <1> QED BY <1>1 DEF Tally

\* A number apart from the others.
LEMMA TallyApart ==
  ASSUME NEW keys, IsFiniteSet(keys), NEW f, \A k \in keys : f[k] \in Nat, NEW key \in keys
  PROVE  /\ Tally(f, keys) = Tally(f, keys \ {key}) + f[key]
         /\ Tally(f, keys \ {key}) \in Nat
  <1> DEFINE A == Rows(f, keys \ {key})
             B == {key} \X (1..f[key])
  <1>1. Rows(f, keys) = A \cup B BY DEF Rows
  <1>2. A \cap B = {} BY DEF Rows
  <1>3. IsFiniteSet(keys \ {key}) BY FS_Difference
  <1>4. IsFiniteSet(A) /\ Tally(f, keys \ {key}) \in Nat BY <1>3, TallyType
  <1>5. IsFiniteSet(B) /\ Cardinality(B) = f[key]
    <2>1. IsFiniteSet({key}) /\ Cardinality({key}) = 1 BY FS_Singleton
    <2>2. IsFiniteSet(1..f[key]) /\ Cardinality(1..f[key]) = f[key] BY IntervalSize
    <2>3. IsFiniteSet(B) /\ Cardinality(B) = 1 * f[key] BY <2>1, <2>2, FS_Product
    <2>4. 1 * f[key] = f[key] OBVIOUS
    <2> QED BY <2>3, <2>4
  <1>6. Cardinality(A) = Tally(f, keys \ {key}) BY DEF Tally
  <1> HIDE DEF A, B
  <1>7. Cardinality(A \cup B) = Cardinality(A) + Cardinality(B) - Cardinality(A \cap B)
    BY <1>4, <1>5, FS_Union
  <1>8. Cardinality(A \cap B) = 0 BY <1>2, FS_EmptySet
  <1> QED BY <1>1, <1>4, <1>5, <1>6, <1>7, <1>8 DEF Tally

\* One number changes.
LEMMA TallyChange ==
  ASSUME NEW keys, IsFiniteSet(keys), NEW f, \A k \in keys : f[k] \in Nat,
         NEW g, \A k \in keys : g[k] \in Nat,
         NEW key \in keys, \A k \in keys \ {key} : g[k] = f[k]
  PROVE  /\ Tally(g, keys) = Tally(f, keys) - f[key] + g[key]
         /\ f[key] <= Tally(f, keys)
  <1>1. Tally(g, keys \ {key}) = Tally(f, keys \ {key}) BY TallySame
  <1>2. /\ Tally(f, keys) = Tally(f, keys \ {key}) + f[key]
        /\ Tally(f, keys \ {key}) \in Nat
    BY TallyApart
  <1>3. Tally(g, keys) = Tally(g, keys \ {key}) + g[key] BY TallyApart
  <1> QED BY <1>1, <1>2, <1>3

\* The numbers go to other keys, no two to the same one, and grow no smaller.
LEMMA TallyMove ==
  ASSUME NEW from, NEW f, \A k \in from : f[k] \in Nat,
         NEW into, IsFiniteSet(into), NEW g, \A k \in into : g[k] \in Nat,
         NEW m, \A k \in from : f[k] > 0 => m[k] \in into /\ f[k] <= g[m[k]],
         \A k, l \in from : f[k] > 0 /\ f[l] > 0 /\ m[k] = m[l] => k = l
  PROVE  Tally(f, from) <= Tally(g, into)
  <1> DEFINE go == [p \in Rows(f, from) |-> <<m[p[1]], p[2]>>]
  <1>1. ASSUME NEW p \in Rows(f, from)
        PROVE  /\ p = <<p[1], p[2]>> /\ p[1] \in from /\ f[p[1]] > 0 /\ p[2] \in 1..f[p[1]]
    BY RowsOf
  <1>2. go \in [Rows(f, from) -> Rows(g, into)]
    <2> SUFFICES ASSUME NEW p \in Rows(f, from) PROVE <<m[p[1]], p[2]>> \in Rows(g, into)
      OBVIOUS
    <2>1. m[p[1]] \in into /\ p[2] \in 1..g[m[p[1]]] BY <1>1
    <2> QED BY <2>1, RowsOf
  <1>3. \A p, r \in Rows(f, from) : go[p] = go[r] => p = r
    <2> SUFFICES ASSUME NEW p \in Rows(f, from), NEW r \in Rows(f, from), go[p] = go[r]
                 PROVE  p = r
      OBVIOUS
    <2>1. m[p[1]] = m[r[1]] /\ p[2] = r[2] OBVIOUS
    <2>2. p[1] = r[1] BY <1>1, <2>1
    <2> QED BY <1>1, <2>1, <2>2
  <1>4. go \in Injection(Rows(f, from), Rows(g, into))
    <2> HIDE DEF go
    <2> QED BY <1>2, <1>3 DEF Injection, IsInjective
  <1>5. IsFiniteSet(Rows(g, into)) BY TallyType
  <1> HIDE DEF go
  <1>6. Cardinality(Rows(f, from)) <= Cardinality(Rows(g, into)) BY <1>4, <1>5, FS_Injection
  <1> QED BY <1>6 DEF Tally

\* Numbers that are no larger.
LEMMA TallyLeq ==
  ASSUME NEW keys, IsFiniteSet(keys), NEW f, \A k \in keys : f[k] \in Nat,
         NEW g, \A k \in keys : g[k] \in Nat, \A k \in keys : f[k] <= g[k]
  PROVE  Tally(f, keys) <= Tally(g, keys)
  <1> DEFINE m == [k \in keys |-> k]
  <1>1. \A k \in keys : m[k] = k OBVIOUS
  <1> HIDE DEF m
  <1> QED BY <1>1, TallyMove

\* Numbers that two others cover.
LEMMA TallySum ==
  ASSUME NEW keys, IsFiniteSet(keys), NEW f, \A k \in keys : f[k] \in Nat,
         NEW g, \A k \in keys : g[k] \in Nat, NEW h, \A k \in keys : h[k] \in Nat,
         \A k \in keys : h[k] <= f[k] + g[k]
  PROVE  Tally(h, keys) <= Tally(f, keys) + Tally(g, keys)
  <1> DEFINE Rest == Rows(h, keys) \ Rows(f, keys)
             back == [p \in Rest |-> <<p[1], p[2] - f[p[1]]>>]
  <1>1. ASSUME NEW p \in Rest
        PROVE  /\ p = <<p[1], p[2]>> /\ p[1] \in keys /\ f[p[1]] \in Nat /\ p[2] \in Nat
               /\ p[2] - f[p[1]] \in 1..g[p[1]]
    <2>1. PICK k \in keys : \E n \in 1..h[k] : p = <<k, n>> BY RowsOf
    <2>2. PICK n \in 1..h[k] : p = <<k, n>> BY <2>1
    <2>3. n \notin 1..f[k] BY <2>2, RowsOf
    <2> QED BY <2>2, <2>3
  <1>2. back \in [Rest -> Rows(g, keys)]
    <2> SUFFICES ASSUME NEW p \in Rest PROVE <<p[1], p[2] - f[p[1]]>> \in Rows(g, keys)
      OBVIOUS
    <2> QED BY <1>1, RowsOf
  <1>3. \A p, r \in Rest : back[p] = back[r] => p = r
    <2> SUFFICES ASSUME NEW p \in Rest, NEW r \in Rest, back[p] = back[r] PROVE p = r
      OBVIOUS
    <2>1. p[1] = r[1] /\ p[2] - f[p[1]] = r[2] - f[r[1]] OBVIOUS
    <2>2. p[2] = r[2] BY <1>1, <2>1
    <2> QED BY <1>1, <2>1, <2>2
  <1>4. IsFiniteSet(Rows(f, keys)) /\ IsFiniteSet(Rows(g, keys)) /\ IsFiniteSet(Rows(h, keys))
        /\ Tally(f, keys) \in Nat /\ Tally(g, keys) \in Nat /\ Tally(h, keys) \in Nat
    BY TallyType
  <1>5. Rows(h, keys) \in SUBSET (Rows(f, keys) \cup Rest) OBVIOUS
  <1>6. IsFiniteSet(Rest) BY <1>4, FS_Difference
  <1>7. back \in Injection(Rest, Rows(g, keys))
    <2> HIDE DEF back, Rest
    <2> QED BY <1>2, <1>3 DEF Injection, IsInjective
  <1>8. Rows(f, keys) \cap Rest = {} OBVIOUS
  <1> HIDE DEF back, Rest
  <1>9. Cardinality(Rest) <= Cardinality(Rows(g, keys)) /\ Cardinality(Rest) \in Nat
    BY <1>4, <1>6, <1>7, FS_Injection, FS_CardinalityType
  <1>10. /\ IsFiniteSet(Rows(f, keys) \cup Rest)
         /\ Cardinality(Rows(f, keys) \cup Rest)
              = Cardinality(Rows(f, keys)) + Cardinality(Rest) - Cardinality(Rows(f, keys) \cap Rest)
    BY <1>4, <1>6, FS_Union
  <1>11. Cardinality(Rows(f, keys) \cap Rest) = 0 BY <1>8, FS_EmptySet
  <1>12. Cardinality(Rows(h, keys)) <= Cardinality(Rows(f, keys) \cup Rest)
    BY <1>5, <1>10, FS_Subset
  <1> QED BY <1>4, <1>9, <1>10, <1>11, <1>12 DEF Tally

\* Numbers that cover the sum of two others.
LEMMA TallyJoin ==
  ASSUME NEW keys, IsFiniteSet(keys), NEW f, \A k \in keys : f[k] \in Nat,
         NEW g, \A k \in keys : g[k] \in Nat, NEW h, \A k \in keys : h[k] \in Nat,
         \A k \in keys : f[k] + g[k] <= h[k]
  PROVE  Tally(f, keys) + Tally(g, keys) <= Tally(h, keys)
  <1> DEFINE Rest == Rows(h, keys) \ Rows(f, keys)
             on == [p \in Rows(g, keys) |-> <<p[1], p[2] + f[p[1]]>>]
  <1>1. ASSUME NEW p \in Rows(g, keys)
        PROVE  /\ p = <<p[1], p[2]>> /\ p[1] \in keys /\ f[p[1]] \in Nat /\ p[2] \in Nat
               /\ p[2] + f[p[1]] \in 1..h[p[1]] /\ p[2] + f[p[1]] \notin 1..f[p[1]]
    <2>1. PICK k \in keys : \E n \in 1..g[k] : p = <<k, n>> BY RowsOf
    <2>2. PICK n \in 1..g[k] : p = <<k, n>> BY <2>1
    <2> QED BY <2>2
  <1>2. on \in [Rows(g, keys) -> Rest]
    <2> SUFFICES ASSUME NEW p \in Rows(g, keys) PROVE <<p[1], p[2] + f[p[1]]>> \in Rest
      OBVIOUS
    <2>1. <<p[1], p[2] + f[p[1]]>> \in Rows(h, keys) BY <1>1, RowsOf
    <2>2. <<p[1], p[2] + f[p[1]]>> \notin Rows(f, keys) BY <1>1, RowsOf
    <2> QED BY <2>1, <2>2
  <1>3. \A p, r \in Rows(g, keys) : on[p] = on[r] => p = r
    <2> SUFFICES ASSUME NEW p \in Rows(g, keys), NEW r \in Rows(g, keys), on[p] = on[r]
                 PROVE  p = r
      OBVIOUS
    <2>1. p[1] = r[1] /\ p[2] + f[p[1]] = r[2] + f[r[1]] OBVIOUS
    <2>2. p[2] = r[2] BY <1>1, <2>1
    <2> QED BY <1>1, <2>1, <2>2
  <1>4. IsFiniteSet(Rows(f, keys)) /\ IsFiniteSet(Rows(g, keys)) /\ IsFiniteSet(Rows(h, keys))
        /\ Tally(f, keys) \in Nat /\ Tally(g, keys) \in Nat /\ Tally(h, keys) \in Nat
    BY TallyType
  <1>5. Rows(f, keys) \in SUBSET Rows(h, keys)
    <2> SUFFICES ASSUME NEW p \in Rows(f, keys) PROVE p \in Rows(h, keys) OBVIOUS
    <2>1. PICK k \in keys : \E n \in 1..f[k] : p = <<k, n>> BY RowsOf
    <2>2. PICK n \in 1..f[k] : p = <<k, n>> BY <2>1
    <2>3. f[k] \in Nat /\ g[k] \in Nat /\ h[k] \in Nat /\ f[k] + g[k] <= h[k] OBVIOUS
    <2>4. n \in 1..h[k] BY <2>3
    <2> QED BY <2>2, <2>4, RowsOf
  <1>6. IsFiniteSet(Rest) BY <1>4, FS_Difference
  <1>7. on \in Injection(Rows(g, keys), Rest)
    <2> HIDE DEF on, Rest
    <2> QED BY <1>2, <1>3 DEF Injection, IsInjective
  <1>8. Rows(h, keys) = Rows(f, keys) \cup Rest /\ Rows(f, keys) \cap Rest = {} BY <1>5
  <1> HIDE DEF on, Rest
  <1>9. Cardinality(Rows(g, keys)) <= Cardinality(Rest) /\ Cardinality(Rest) \in Nat
    BY <1>6, <1>7, FS_Injection, FS_CardinalityType
  <1>10. Cardinality(Rows(f, keys) \cup Rest)
           = Cardinality(Rows(f, keys)) + Cardinality(Rest) - Cardinality(Rows(f, keys) \cap Rest)
    BY <1>4, <1>6, FS_Union
  <1>11. Cardinality(Rows(f, keys) \cap Rest) = 0 BY <1>8, FS_EmptySet
  <1> QED BY <1>4, <1>8, <1>9, <1>10, <1>11 DEF Tally

\* Keys apart from one another.
LEMMA TallySplit ==
  ASSUME NEW keys, IsFiniteSet(keys), NEW f, \A k \in keys : f[k] \in Nat, NEW some \in SUBSET keys
  PROVE  Tally(f, keys) = Tally(f, some) + Tally(f, keys \ some)
  <1>1. IsFiniteSet(some) /\ IsFiniteSet(keys \ some) BY FS_Subset, FS_Difference
  <1>2. /\ IsFiniteSet(Rows(f, some)) /\ IsFiniteSet(Rows(f, keys \ some))
        /\ Tally(f, some) \in Nat /\ Tally(f, keys \ some) \in Nat
    BY <1>1, TallyType
  <1>3. Rows(f, keys) = Rows(f, some) \cup Rows(f, keys \ some) BY DEF Rows
  <1>4. Rows(f, some) \cap Rows(f, keys \ some) = {} BY DEF Rows
  <1>5. Cardinality(Rows(f, some) \cup Rows(f, keys \ some))
          = Cardinality(Rows(f, some)) + Cardinality(Rows(f, keys \ some))
            - Cardinality(Rows(f, some) \cap Rows(f, keys \ some))
    BY <1>2, FS_Union
  <1>6. Cardinality(Rows(f, some) \cap Rows(f, keys \ some)) = 0 BY <1>4, FS_EmptySet
  <1> QED BY <1>2, <1>3, <1>5, <1>6 DEF Tally

LEMMA TallyZero ==
  ASSUME NEW keys, NEW f, \A k \in keys : f[k] = 0
  PROVE  Tally(f, keys) = 0
  <1>1. Rows(f, keys) = {} BY DEF Rows
  <1> QED BY <1>1, FS_EmptySet DEF Tally
=============================================================================
