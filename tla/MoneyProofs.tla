----------------------------- MODULE MoneyProofs -----------------------------
(***************************************************************************)
(* Proofs about what is sold, signed, earned and shared, for any clerks,   *)
(* amounts, shares, findings, versions and requests.                       *)
(*                                                                         *)
(* Each desk has an invariant in two parts: what its rows say of each      *)
(* other, and what a request under way read that is still so when it       *)
(* writes.  The rows' part holds at every desk, the requests' part at the  *)
(* desk that is followed.  What is paid out and credited is explained by   *)
(* sums, so the proofs begin with a theory of SumOf: it adds numbers in    *)
(* any order, part by part and one change at a time.                       *)
(***************************************************************************)
EXTENDS MCMoney, FiniteSetTheorems, WellFoundedInduction, TLAPS

-----------------------------------------------------------------------------
(***************************************************************************)
(* Sums.                                                                   *)
(***************************************************************************)
\* Induction on finite sets, for a property given as the set of the sets that
\* have it.
LEMMA SetInduction ==
    ASSUME NEW D, IsFiniteSet(D), NEW Good, {} \in Good,
           \A s \in SUBSET D : \A x \in D \ s : s \in Good => s \union {x} \in Good
    PROVE  D \in Good
<1> DEFINE Bad == {s \in SUBSET D : s \notin Good}
<1> SUFFICES ASSUME Bad # {} PROVE FALSE
  OBVIOUS
<1>1. FiniteSubsetsOf(D) = SUBSET D
  BY FS_FiniteSubsetsOfFinite
<1>2. IsWellFoundedOn(StrictSubsetOrdering(D), SUBSET D)
  BY <1>1, FS_StrictSubsetOrderingWellFounded
<1>3. PICK s \in Bad : \A r \in Bad : ~(<<r, s>> \in StrictSubsetOrdering(D))
  BY <1>2, WFMin
<1>4. s \in SUBSET D /\ s \notin Good /\ s # {}
  BY <1>3
<1>5. PICK x \in s : TRUE
  BY <1>4
<1>6. s \ {x} \in SUBSET D /\ x \in D \ (s \ {x}) /\ (s \ {x}) \union {x} = s
  BY <1>4, <1>5
<1>7. <<s \ {x}, s>> \in StrictSubsetOrdering(D)
  BY <1>4, <1>5, <1>6 DEF StrictSubsetOrdering
<1>8. s \ {x} \in Good
  BY <1>3, <1>6, <1>7
<1> QED
  BY <1>4, <1>6, <1>8

One(s) == CHOOSE x \in s : TRUE

\* iter sums f over the sets of U, as SumOf does: one element after another.
Iterates(iter, f, U) ==
    \A s \in U : iter[s] = IF s = {} THEN 0 ELSE f[One(s)] + iter[s \ {One(s)}]

\* A function of finitely many arguments to numbers.
Summable(f) == IsFiniteSet(DOMAIN f) /\ \A x \in DOMAIN f : f[x] \in Nat

\* What SumOf is, for a function of finitely many arguments to numbers.
Sums(iter, f) == /\ iter \in [SUBSET DOMAIN f -> Nat]
                 /\ iter[{}] = 0
                 /\ \A r \in SUBSET DOMAIN f : \A x \in r : iter[r] = f[x] + iter[r \ {x}]

\* What SumOf unfolds to exists.
LEMMA IterationExists ==
    ASSUME NEW f, Summable(f)
    PROVE  \E iter \in [SUBSET DOMAIN f -> Nat] : Iterates(iter, f, SUBSET DOMAIN f)
<1> USE DEF Summable
<1> DEFINE D == DOMAIN f
           Upto(n) == {r \in SUBSET D : Cardinality(r) <= n}
           Good == {s \in SUBSET D : \E iter \in [Upto(Cardinality(s)) -> Nat] :
                                        Iterates(iter, f, Upto(Cardinality(s)))}
<1>1. \A s \in SUBSET D : IsFiniteSet(s) /\ Cardinality(s) \in Nat
  BY FS_Subset, FS_CardinalityType
<1>2. {} \in Good
  <2>1. Upto(Cardinality({})) = {{}}
    BY <1>1, FS_EmptySet
  <2> DEFINE iter == [s \in {{}} |-> 0]
  <2>2. iter \in [{{}} -> Nat] /\ Iterates(iter, f, {{}})
    BY DEF Iterates
  <2> QED
    BY <2>1, <2>2
<1>3. ASSUME NEW s \in SUBSET D, NEW x \in D \ s, s \in Good PROVE s \union {x} \in Good
  <2> DEFINE n == Cardinality(s)
  <2>1. n \in Nat /\ Cardinality(s \union {x}) = n + 1 /\ s \union {x} \in SUBSET D
    BY <1>1, <1>3, FS_AddElement
  <2>2. PICK iter \in [Upto(n) -> Nat] : Iterates(iter, f, Upto(n))
    BY <1>3
  <2> HIDE DEF n
  <2> DEFINE longer == [r \in Upto(n + 1) |->
                          IF r = {} THEN 0 ELSE f[One(r)] + iter[r \ {One(r)}]]
  <2>3. ASSUME NEW r \in Upto(n + 1), r # {}
        PROVE  One(r) \in D /\ r \ {One(r)} \in Upto(n)
    <3>1. r \in SUBSET D /\ Cardinality(r) <= n + 1
      OBVIOUS
    <3>2. One(r) \in r
      BY <2>3 DEF One
    <3>3. Cardinality(r \ {One(r)}) = Cardinality(r) - 1
      BY <1>1, <3>1, <3>2, FS_RemoveElement
    <3>4. Cardinality(r \ {One(r)}) <= n
      BY <1>1, <2>1, <3>1, <3>3
    <3> QED
      BY <3>1, <3>2, <3>4
  <2>4. longer \in [Upto(n + 1) -> Nat]
    <3>1. ASSUME NEW r \in Upto(n + 1), r # {} PROVE f[One(r)] + iter[r \ {One(r)}] \in Nat
      <4>1. f[One(r)] \in Nat /\ iter[r \ {One(r)}] \in Nat
        BY <2>2, <2>3, <3>1
      <4> QED
        BY <4>1
    <3> QED
      BY <3>1
  <2>5. ASSUME NEW r \in Upto(n) PROVE r \in Upto(n + 1) /\ longer[r] = iter[r]
    <3>1. r \in Upto(n + 1)
      BY <1>1, <2>1
    <3> QED
      BY <2>2, <3>1 DEF Iterates
  <2>6. Iterates(longer, f, Upto(n + 1))
    BY <2>3, <2>5 DEF Iterates
  <2> QED
    BY <2>1, <2>4, <2>6
<1>4. D \in Good
  <2> HIDE DEF Good
  <2> QED
    BY <1>2, <1>3, SetInduction
<1>5. Upto(Cardinality(D)) = SUBSET D
  BY <1>1, FS_Subset, FS_CardinalityType
<1> QED
  BY <1>4, <1>5

\* In whichever order it takes the elements.
LEMMA IterationTakesAny ==
    ASSUME NEW f, Summable(f), NEW iter, iter \in [SUBSET DOMAIN f -> Nat],
           Iterates(iter, f, SUBSET DOMAIN f)
    PROVE  Sums(iter, f)
<1> DEFINE D == DOMAIN f
           Takes(r) == \A x \in r : iter[r] = f[x] + iter[r \ {x}]
           Good == {s \in SUBSET D :
                      \A r \in SUBSET D : Cardinality(r) <= Cardinality(s) => Takes(r)}
<1> USE DEF Summable
<1>1. \A s \in SUBSET D : IsFiniteSet(s) /\ Cardinality(s) \in Nat
  BY FS_Subset, FS_CardinalityType
<1>2. {} \in Good
  <2>1. ASSUME NEW r \in SUBSET D, Cardinality(r) <= Cardinality({}) PROVE r = {}
    BY <1>1, <2>1, FS_EmptySet
  <2> QED
    BY <2>1
<1>3. ASSUME NEW s \in SUBSET D, NEW x \in D \ s, s \in Good PROVE s \union {x} \in Good
  <2> DEFINE n == Cardinality(s)
  <2>1. n \in Nat /\ Cardinality(s \union {x}) = n + 1 /\ s \union {x} \in SUBSET D
    BY <1>1, <1>3, FS_AddElement
  <2>2. \A r \in SUBSET D : Cardinality(r) <= n => Takes(r)
    BY <1>3
  <2> HIDE DEF n, Takes
  <2>3. ASSUME NEW r \in SUBSET D, Cardinality(r) <= n + 1, NEW z \in r
        PROVE  iter[r] = f[z] + iter[r \ {z}]
    <3> DEFINE y == One(r)
    <3>1. y \in r
      BY DEF One
    <3>2. iter[r] = f[y] + iter[r \ {y}]
      BY DEF Iterates
    <3> HIDE DEF y
    <3>3. CASE y = z
      BY <3>2, <3>3
    <3>4. CASE y # z
      <4> DEFINE both == (r \ {y}) \ {z}
      <4>1. /\ Cardinality(r \ {y}) = Cardinality(r) - 1
            /\ Cardinality(r \ {z}) = Cardinality(r) - 1
        BY <1>1, <3>1, FS_RemoveElement
      <4>2. Cardinality(r \ {y}) <= n /\ Cardinality(r \ {z}) <= n
        BY <1>1, <2>1, <2>3, <4>1
      <4>3. Takes(r \ {y}) /\ Takes(r \ {z})
        BY <2>2, <4>2
      <4>4. z \in r \ {y} /\ y \in r \ {z} /\ (r \ {z}) \ {y} = both
        BY <3>1, <3>4
      <4>5. iter[r \ {y}] = f[z] + iter[both] /\ iter[r \ {z}] = f[y] + iter[both]
        BY <4>3, <4>4 DEF Takes
      <4>6. f[z] \in Nat /\ f[y] \in Nat /\ iter[both] \in Nat
        BY <3>1
      <4> QED
        BY <3>2, <4>5, <4>6
    <3> QED
      BY <3>3, <3>4
  <2> QED
    BY <2>1, <2>3 DEF Takes
<1> HIDE DEF Takes
<1>4. D \in Good
  <2> HIDE DEF Good
  <2> QED
    BY <1>2, <1>3, SetInduction
<1>5. \A r \in SUBSET D : Cardinality(r) <= Cardinality(D)
  BY FS_Subset
<1>6. iter[{}] = 0
  BY DEF Iterates
<1> QED
  BY <1>4, <1>5, <1>6 DEF Takes, Sums

LEMMA SumOfSums ==
    ASSUME NEW f, Summable(f)
    PROVE  \E iter : Sums(iter, f) /\ SumOf(f) = iter[DOMAIN f]
<1> DEFINE D == DOMAIN f
           Step(g) == [s \in SUBSET D |-> IF s = {} THEN 0
                          ELSE f[CHOOSE x \in s : TRUE] + g[s \ {CHOOSE x \in s : TRUE}]]
           iter == CHOOSE g : g = Step(g)
<1>1. SumOf(f) = iter[D]
  BY Zenon DEF SumOf, MapThenSumSet, MapThenFoldSet
<1>2. PICK g \in [SUBSET D -> Nat] : Iterates(g, f, SUBSET D)
  BY IterationExists
<1> USE DEF Summable
<1>3. g = Step(g)
  BY <1>2 DEF Iterates, One
<1>4. iter = Step(iter)
  BY <1>3
<1> HIDE DEF iter
<1>5. Iterates(iter, f, SUBSET D)
  BY <1>4 DEF Iterates, One
<1>6. iter \in [SUBSET D -> Nat]
  <2> DEFINE Good == {s \in SUBSET D : \A r \in SUBSET D :
                         Cardinality(r) <= Cardinality(s) => iter[r] = g[r]}
  <2>1. \A s \in SUBSET D : IsFiniteSet(s) /\ Cardinality(s) \in Nat
    BY FS_Subset, FS_CardinalityType
  <2>2. {} \in Good
    <3>1. ASSUME NEW r \in SUBSET D, Cardinality(r) <= Cardinality({}) PROVE r = {}
      BY <2>1, <3>1, FS_EmptySet
    <3>2. iter[{}] = g[{}]
      BY <1>2, <1>5 DEF Iterates
    <3> QED
      BY <3>1, <3>2
  <2>3. ASSUME NEW s \in SUBSET D, NEW x \in D \ s, s \in Good PROVE s \union {x} \in Good
    <3> DEFINE n == Cardinality(s)
    <3>1. n \in Nat /\ Cardinality(s \union {x}) = n + 1 /\ s \union {x} \in SUBSET D
      BY <2>1, <2>3, FS_AddElement
    <3>2. \A r \in SUBSET D : Cardinality(r) <= n => iter[r] = g[r]
      BY <2>3
    <3> HIDE DEF n
    <3>3. ASSUME NEW r \in SUBSET D, Cardinality(r) <= n + 1 PROVE iter[r] = g[r]
      <4>1. CASE r = {}
        BY <4>1, <1>2, <1>5 DEF Iterates
      <4>2. CASE r # {}
        <5>1. One(r) \in r
          BY <4>2 DEF One
        <5>2. Cardinality(r \ {One(r)}) = Cardinality(r) - 1
          BY <2>1, <5>1, FS_RemoveElement
        <5>3. Cardinality(r \ {One(r)}) <= n
          BY <2>1, <3>1, <3>3, <5>2
        <5>4. iter[r \ {One(r)}] = g[r \ {One(r)}]
          BY <3>2, <5>3
        <5> QED
          BY <1>2, <1>5, <4>2, <5>4 DEF Iterates
      <4> QED
        BY <4>1, <4>2
    <3> QED
      BY <3>1, <3>3
  <2>4. D \in Good
    <3> HIDE DEF Good
    <3> QED
      BY <2>2, <2>3, SetInduction
  <2>5. \A r \in SUBSET D : Cardinality(r) <= Cardinality(D)
    BY FS_Subset
  <2>6. \A r \in SUBSET D : iter[r] = g[r]
    BY <2>4, <2>5
  <2>7. iter = [s \in SUBSET D |-> iter[s]]
    BY <1>4
  <2> QED
    BY <2>6, <2>7
<1>7. Sums(iter, f)
  BY <1>5, <1>6, IterationTakesAny
<1> QED
  BY <1>1, <1>7

\* A sum depends on what is added only.
LEMMA SumsAgree ==
    ASSUME NEW f, NEW h, NEW i, NEW k, Sums(i, f), Sums(k, h),
           NEW s \in SUBSET (DOMAIN f \intersect DOMAIN h), IsFiniteSet(s),
           \A x \in s : f[x] = h[x]
    PROVE  i[s] = k[s]
<1> DEFINE Good == {r \in SUBSET s : i[r] = k[r]}
<1>1. {} \in Good
  BY DEF Sums
<1>2. ASSUME NEW r \in SUBSET s, NEW x \in s \ r, r \in Good PROVE r \union {x} \in Good
  <2>1. /\ r \union {x} \in SUBSET DOMAIN f /\ r \union {x} \in SUBSET DOMAIN h
        /\ x \in r \union {x} /\ (r \union {x}) \ {x} = r
    BY <1>2
  <2>2. i[r \union {x}] = f[x] + i[(r \union {x}) \ {x}]
    BY <2>1 DEF Sums
  <2>3. k[r \union {x}] = h[x] + k[(r \union {x}) \ {x}]
    BY <2>1 DEF Sums
  <2> QED
    BY <1>2, <2>1, <2>2, <2>3
<1>3. s \in Good
  <2> HIDE DEF Good
  <2> QED
    BY <1>1, <1>2, SetInduction
<1> QED
  BY <1>3

LEMMA SumIsNat ==
    ASSUME NEW f, Summable(f)
    PROVE  SumOf(f) \in Nat
<1>1. PICK i : Sums(i, f) /\ SumOf(f) = i[DOMAIN f]
  BY SumOfSums DEF Summable
<1>2. DOMAIN f \in SUBSET DOMAIN f
  OBVIOUS
<1> QED
  BY <1>1, <1>2 DEF Sums

LEMMA SumOfNothing ==
    ASSUME NEW f, DOMAIN f = {}
    PROVE  SumOf(f) = 0
<1>1. Summable(f)
  BY FS_EmptySet DEF Summable
<1>2. PICK i : Sums(i, f) /\ SumOf(f) = i[DOMAIN f]
  BY <1>1, SumOfSums
<1> QED
  BY <1>2 DEF Sums

\* One element and the others.
LEMMA SumTakesOut ==
    ASSUME NEW f, Summable(f), NEW x \in DOMAIN f
    PROVE  /\ Summable([y \in DOMAIN f \ {x} |-> f[y]])
           /\ SumOf(f) = f[x] + SumOf([y \in DOMAIN f \ {x} |-> f[y]])
<1> DEFINE D == DOMAIN f
           h == [y \in D \ {x} |-> f[y]]
<1>1. DOMAIN h = D \ {x} /\ \A y \in D \ {x} : h[y] = f[y]
  OBVIOUS
<1>2. Summable(h)
  BY FS_Subset DEF Summable
<1> HIDE DEF h
<1>3. PICK i : Sums(i, f) /\ SumOf(f) = i[D]
  BY SumOfSums DEF Summable
<1>4. PICK k : Sums(k, h) /\ SumOf(h) = k[D \ {x}]
  BY <1>1, <1>2, SumOfSums DEF Summable
<1>5. i[D] = f[x] + i[D \ {x}]
  BY <1>3 DEF Sums
<1>6. i[D \ {x}] = k[D \ {x}]
  <2>1. D \ {x} \in SUBSET (DOMAIN f \intersect DOMAIN h) /\ IsFiniteSet(D \ {x})
    BY <1>1, FS_Subset DEF Summable
  <2> QED
    BY <1>1, <1>3, <1>4, <2>1, SumsAgree
<1> QED
  BY <1>2, <1>3, <1>4, <1>5, <1>6 DEF h

\* One element changed.
LEMMA SumChangesOne ==
    ASSUME NEW f, Summable(f), NEW h, Summable(h), DOMAIN h = DOMAIN f, NEW x \in DOMAIN f,
           \A y \in DOMAIN f \ {x} : h[y] = f[y]
    PROVE  SumOf(h) + f[x] = SumOf(f) + h[x]
<1> DEFINE r == [y \in DOMAIN f \ {x} |-> f[y]]
           q == [y \in DOMAIN h \ {x} |-> h[y]]
<1>1. r = q
  OBVIOUS
<1>2. SumOf(f) = f[x] + SumOf(r) /\ SumOf(h) = h[x] + SumOf(q) /\ Summable(r)
  BY SumTakesOut
<1>3. SumOf(r) \in Nat /\ f[x] \in Nat /\ h[x] \in Nat
  BY <1>2, SumIsNat DEF Summable
<1> HIDE DEF r, q
<1> QED
  BY <1>1, <1>2, <1>3

\* Two functions added argument by argument.
LEMMA SumAddsUp ==
    ASSUME NEW f, Summable(f), NEW g, Summable(g), DOMAIN g = DOMAIN f,
           NEW h, DOMAIN h = DOMAIN f, \A x \in DOMAIN f : h[x] = f[x] + g[x]
    PROVE  Summable(h) /\ SumOf(h) = SumOf(f) + SumOf(g)
<1> DEFINE D == DOMAIN f
<1>1. Summable(h)
  BY DEF Summable
<1>2. PICK i : Sums(i, f) /\ SumOf(f) = i[D]
  BY SumOfSums
<1>3. PICK j : Sums(j, g) /\ SumOf(g) = j[D]
  BY SumOfSums
<1>4. PICK k : Sums(k, h) /\ SumOf(h) = k[D]
  BY <1>1, SumOfSums
<1> DEFINE Good == {s \in SUBSET D : k[s] = i[s] + j[s]}
<1>5. {} \in Good
  BY <1>2, <1>3, <1>4 DEF Sums
<1>6. ASSUME NEW s \in SUBSET D, NEW x \in D \ s, s \in Good PROVE s \union {x} \in Good
  <2> DEFINE more == s \union {x}
  <2>1. more \in SUBSET D /\ x \in more /\ more \ {x} = s
    OBVIOUS
  <2> HIDE DEF more
  <2>2. i[more] = f[x] + i[s] /\ i[s] \in Nat
    BY <1>2, <2>1 DEF Sums
  <2>3. j[more] = g[x] + j[s] /\ j[s] \in Nat
    BY <1>3, <2>1 DEF Sums
  <2>4. k[more] = h[x] + k[s]
    BY <1>4, <2>1 DEF Sums
  <2>5. f[x] \in Nat /\ g[x] \in Nat /\ h[x] = f[x] + g[x] /\ k[s] = i[s] + j[s]
    BY <1>6 DEF Summable
  <2>6. k[more] = i[more] + j[more]
    BY <2>2, <2>3, <2>4, <2>5
  <2> QED
    BY <2>1, <2>6 DEF more
<1>7. D \in Good
  <2> HIDE DEF Good
  <2> QED
    BY <1>5, <1>6, SetInduction DEF Summable
<1> QED
  BY <1>1, <1>2, <1>3, <1>4, <1>7

\* Some of the elements and the rest.
LEMMA SumSplits ==
    ASSUME NEW f, Summable(f), NEW part \in SUBSET DOMAIN f
    PROVE  /\ Summable([x \in part |-> f[x]]) /\ Summable([x \in DOMAIN f \ part |-> f[x]])
           /\ SumOf(f) = SumOf([x \in part |-> f[x]]) + SumOf([x \in DOMAIN f \ part |-> f[x]])
<1> DEFINE D == DOMAIN f
           rest == D \ part
           a == [x \in part |-> f[x]]
           b == [x \in rest |-> f[x]]
<1>1. DOMAIN a = part /\ DOMAIN b = rest
  OBVIOUS
<1>2. Summable(a) /\ Summable(b)
  BY FS_Subset DEF Summable
<1>3. PICK i : Sums(i, f) /\ SumOf(f) = i[D]
  BY SumOfSums
<1>4. (\A x \in part : a[x] = f[x]) /\ (\A x \in rest : b[x] = f[x])
  OBVIOUS
<1> HIDE DEF a, b
<1>5. ASSUME NEW g, Summable(g), DOMAIN g \in SUBSET D, \A x \in DOMAIN g : g[x] = f[x]
      PROVE  SumOf(g) = i[DOMAIN g]
  <2>1. PICK k : Sums(k, g) /\ SumOf(g) = k[DOMAIN g]
    BY <1>5, SumOfSums
  <2>2. DOMAIN g \in SUBSET (DOMAIN g \intersect DOMAIN f) /\ IsFiniteSet(DOMAIN g)
    BY <1>5 DEF Summable
  <2> QED
    BY <1>3, <1>5, <2>1, <2>2, SumsAgree
<1>6. SumOf(a) = i[part] /\ SumOf(b) = i[rest]
  BY <1>1, <1>2, <1>4, <1>5
<1> DEFINE Good == {s \in SUBSET rest : i[part \union s] = i[part] + i[s]}
<1>7. {} \in Good
  BY <1>3 DEF Sums
<1>8. ASSUME NEW s \in SUBSET rest, NEW x \in rest \ s, s \in Good
      PROVE  s \union {x} \in Good
  <2> DEFINE more == s \union {x}
             all == part \union more
  <2>1. /\ more \in SUBSET D /\ x \in more /\ more \ {x} = s
        /\ all \in SUBSET D /\ x \in all /\ all \ {x} = part \union s
        /\ part \in SUBSET D /\ s \in SUBSET D
    OBVIOUS
  <2> HIDE DEF more, all
  <2>2. i[more] = f[x] + i[s] /\ i[s] \in Nat /\ i[part] \in Nat
    BY <1>3, <2>1 DEF Sums
  <2>3. i[all] = f[x] + i[part \union s]
    BY <1>3, <2>1 DEF Sums
  <2>4. f[x] \in Nat /\ i[part \union s] = i[part] + i[s]
    BY <1>8 DEF Summable
  <2>5. i[all] = i[part] + i[more]
    BY <2>2, <2>3, <2>4
  <2> QED
    BY <1>8, <2>5 DEF more, all
<1>9. rest \in Good
  <2>1. IsFiniteSet(rest)
    BY <1>1, <1>2 DEF Summable
  <2> HIDE DEF Good, rest
  <2> QED
    BY <1>7, <1>8, <2>1, SetInduction
<1>10. part \union rest = D
  OBVIOUS
<1> QED
  BY <1>2, <1>3, <1>6, <1>9, <1>10 DEF a, b

\* Counting up, for a property given as the set of the numbers that have it.
LEMMA CountingUp ==
    ASSUME NEW Good, 0 \in Good, \A n \in Nat : n \in Good => n + 1 \in Good
    PROVE  Nat \subseteq Good
<1> SUFFICES ASSUME NEW n \in Nat, n \notin Good PROVE FALSE
  OBVIOUS
<1> DEFINE all == 1..n
<1>1. IsFiniteSet(all) /\ Cardinality(all) = n
  BY FS_Interval
<1> DEFINE Sizes == {s \in SUBSET all : Cardinality(s) \in Good}
<1>2. {} \in Sizes
  BY FS_EmptySet
<1>3. ASSUME NEW s \in SUBSET all, NEW x \in all \ s, s \in Sizes
      PROVE  s \union {x} \in Sizes
  <2>1. IsFiniteSet(s) /\ Cardinality(s) \in Nat /\ Cardinality(s) \in Good
    BY <1>1, <1>3, FS_Subset, FS_CardinalityType
  <2>2. Cardinality(s \union {x}) = Cardinality(s) + 1
    BY <2>1, FS_AddElement
  <2>3. Cardinality(s) + 1 \in Good
    BY <2>1
  <2> QED
    BY <2>2, <2>3
<1>4. all \in Sizes
  <2> HIDE DEF Sizes, all
  <2> QED
    BY <1>1, <1>2, <1>3, SetInduction
<1> QED
  BY <1>1, <1>4

\* Nothing but zeros.
LEMMA SumOfZeros ==
    ASSUME NEW f, IsFiniteSet(DOMAIN f), \A x \in DOMAIN f : f[x] = 0
    PROVE  SumOf(f) = 0
<1>1. Summable(f) /\ \A x \in DOMAIN f : f[x] = f[x] + f[x]
  BY DEF Summable
<1>2. SumOf(f) = SumOf(f) + SumOf(f)
  BY <1>1, SumAddsUp
<1>3. SumOf(f) \in Nat
  BY <1>1, SumIsNat
<1> DEFINE sum == SumOf(f)
<1>4. sum \in Nat /\ sum = sum + sum
  BY <1>2, <1>3
<1> HIDE DEF sum
<1>5. sum = 0
  BY <1>4
<1> QED
  BY <1>5 DEF sum

LEMMA LesserIsNat ==
    ASSUME NEW a \in Nat, NEW b \in Nat
    PROVE  LesserOf(a, b) \in Nat /\ LesserOf(a, b) <= a /\ LesserOf(a, b) <= b
BY DEF LesserOf

LEMMA AtLeastZeroIsNat ==
    ASSUME NEW a \in Nat, NEW b \in Int
    PROVE  AtLeastZero(a, b) \in Nat
BY DEF AtLeastZero

\* The oldest sources give the whole amount when together they have it
\* (planCreditApplication, which applyCredit calls).
LEMMA DrawsGiveTheAmount ==
    ASSUME NEW N \in Nat, NEW from \in SUBSET (1..N), NEW sources \in [from -> Nat],
           NEW amount \in Nat, amount <= SumOf(sources)
    PROVE  LET draws == Draws(sources, amount)
           IN  /\ DOMAIN draws = DOMAIN sources
               /\ Summable(draws) /\ SumOf(draws) = amount
<1> DEFINE draws == Draws(sources, amount)
           Below(m) == {k \in from : k < m}
           Part(f, m) == [k \in Below(m) |-> f[k]]
<1>1. IsFiniteSet(from) /\ from \subseteq Nat /\ DOMAIN sources = from
  <2>1. IsFiniteSet(1..N)
    BY FS_Interval
  <2>2. IsFiniteSet(from)
    BY <2>1, FS_Subset
  <2>3. from \subseteq Nat /\ DOMAIN sources = from
    OBVIOUS
  <2> QED
    BY <2>2, <2>3
<1>2. Summable(sources)
  BY <1>1 DEF Summable
<1>3. \A m \in Nat : Below(m) \in SUBSET from
  OBVIOUS
<1>4. \A m \in Nat : Summable(Part(sources, m)) /\ SumOf(Part(sources, m)) \in Nat
  <2> TAKE m \in Nat
  <2>1. Below(m) \in SUBSET DOMAIN sources
    BY <1>1
  <2> HIDE DEF Below
  <2>2. Summable(Part(sources, m))
    BY <1>2, <2>1, SumSplits
  <2> QED
    BY <2>2, SumIsNat
<1>5. /\ DOMAIN draws = from
      /\ \A n \in from : draws[n] = LesserOf(sources[n],
                                          AtLeastZero(amount, SumOf(Part(sources, n))))
  BY DEF Draws
<1> HIDE DEF draws, Part
<1>6. \A n \in from : draws[n] \in Nat
  <2> TAKE n \in from
  <2> DEFINE older == SumOf(Part(sources, n))
             left == AtLeastZero(amount, older)
  <2>1. older \in Nat
    BY <1>1, <1>4
  <2>2. left \in Nat
    BY <2>1, AtLeastZeroIsNat
  <2>3. sources[n] \in Nat /\ draws[n] = LesserOf(sources[n], left)
    BY <1>5
  <2> HIDE DEF left
  <2> QED
    BY <2>2, <2>3, LesserIsNat
<1>7. Summable(draws)
  BY <1>1, <1>5, <1>6 DEF Summable
<1>8. \A m \in Nat : Summable(Part(draws, m)) /\ SumOf(Part(draws, m)) \in Nat
  BY <1>3, <1>5, <1>7, SumSplits, SumIsNat DEF Part
<1>9. ASSUME NEW f, Summable(f), DOMAIN f = from, NEW m \in from
      PROVE  SumOf(Part(f, m + 1)) = f[m] + SumOf(Part(f, m))
  <2> DEFINE g == Part(f, m + 1)
  <2>1. DOMAIN g = Below(m + 1) /\ m \in DOMAIN g /\ g[m] = f[m]
    BY <1>1 DEF Part
  <2>2. Summable(g)
    BY <1>1, <1>3, <1>9, SumSplits DEF Part
  <2>3. Below(m + 1) \ {m} = Below(m)
    <3>1. \A k \in from : k \in Nat /\ m \in Nat /\ (k < m <=> k < m + 1 /\ k # m)
      BY <1>1
    <3> QED
      BY <3>1
  <2>4. [y \in DOMAIN g \ {m} |-> g[y]] = Part(f, m)
    <3>1. DOMAIN g \ {m} = Below(m)
      BY <2>1, <2>3
    <3>2. \A y \in Below(m) : y \in Below(m + 1)
      BY <1>1
    <3> QED
      BY <3>1, <3>2 DEF Part
  <2> HIDE DEF g
  <2>5. SumOf(g) = g[m] + SumOf([y \in DOMAIN g \ {m} |-> g[y]])
    BY <2>1, <2>2, SumTakesOut
  <2> QED
    BY <2>1, <2>4, <2>5 DEF g
<1> DEFINE Good == {m \in Nat : SumOf(Part(draws, m)) = LesserOf(SumOf(Part(sources, m)), amount)}
<1>10. 0 \in Good
  <2>1. Below(0) = {}
    <3>1. \A k \in from : ~(k < 0)
      BY <1>1
    <3> QED
      BY <3>1
  <2>2. SumOf(Part(draws, 0)) = 0 /\ SumOf(Part(sources, 0)) = 0
    BY <2>1, SumOfNothing DEF Part
  <2> QED
    BY <2>2 DEF LesserOf
<1>11. ASSUME NEW m \in Nat, m \in Good PROVE m + 1 \in Good
  <2>1. CASE m \notin from
    <3>1. Below(m + 1) = Below(m)
      <4>1. \A k \in from : k \in Nat /\ k # m
        BY <1>1, <2>1
      <4>2. \A k \in from : k < m <=> k < m + 1
        BY <4>1
      <4> QED
        BY <4>2
    <3>2. Part(draws, m + 1) = Part(draws, m) /\ Part(sources, m + 1) = Part(sources, m)
      BY <3>1 DEF Part
    <3> QED
      BY <1>11, <3>2
  <2>2. CASE m \in from
    <3> DEFINE s == SumOf(Part(sources, m))
               d == SumOf(Part(draws, m))
               x == sources[m]
    <3>1. /\ SumOf(Part(sources, m + 1)) = x + s
          /\ SumOf(Part(draws, m + 1)) = draws[m] + d
      BY <1>2, <1>5, <1>7, <1>9, <2>2
    <3>2. draws[m] = LesserOf(x, AtLeastZero(amount, s)) /\ d = LesserOf(s, amount)
      BY <1>5, <1>11, <2>2
    <3>3. x \in Nat /\ s \in Nat
      BY <1>4, <2>2
    <3> HIDE DEF s, d, x
    <3>4. draws[m] + d = LesserOf(x + s, amount)
      BY <3>2, <3>3 DEF LesserOf, AtLeastZero
    <3> QED
      BY <3>1, <3>4
  <2> QED
    BY <2>1, <2>2
<1>12. N + 1 \in Good
  <2> HIDE DEF Good
  <2> QED
    BY <1>10, <1>11, CountingUp
<1>13. Below(N + 1) = from
  <2>1. \A k \in from : k < N + 1
    OBVIOUS
  <2> QED
    BY <2>1
<1>14. Part(sources, N + 1) = sources
  <2>1. sources = [k \in from |-> sources[k]]
    OBVIOUS
  <2> QED
    BY <1>13, <2>1 DEF Part
<1>15. Part(draws, N + 1) = draws
  BY <1>5, <1>13 DEF Part, Draws, draws
<1> QED
  <2>1. SumOf(draws) = LesserOf(SumOf(sources), amount)
    BY <1>12, <1>14, <1>15
  <2>2. SumOf(sources) \in Nat
    BY <1>2, SumIsNat
  <2>3. SumOf(draws) = amount
    BY <2>1, <2>2 DEF LesserOf
  <2> QED
    BY <1>1, <1>5, <1>7, <2>3 DEF draws

\* The greatest of a finite set of numbers is one of them.
LEMMA MaxIsGreatest ==
    ASSUME NEW T \in SUBSET Nat, IsFiniteSet(T), T # {}
    PROVE  Max(T) \in T /\ \A y \in T : y <= Max(T)
<1> DEFINE Good == {s \in SUBSET T : s = {} \/ \E x \in s : \A y \in s : y <= x}
<1>1. {} \in Good
  OBVIOUS
<1>2. ASSUME NEW s \in SUBSET T, NEW x \in T \ s, s \in Good PROVE s \union {x} \in Good
  <2>1. CASE s = {}
    BY <2>1
  <2>2. CASE s # {}
    <3>1. PICK m \in s : \A y \in s : y <= m
      BY <1>2, <2>2
    <3>2. x \in Nat /\ m \in Nat /\ \A y \in s : y \in Nat
      OBVIOUS
    <3>3. CASE x <= m
      BY <3>1, <3>3
    <3>4. CASE ~(x <= m)
      <4>1. \A y \in s \union {x} : y <= x
        BY <3>1, <3>2, <3>4
      <4> QED
        BY <4>1
    <3> QED
      BY <3>3, <3>4
  <2> QED
    BY <2>1, <2>2
<1>3. T \in Good
  <2> HIDE DEF Good
  <2> QED
    BY <1>1, <1>2, SetInduction
<1>4. \E x \in T : \A y \in T : x >= y
  BY <1>3
<1>5. Max(T) \in T /\ \A y \in T : Max(T) >= y
  BY <1>4 DEF Max
<1> QED
  BY <1>5

\* And the least.
LEMMA MinIsOne ==
    ASSUME NEW T \in SUBSET Nat, IsFiniteSet(T), T # {}
    PROVE  Min(T) \in T
<1> DEFINE Good == {s \in SUBSET T : s = {} \/ \E x \in s : \A y \in s : x <= y}
<1>1. {} \in Good
  OBVIOUS
<1>2. ASSUME NEW s \in SUBSET T, NEW x \in T \ s, s \in Good PROVE s \union {x} \in Good
  <2>1. CASE s = {}
    BY <2>1
  <2>2. CASE s # {}
    <3>1. PICK m \in s : \A y \in s : m <= y
      BY <1>2, <2>2
    <3>2. x \in Nat /\ m \in Nat /\ \A y \in s : y \in Nat
      OBVIOUS
    <3>3. CASE m <= x
      BY <3>1, <3>3
    <3>4. CASE ~(m <= x)
      <4>1. \A y \in s \union {x} : x <= y
        BY <3>1, <3>2, <3>4
      <4> QED
        BY <4>1
    <3> QED
      BY <3>3, <3>4
  <2> QED
    BY <2>1, <2>2
<1>3. T \in Good
  <2> HIDE DEF Good
  <2> QED
    BY <1>1, <1>2, SetInduction
<1>4. \E x \in T : \A y \in T : x <= y
  BY <1>3
<1> QED
  BY <1>4 DEF Min

-----------------------------------------------------------------------------
(***************************************************************************)
(* Requests.                                                               *)
(***************************************************************************)
RequestsOK == request = [c \in Clerks |-> request[c]]

\* c's request becomes next, and nobody else's changes.
Turns(c, next) == /\ RequestsOK'
                  /\ \A d \in Clerks : request'[d] = IF d = c THEN next ELSE request[d]

LEMMA RequestTurns ==
    ASSUME RequestsOK, NEW c \in Clerks, NEW next,
           request' = [request EXCEPT ![c] = next]
    PROVE  Turns(c, next)
<1> DEFINE after == [d \in Clerks |-> IF d = c THEN next ELSE request[d]]
<1>1. request' = after
  BY DEF RequestsOK
<1>2. after = [d \in Clerks |-> after[d]]
  OBVIOUS
<1> QED
  BY <1>1, <1>2 DEF Turns, RequestsOK

LEMMA DeskTurns ==
    ASSUME RequestsOK, NEW c \in Clerks
    PROVE  /\ \A next : Begins(c, next) => Turns(c, next) /\ today' = today
           /\ \A next : GoesOn(c, next) => Turns(c, next) /\ today' = today
           /\ Finishes(c) => Turns(c, AtRest) /\ today' = today
           /\ ClerkDies(c) => Turns(c, AtRest) /\ today' = today
BY RequestTurns DEF Begins, GoesOn, Finishes, ClerkDies

LEMMA RequestsStay ==
    ASSUME RequestsOK, request' = request
    PROVE  RequestsOK'
BY DEF RequestsOK

-----------------------------------------------------------------------------
(***************************************************************************)
(* Work for a sibling company.  An acknowledgement that was read is never  *)
(* taken back, so a state that says both are there is right.               *)
(***************************************************************************)
BothAcknowledged == disclosure.venture /\ disclosure.gardner

RelatedRowsOK ==
    /\ RelatedTypeOK
    /\ disclosure.state = "fully_acknowledged" => BothAcknowledged
    /\ InvoiceIsDisclosed

RelatedRequestOK(r) ==
    /\ r.op = "venture" => r.other \in BOOLEAN /\ (r.other => disclosure.gardner)
    /\ r.op = "gardner" => r.other \in BOOLEAN /\ (r.other => disclosure.venture)
    /\ r.op = "invoice" => BothAcknowledged

RelatedRequestsOK == \A c \in Clerks : RelatedRequestOK(request[c])

AcknowledgementsStay == /\ disclosure.venture => disclosure'.venture
                        /\ disclosure.gardner => disclosure'.gardner

LEMMA RelatedInitOK ==
    ASSUME RelatedInit, request = [c \in Clerks |-> AtRest]
    PROVE  RelatedRowsOK /\ RelatedRequestsOK
BY DEF RelatedInit, RelatedRowsOK, RelatedTypeOK, InvoiceIsDisclosed, RelatedRequestsOK,
       RelatedRequestOK, AtRest

LEMMA RelatedRequestsKept ==
    ASSUME NEW c \in Clerks, NEW next, Turns(c, next), RelatedRequestsOK,
           RelatedRequestOK(next)', AcknowledgementsStay
    PROVE  RequestsOK' /\ RelatedRequestsOK'
BY DEF Turns, RelatedRequestsOK, RelatedRequestOK, BothAcknowledged, AcknowledgementsStay

LEMMA RelatedStep ==
    ASSUME RequestsOK, RelatedRowsOK, RelatedRequestsOK, RelatedNext
    PROVE  RequestsOK' /\ RelatedRowsOK' /\ RelatedRequestsOK'
<1> USE DEF RelatedRowsOK, RelatedTypeOK, InvoiceIsDisclosed, BothAcknowledged,
            AcknowledgementsStay
<1> DEFINE Serves(c, next) == /\ Turns(c, next) /\ RelatedRowsOK' /\ RelatedRequestOK(next)'
                             /\ AcknowledgementsStay
<1>1. ASSUME NEW c \in Clerks PROVE RelatedRequestOK(AtRest)' /\ RelatedRequestOK(request[c])
  BY DEF RelatedRequestOK, AtRest, RelatedRequestsOK
<1>2. ASSUME NEW c \in Clerks, TagVenture(c) PROVE \E next : Serves(c, next)
  BY <1>1, <1>2, DeskTurns DEF TagVenture
<1>3. ASSUME NEW c \in Clerks, GenerateDisclosure(c) PROVE \E next : Serves(c, next)
  <2>1. CASE Begins(c, [op |-> "disclose"]) /\ UNCHANGED relatedRows
    BY <2>1, DeskTurns DEF RelatedRequestOK, relatedRows
  <2>2. CASE Doing(c, "disclose")
    BY <1>1, <1>3, <2>2, DeskTurns DEF GenerateDisclosure, Begins, Doing
  <2> QED
    BY <1>3, <2>1, <2>2 DEF GenerateDisclosure
<1>4. ASSUME NEW c \in Clerks, AcknowledgeByVenture(c) PROVE \E next : Serves(c, next)
  <2>1. CASE /\ Begins(c, [op |-> "venture", other |-> disclosure.gardner])
             /\ UNCHANGED relatedRows
    BY <2>1, DeskTurns DEF RelatedRequestOK, relatedRows
  <2>2. CASE Doing(c, "venture")
    BY <1>1, <1>4, <2>2, DeskTurns
       DEF AcknowledgeByVenture, Acknowledgeable, Begins, Doing, RelatedRequestOK
  <2> QED
    BY <1>4, <2>1, <2>2 DEF AcknowledgeByVenture
<1>5. ASSUME NEW c \in Clerks, AcknowledgeByGardner(c) PROVE \E next : Serves(c, next)
  <2>1. CASE /\ Begins(c, [op |-> "gardner", other |-> disclosure.venture])
             /\ UNCHANGED relatedRows
    BY <2>1, DeskTurns DEF RelatedRequestOK, relatedRows
  <2>2. CASE Doing(c, "gardner")
    BY <1>1, <1>5, <2>2, DeskTurns
       DEF AcknowledgeByGardner, Acknowledgeable, Begins, Doing, RelatedRequestOK
  <2> QED
    BY <1>5, <2>1, <2>2 DEF AcknowledgeByGardner
<1>6. ASSUME NEW c \in Clerks, WithdrawDisclosure(c) PROVE \E next : Serves(c, next)
  BY <1>1, <1>6, DeskTurns DEF WithdrawDisclosure
<1>7. ASSUME NEW c \in Clerks, RaiseInvoice(c) PROVE \E next : Serves(c, next)
  <2>1. CASE /\ sibling /\ MayProceed
             /\ Begins(c, [op |-> "invoice"]) /\ UNCHANGED relatedRows
    BY <2>1, DeskTurns DEF RelatedRequestOK, relatedRows, MayProceed
  <2>2. CASE Doing(c, "invoice")
    BY <1>1, <1>7, <2>2, DeskTurns DEF RaiseInvoice, Begins, Doing, RelatedRequestOK
  <2> QED
    BY <1>7, <2>1, <2>2 DEF RaiseInvoice
<1>8. ASSUME NEW c \in Clerks, RouteToGardnerLedger(c) PROVE \E next : Serves(c, next)
  BY <1>1, <1>8, DeskTurns DEF RouteToGardnerLedger
<1>9. ASSUME NEW c \in Clerks, ClerkDies(c) /\ UNCHANGED relatedRows
      PROVE  \E next : Serves(c, next)
  BY <1>1, <1>9, DeskTurns DEF relatedRows
<1>10. PICK c, next : c \in Clerks /\ Serves(c, next)
  BY <1>2, <1>3, <1>4, <1>5, <1>6, <1>7, <1>8, <1>9 DEF RelatedNext
<1> QED
  BY <1>10, RelatedRequestsKept

-----------------------------------------------------------------------------
(***************************************************************************)
(* A client's data leaving.  What a consent is to never changes, and one   *)
(* that is gone stays gone; so a transfer that saw a live consent uses one *)
(* that was not gone when it was asked for, and a handoff that was linked  *)
(* to a consent to its words still is.                                     *)
(***************************************************************************)
ConsentStates == {"none", "live", "revoked", "expired"}
HandoffStates == {"none", "proposed", "consented", "transferred", "declined"}
OpportunityStates == {"none", "detected", "gardner_approved", "gardner_declined",
                      "routed", "dismissed"}

\* The handoff h is linked, or about to be, to the consent a.
Fits(a, h) == /\ a \in Authorizations /\ authorization[a].state # "none"
              /\ handoff[h].state # "none" /\ authorization[a].scope = handoff[h].scope

CrossRowsOK ==
    /\ authorization \in [Authorizations -> [state : ConsentStates, scope : Scopes \union {"none"}]]
    /\ handoff \in [Handoffs -> [state : HandoffStates, scope : Scopes \union {"none"},
                                 consent : Authorizations \union {0}]]
    /\ opportunity \in [state : OpportunityStates, scope : Scopes \union {"none"}]
    /\ \A h \in Handoffs : handoff[h].state = "consented" => Fits(handoff[h].consent, h)

Transfers == [op : {"check", "transfer"}, on : Handoffs, consent : Authorizations,
              dead : SUBSET Authorizations]
Routes    == [op : {"may route", "route"}, dead : SUBSET Authorizations]

CrossRequestOK(r) ==
    /\ r.op \in {"check", "transfer"} => r \in Transfers
    /\ r.op \in {"may route", "route"} => r \in Routes
    /\ r.op = "propose" => r.scope \in Scopes
    /\ r.op \in {"link", "check", "transfer"} => r.on \in Handoffs /\ Fits(r.consent, r.on)
    /\ r.op \in {"check", "transfer", "may route", "route"} => r.dead \subseteq Dead
    /\ r.op = "transfer" => r.consent \notin r.dead
    /\ r.op = "decide" => r.as \in {"gardner_approved", "gardner_declined"}
    /\ r.op \in {"may route", "route"} => opportunity.state # "none"
    /\ r.op = "route" => \E a \in Authorizations \ r.dead :
          authorization[a].state # "none" /\ authorization[a].scope = opportunity.scope

CrossRequestsOK == \A c \in Clerks : CrossRequestOK(request[c])

\* What no step undoes.
CrossSettles ==
    /\ \A a \in Authorizations : authorization[a].state # "none" =>
          authorization'[a].state # "none" /\ authorization'[a].scope = authorization[a].scope
    /\ Dead \subseteq Dead'
    /\ \A h \in Handoffs : handoff[h].state # "none" =>
          handoff'[h].state # "none" /\ handoff'[h].scope = handoff[h].scope
    /\ opportunity.state # "none" =>
          opportunity'.state # "none" /\ opportunity'.scope = opportunity.scope

LEMMA CrossInitOK ==
    ASSUME CrossInit, request = [c \in Clerks |-> AtRest]
    PROVE  CrossRowsOK /\ CrossRequestsOK
BY DEF CrossInit, CrossRowsOK, CrossRequestsOK, CrossRequestOK, AtRest, NoHandoff, Fits,
       ConsentStates, HandoffStates, OpportunityStates

LEMMA CrossTypes ==
    ASSUME CrossRowsOK
    PROVE  CrossTypeOK
BY DEF CrossRowsOK, CrossTypeOK, ConsentStates, HandoffStates, OpportunityStates

LEMMA CrossRequestStands ==
    ASSUME NEW r, CrossRequestOK(r), CrossSettles
    PROVE  CrossRequestOK(r)'
<1>1. r.op \in {"link", "check", "transfer"} => r.on \in Handoffs /\ Fits(r.consent, r.on)'
  BY DEF CrossRequestOK, CrossSettles, Fits
<1>2. r.op = "route" => \E a \in Authorizations \ r.dead :
         authorization'[a].state # "none" /\ authorization'[a].scope = opportunity'.scope
  BY DEF CrossRequestOK, CrossSettles
<1>3. r.op \in {"check", "transfer", "may route", "route"} => r.dead \subseteq Dead'
  BY DEF CrossRequestOK, CrossSettles
<1>4. r.op \in {"may route", "route"} => opportunity'.state # "none"
  BY DEF CrossRequestOK, CrossSettles
<1> QED
  BY <1>1, <1>2, <1>3, <1>4 DEF CrossRequestOK

LEMMA CrossRequestsKept ==
    ASSUME NEW c \in Clerks, NEW next, Turns(c, next), CrossRequestsOK,
           CrossRequestOK(next)', CrossSettles
    PROVE  RequestsOK' /\ CrossRequestsOK'
<1>1. ASSUME NEW d \in Clerks PROVE CrossRequestOK(request[d])'
  <2>1. CASE d = c
    BY <2>1, Zenon DEF Turns, CrossRequestOK
  <2>2. CASE d # c
    BY <2>2, CrossRequestStands DEF Turns, CrossRequestsOK
  <2> QED
    BY <2>1, <2>2
<1> QED
  BY <1>1 DEF Turns, CrossRequestsOK

LEMMA CrossStep ==
    ASSUME RequestsOK, CrossRowsOK, CrossRequestsOK, CrossNext
    PROVE  RequestsOK' /\ CrossRowsOK' /\ CrossRequestsOK'
<1> DEFINE Serves(c, next) == /\ Turns(c, next) /\ CrossRowsOK' /\ CrossRequestOK(next)'
                              /\ CrossSettles
           Looks(c, next) == /\ Turns(c, next) /\ UNCHANGED crossRows /\ CrossRequestOK(next)
<1>1. CrossRequestOK(AtRest) /\ CrossRequestOK(AtRest)'
  BY DEF CrossRequestOK, AtRest
<1>2. ASSUME NEW c \in Clerks PROVE CrossRequestOK(request[c])
  BY DEF CrossRequestsOK
<1>3. ASSUME NEW c \in Clerks, NEW next, Looks(c, next) PROVE Serves(c, next)
  BY <1>3 DEF CrossRowsOK, CrossRequestOK, CrossSettles, crossRows, Fits, Dead
\* The rows of handoffs and of the opportunity change with consents as they are.
<1>4. ASSUME NEW c \in Clerks, NEW h \in Handoffs, NEW row, Becomes(c, h, row),
             row \in [state : HandoffStates \ {"none"}, scope : Scopes \union {"none"},
                      consent : Authorizations \union {0}],
             handoff[h].state # "none" => row.scope = handoff[h].scope,
             row.state = "consented" =>
                /\ row.consent \in Authorizations
                /\ authorization[row.consent].state # "none"
                /\ authorization[row.consent].scope = row.scope
      PROVE  Serves(c, AtRest)
  <2>1. Turns(c, AtRest) /\ UNCHANGED <<authorization, opportunity>>
    BY <1>4, DeskTurns DEF Becomes
  <2>2. handoff' = [handoff EXCEPT ![h] = row]
    BY <1>4 DEF Becomes
  <2>3. handoff' \in [Handoffs -> [state : HandoffStates, scope : Scopes \union {"none"},
                                   consent : Authorizations \union {0}]]
    BY <1>4, <2>2 DEF CrossRowsOK, HandoffStates
  <2>4. ASSUME NEW g \in Handoffs, handoff'[g].state = "consented"
        PROVE  Fits(handoff[g].consent, g)'
    BY <1>4, <2>1, <2>2, <2>4 DEF CrossRowsOK, Fits
  <2>5. CrossSettles
    BY <1>4, <2>1, <2>2 DEF CrossRowsOK, CrossSettles, Dead
  <2> QED
    BY <1>1, <2>1, <2>3, <2>4, <2>5 DEF CrossRowsOK
<1>5. ASSUME NEW c \in Clerks, NEW state \in OpportunityStates \ {"none"}, Moves(c, state)
      PROVE  Serves(c, AtRest)
  <2>1. Turns(c, AtRest) /\ UNCHANGED <<authorization, handoff>>
    BY <1>5, DeskTurns DEF Moves
  <2>2. /\ opportunity' \in [state : OpportunityStates, scope : Scopes \union {"none"}]
        /\ opportunity'.state = state /\ opportunity'.scope = opportunity.scope
    BY <1>5 DEF Moves, CrossRowsOK
  <2> QED
    BY <1>1, <2>1, <2>2 DEF CrossRowsOK, CrossSettles, Fits, Dead
\* And consents with the others as they are.
<1>6. ASSUME NEW a \in Authorizations, NEW row, authorization' = [authorization EXCEPT ![a] = row],
             row \in [state : ConsentStates \ {"none"}, scope : Scopes \union {"none"}],
             UNCHANGED <<handoff, opportunity>>,
             authorization[a].state # "none" => row.scope = authorization[a].scope,
             a \in Dead => row.state \in {"revoked", "expired"}
      PROVE  CrossRowsOK' /\ CrossSettles
  <2>1. authorization' \in [Authorizations -> [state : ConsentStates,
                                               scope : Scopes \union {"none"}]]
    BY <1>6 DEF CrossRowsOK
  <2>2. CrossSettles
    BY <1>6 DEF CrossRowsOK, CrossSettles, Dead
  <2>3. \A h \in Handoffs : handoff[h].state = "consented" => Fits(handoff[h].consent, h)'
    BY <1>6, <2>2 DEF CrossRowsOK, CrossSettles, Fits
  <2> QED
    BY <1>6, <2>1, <2>2, <2>3 DEF CrossRowsOK
<1>7. ASSUME NEW c \in Clerks, GrantConsent(c) PROVE \E next : Serves(c, next)
  <2>1. PICK a \in Authorizations, s \in Scopes :
          /\ authorization[a].state = "none"
          /\ Begins(c, AtRest)
          /\ authorization' = [authorization EXCEPT ![a] = [state |-> "live", scope |-> s]]
          /\ UNCHANGED <<handoff, opportunity>>
    BY <1>7 DEF GrantConsent
  <2> DEFINE row == [state |-> "live", scope |-> s]
  <2>2. row \in [state : ConsentStates \ {"none"}, scope : Scopes \union {"none"}]
        /\ a \notin Dead
    BY <2>1 DEF ConsentStates, Dead
  <2> HIDE DEF row
  <2>3. authorization' = [authorization EXCEPT ![a] = row]
    BY <2>1 DEF row
  <2> QED
    BY <1>1, <1>6, <2>1, <2>2, <2>3, DeskTurns
<1>8. ASSUME NEW c \in Clerks, RevokeConsent(c) PROVE \E next : Serves(c, next)
  <2>1. PICK a \in Authorizations :
          /\ authorization[a].state # "none" /\ Begins(c, AtRest)
          /\ authorization' = [authorization EXCEPT ![a].state = "revoked"]
          /\ UNCHANGED <<handoff, opportunity>>
    BY <1>8 DEF RevokeConsent
  <2> DEFINE row == [authorization[a] EXCEPT !.state = "revoked"]
  <2>2. /\ row \in [state : ConsentStates \ {"none"}, scope : Scopes \union {"none"}]
        /\ row.state = "revoked" /\ row.scope = authorization[a].scope
    BY DEF CrossRowsOK, ConsentStates
  <2>3. authorization' = [authorization EXCEPT ![a] = row]
    BY <2>1
  <2> HIDE DEF row
  <2> QED
    BY <1>1, <1>6, <2>1, <2>2, <2>3, DeskTurns
<1>9. ASSUME NEW c \in Clerks, ProposeHandoff(c) PROVE \E next : Serves(c, next)
  <2>1. CASE \E s \in Scopes : Begins(c, [op |-> "propose", scope |-> s])
             /\ UNCHANGED crossRows
    <3>1. PICK s \in Scopes : Begins(c, [op |-> "propose", scope |-> s])
      BY <2>1
    <3>2. CrossRequestOK([op |-> "propose", scope |-> s])
      BY DEF CrossRequestOK
    <3> QED
      BY <1>3, <2>1, <3>1, <3>2, DeskTurns
  <2>2. CASE Doing(c, "propose")
    <3>1. PICK h \in Handoffs :
            /\ handoff[h] = NoHandoff
            /\ Becomes(c, h, [NoHandoff EXCEPT !.state = "proposed", !.scope = request[c].scope])
      BY <1>9, <2>2 DEF ProposeHandoff, Begins, Doing
    <3> DEFINE row == [NoHandoff EXCEPT !.state = "proposed", !.scope = request[c].scope]
    <3>2. request[c].scope \in Scopes
      BY <1>2, <2>2 DEF CrossRequestOK, Doing
    <3>3. /\ row \in [state : HandoffStates \ {"none"}, scope : Scopes \union {"none"},
                      consent : Authorizations \union {0}]
          /\ row.state = "proposed"
      BY <3>2 DEF NoHandoff, HandoffStates
    <3>4. handoff[h].state = "none"
      BY <3>1 DEF NoHandoff
    <3> HIDE DEF row
    <3> QED
      BY <1>4, <3>1, <3>3, <3>4 DEF row
  <2> QED
    BY <1>9, <2>1, <2>2 DEF ProposeHandoff
<1>10. ASSUME NEW c \in Clerks, RecordConsent(c) PROVE \E next : Serves(c, next)
  <2>1. CASE \E h \in Handoffs, a \in Authorizations :
               /\ handoff[h].state = "proposed"
               /\ authorization[a].state # "none" /\ authorization[a].scope = handoff[h].scope
               /\ Begins(c, [op |-> "link", on |-> h, consent |-> a]) /\ UNCHANGED crossRows
    <3>1. PICK h \in Handoffs, a \in Authorizations :
               /\ handoff[h].state = "proposed"
               /\ authorization[a].state # "none" /\ authorization[a].scope = handoff[h].scope
               /\ Begins(c, [op |-> "link", on |-> h, consent |-> a]) /\ UNCHANGED crossRows
      BY <2>1
    <3>2. CrossRequestOK([op |-> "link", on |-> h, consent |-> a])
      BY <3>1 DEF CrossRequestOK, Fits
    <3> QED
      BY <1>3, <3>1, <3>2, DeskTurns
  <2>2. CASE Doing(c, "link")
    <3> DEFINE h == request[c].on
               row == [handoff[h] EXCEPT !.state = "consented", !.consent = request[c].consent]
    <3>1. Becomes(c, h, row)
      BY <1>10, <2>2 DEF RecordConsent, Begins, Doing
    <3>2. h \in Handoffs /\ Fits(request[c].consent, h)
      BY <1>2, <2>2 DEF CrossRequestOK, Doing
    <3>3. /\ row \in [state : HandoffStates \ {"none"}, scope : Scopes \union {"none"},
                      consent : Authorizations \union {0}]
          /\ row.scope = handoff[h].scope /\ row.consent = request[c].consent
      <4>1. PICK was \in [state : HandoffStates, scope : Scopes \union {"none"},
                          consent : Authorizations \union {0}] : was = handoff[h]
        BY <3>2 DEF CrossRowsOK
      <4>2. PICK after : after = [was EXCEPT !.state = "consented", !.consent = request[c].consent]
        OBVIOUS
      <4>3. request[c].consent \in Authorizations
        BY <3>2 DEF Fits
      <4>4. /\ after \in [state : HandoffStates \ {"none"}, scope : Scopes \union {"none"},
                           consent : Authorizations \union {0}]
            /\ after.scope = was.scope /\ after.consent = request[c].consent
        BY <4>2, <4>3 DEF HandoffStates
      <4> QED
        BY <4>1, <4>2, <4>4
    <3> HIDE DEF row, h
    <3> QED
      BY <1>4, <3>1, <3>2, <3>3 DEF Fits
  <2> QED
    BY <1>10, <2>1, <2>2 DEF RecordConsent
<1>11. ASSUME NEW c \in Clerks, TransferHandoff(c) PROVE \E next : Serves(c, next)
  <2>1. CASE \E h \in Handoffs :
               /\ handoff[h].state = "consented"
               /\ Begins(c, [op |-> "check", on |-> h, consent |-> handoff[h].consent,
                             dead |-> Dead])
               /\ UNCHANGED crossRows
    <3>1. PICK h \in Handoffs :
               /\ handoff[h].state = "consented"
               /\ Begins(c, [op |-> "check", on |-> h, consent |-> handoff[h].consent,
                             dead |-> Dead])
               /\ UNCHANGED crossRows
      BY <2>1
    <3>2. CrossRequestOK([op |-> "check", on |-> h, consent |-> handoff[h].consent,
                          dead |-> Dead])
      BY <3>1 DEF CrossRequestOK, CrossRowsOK, Transfers, Fits, Dead
    <3> QED
      BY <1>3, <3>1, <3>2, DeskTurns
  <2>2. CASE Doing(c, "check")
    <3> DEFINE next == [request[c] EXCEPT !.op = "transfer"]
    <3>1. CASE authorization[request[c].consent].state = "live"
      <4>1. GoesOn(c, next) /\ UNCHANGED crossRows
        BY <1>11, <2>2, <3>1 DEF TransferHandoff, Begins, Doing
      <4>2. /\ next \in Transfers
            /\ next.op = "transfer" /\ next.on = request[c].on
            /\ next.consent = request[c].consent /\ next.dead = request[c].dead
        BY <1>2, <2>2 DEF Doing, CrossRequestOK, Transfers
      <4>3. CrossRequestOK(next)
        <5> HIDE DEF next
        <5> QED
          BY <1>2, <2>2, <3>1, <4>2 DEF CrossRequestOK, Doing, Dead
      <4> QED
        BY <1>3, <4>1, <4>3, DeskTurns
    <3>2. CASE authorization[request[c].consent].state # "live"
      BY <1>1, <1>3, <1>11, <2>2, <3>2, DeskTurns DEF TransferHandoff, Begins, Doing
    <3> QED
      BY <3>1, <3>2
  <2>3. CASE Doing(c, "transfer")
    <3> DEFINE h == request[c].on
               row == [handoff[h] EXCEPT !.state = "transferred"]
    <3>1. Becomes(c, h, row)
      BY <1>11, <2>3 DEF TransferHandoff, Begins, Doing
    <3>2. h \in Handoffs
      BY <1>2, <2>3 DEF CrossRequestOK, Doing
    <3>3. /\ row \in [state : HandoffStates \ {"none"}, scope : Scopes \union {"none"},
                      consent : Authorizations \union {0}]
          /\ row.scope = handoff[h].scope /\ row.state = "transferred"
      BY <3>2 DEF CrossRowsOK, HandoffStates
    <3> HIDE DEF row, h
    <3> QED
      BY <1>4, <3>1, <3>2, <3>3
  <2> QED
    BY <1>11, <2>1, <2>2, <2>3 DEF TransferHandoff
<1>12. ASSUME NEW c \in Clerks, DeclineHandoff(c) PROVE \E next : Serves(c, next)
  <2>1. PICK h \in Handoffs :
          /\ handoff[h] # NoHandoff /\ Begins(c, AtRest)
          /\ handoff' = [handoff EXCEPT ![h].state = "declined"]
          /\ UNCHANGED <<authorization, opportunity>>
    BY <1>12 DEF DeclineHandoff
  <2>2. /\ handoff' \in [Handoffs -> [state : HandoffStates, scope : Scopes \union {"none"},
                                      consent : Authorizations \union {0}]]
        /\ \A g \in Handoffs : /\ handoff'[g].scope = handoff[g].scope
                               /\ handoff'[g].consent = handoff[g].consent
                               /\ handoff'[g].state = IF g = h THEN "declined" ELSE handoff[g].state
    BY <2>1 DEF CrossRowsOK, HandoffStates
  <2> QED
    BY <1>1, <2>1, <2>2, DeskTurns DEF CrossRowsOK, CrossSettles, Fits, Dead
<1>13. ASSUME NEW c \in Clerks, DetectOpportunity(c) PROVE \E next : Serves(c, next)
  <2>1. PICK s \in Scopes : /\ opportunity.state = "none" /\ Begins(c, AtRest)
                            /\ opportunity' = [state |-> "detected", scope |-> s]
                            /\ UNCHANGED <<authorization, handoff>>
    BY <1>13 DEF DetectOpportunity
  <2>2. opportunity' \in [state : OpportunityStates, scope : Scopes \union {"none"}]
    BY <2>1 DEF OpportunityStates
  <2> QED
    BY <1>1, <2>1, <2>2, DeskTurns DEF CrossRowsOK, CrossSettles, Fits, Dead
<1>14. ASSUME NEW c \in Clerks, RecordGardnerDecision(c) PROVE \E next : Serves(c, next)
  <2>1. CASE \E as \in {"gardner_approved", "gardner_declined"} :
               Begins(c, [op |-> "decide", as |-> as]) /\ UNCHANGED crossRows
    BY <1>3, <2>1, DeskTurns DEF CrossRequestOK
  <2>2. CASE Doing(c, "decide")
    <3>1. Moves(c, request[c].as)
      BY <1>14, <2>2 DEF RecordGardnerDecision, Begins, Doing
    <3>2. request[c].as \in OpportunityStates \ {"none"}
      BY <1>2, <2>2 DEF CrossRequestOK, Doing, OpportunityStates
    <3> QED
      BY <1>5, <3>1, <3>2
  <2> QED
    BY <1>14, <2>1, <2>2 DEF RecordGardnerDecision
<1>15. ASSUME NEW c \in Clerks, Route(c) PROVE \E next : Serves(c, next)
  <2>1. CASE /\ opportunity.state = "gardner_approved"
             /\ Begins(c, [op |-> "may route", dead |-> Dead]) /\ UNCHANGED crossRows
    <3>1. CrossRequestOK([op |-> "may route", dead |-> Dead])
      BY <2>1 DEF CrossRequestOK, Routes, Dead
    <3> QED
      BY <1>3, <2>1, <3>1, DeskTurns
  <2>2. CASE Doing(c, "may route")
    <3> DEFINE next == [request[c] EXCEPT !.op = "route"]
    <3>1. CASE LiveFor(opportunity.scope) # {}
      <4>1. GoesOn(c, next) /\ UNCHANGED crossRows
        BY <1>15, <2>2, <3>1 DEF Route, Begins, Doing
      <4>2. next \in Routes /\ next.op = "route" /\ next.dead = request[c].dead
        BY <1>2, <2>2 DEF Doing, CrossRequestOK, Routes
      <4>3. PICK a \in Authorizations :
              authorization[a] = [state |-> "live", scope |-> opportunity.scope]
        BY <3>1 DEF LiveFor
      <4>4. a \notin Dead /\ authorization[a].state # "none"
            /\ authorization[a].scope = opportunity.scope
        BY <4>3 DEF Dead
      <4>5. CrossRequestOK(next)
        <5> HIDE DEF next
        <5> QED
          BY <1>2, <2>2, <4>2, <4>4 DEF CrossRequestOK, Doing
      <4> QED
        BY <1>3, <4>1, <4>5, DeskTurns
    <3>2. CASE LiveFor(opportunity.scope) = {}
      BY <1>1, <1>3, <1>15, <2>2, <3>2, DeskTurns DEF Route, Begins, Doing
    <3> QED
      BY <3>1, <3>2
  <2>3. CASE Doing(c, "route")
    BY <1>5, <1>15, <2>3 DEF Route, Begins, Doing, OpportunityStates
  <2> QED
    BY <1>15, <2>1, <2>2, <2>3 DEF Route
<1>16. ASSUME NEW c \in Clerks, DismissOpportunity(c) PROVE \E next : Serves(c, next)
  <2>1. CASE Begins(c, [op |-> "dismiss"]) /\ UNCHANGED crossRows
    BY <1>3, <2>1, DeskTurns DEF CrossRequestOK
  <2>2. CASE Doing(c, "dismiss")
    BY <1>5, <1>16, <2>2 DEF DismissOpportunity, Begins, Doing, OpportunityStates
  <2> QED
    BY <1>16, <2>1, <2>2 DEF DismissOpportunity
<1>17. ASSUME NEW c \in Clerks, ClerkDies(c) /\ UNCHANGED crossRows
       PROVE  \E next : Serves(c, next)
  BY <1>1, <1>3, <1>17, DeskTurns
<1>18. ASSUME Expire PROVE RequestsOK' /\ CrossRowsOK' /\ CrossRequestsOK'
  <2>1. PICK a \in Authorizations :
          /\ authorization[a].state = "live"
          /\ authorization' = [authorization EXCEPT ![a].state = "expired"]
          /\ UNCHANGED <<handoff, opportunity, deskVars>>
    BY <1>18 DEF Expire
  <2> DEFINE row == [authorization[a] EXCEPT !.state = "expired"]
  <2>2. /\ row \in [state : ConsentStates \ {"none"}, scope : Scopes \union {"none"}]
        /\ row.state = "expired" /\ row.scope = authorization[a].scope
    BY DEF CrossRowsOK, ConsentStates
  <2>3. authorization' = [authorization EXCEPT ![a] = row]
    BY <2>1
  <2> HIDE DEF row
  <2>4. CrossRowsOK' /\ CrossSettles /\ request' = request
    BY <1>6, <2>1, <2>2, <2>3 DEF deskVars
  <2>5. \A c \in Clerks : CrossRequestOK(request[c])'
    BY <1>2, <2>4, CrossRequestStands
  <2> QED
    BY <2>4, <2>5, RequestsStay DEF CrossRequestsOK
<1>19. CASE Expire
  BY <1>18, <1>19
<1>20. CASE ~Expire
  <2>1. PICK c, next : c \in Clerks /\ Serves(c, next)
    BY <1>7, <1>8, <1>9, <1>10, <1>11, <1>12, <1>13, <1>14, <1>15, <1>16, <1>17, <1>20
       DEF CrossNext
  <2> QED
    BY <2>1, CrossRequestsKept
<1> QED
  BY <1>19, <1>20

\* A revocation takes effect at once, and a transfer is of the words that were
\* consented to (recordConsent, transferHandoff, route).
LEMMA RevocationStops ==
    ASSUME CrossRequestsOK
    PROVE  \A c \in Clerks :
             /\ Doing(c, "transfer") =>
                   /\ request[c].consent \notin request[c].dead
                   /\ authorization[request[c].consent].scope = handoff[request[c].on].scope
             /\ Doing(c, "route") =>
                   \E a \in Authorizations \ request[c].dead :
                       authorization[a].scope = opportunity.scope
BY DEF CrossRequestsOK, CrossRequestOK, Doing, Fits

-----------------------------------------------------------------------------
(***************************************************************************)
(* A lead.  What a conversion is about to record, it has made.             *)
(***************************************************************************)
Stages == {"new_lead", "qualified", "blueprint_delivered", "review_call_scheduled",
           "converted", "closed_lost"}
LeadRows == [stage : Stages, qualification : {"unqualified", "qualified", "disqualified"},
             blueprint : BOOLEAN, touched : Nat, referrer : Referrers \union {"nobody"}]

SalesRowsOK ==
    /\ lead \in LeadRows
    /\ clients \in Nat /\ clients <= MaxClients /\ engaged \subseteq 1..MaxClients /\ chases \in Nat
    /\ ConversionIsWhole

Conversions == [op : {"engage", "record"}, offered : BOOLEAN, client : Nat]

SalesRequestOK(r) ==
    /\ r.op = "qualify" => r.as \in {"qualified", "disqualified"} /\ r.stage \in Stages
    /\ r.op = "activity" => r.touched \in Nat
    /\ r.op = "create client" => r.offered \in BOOLEAN
    /\ r.op \in {"engage", "record"} => r \in Conversions /\ r.client \in 1..clients
    /\ r.op = "record" => (r.offered => r.client \in engaged)

SalesRequestsOK == \A c \in Clerks : SalesRequestOK(request[c])

LEMMA SalesNumbers == MaxClients \in Nat
BY SalesAssumption

LEMMA SalesInitOK ==
    ASSUME SalesInit, request = [c \in Clerks |-> AtRest]
    PROVE  SalesRowsOK /\ SalesRequestsOK
<1>1. lead \in LeadRows
  <2>1. /\ {"new_lead"} \subseteq Stages /\ {FALSE} \subseteq BOOLEAN /\ {0} \subseteq Nat
        /\ {"unqualified"} \subseteq {"unqualified", "qualified", "disqualified"}
    BY DEF Stages
  <2> QED
    BY <2>1, Zenon DEF SalesInit, LeadRows
<1>2. SalesRequestsOK
  BY DEF SalesRequestsOK, SalesRequestOK, AtRest
<1> QED
  BY <1>1, <1>2, SalesNumbers DEF SalesInit, SalesRowsOK, ConversionIsWhole, Undecided

LEMMA SalesTypes ==
    ASSUME SalesRowsOK
    PROVE  SalesTypeOK
BY SalesNumbers DEF SalesRowsOK, SalesTypeOK, LeadRows, Stages

\* Clients and engagements only come.
SalesGrows == clients' \in Nat /\ clients <= clients' /\ engaged \subseteq engaged'

LEMMA SalesRequestsKept ==
    ASSUME NEW c \in Clerks, NEW next, Turns(c, next), SalesRowsOK, SalesRequestsOK,
           SalesRequestOK(next)', SalesGrows
    PROVE  RequestsOK' /\ SalesRequestsOK'
<1>1. ASSUME NEW r, SalesRequestOK(r) PROVE SalesRequestOK(r)'
  <2>1. ASSUME r.op \in {"engage", "record"} PROVE r.client \in 1..clients'
    <3>1. r.client \in 1..clients
      BY <1>1, <2>1 DEF SalesRequestOK
    <3>2. clients \in Nat /\ clients' \in Nat /\ clients <= clients'
      BY DEF SalesGrows, SalesRowsOK
    <3> QED
      BY <3>1, <3>2
  <2>2. r.op = "record" => (r.offered => r.client \in engaged')
    BY <1>1 DEF SalesRequestOK, SalesGrows
  <2> QED
    BY <1>1, <2>1, <2>2 DEF SalesRequestOK
<1>2. ASSUME NEW d \in Clerks PROVE SalesRequestOK(request[d])'
  <2>1. CASE d = c
    BY <2>1, Zenon DEF Turns, SalesRequestOK
  <2>2. CASE d # c
    BY <1>1, <2>2 DEF Turns, SalesRequestsOK
  <2> QED
    BY <2>1, <2>2
<1> QED
  BY <1>2 DEF Turns, SalesRequestsOK

LEMMA SalesStep ==
    ASSUME RequestsOK, today \in Nat, SalesRowsOK, SalesRequestsOK, SalesNext
    PROVE  RequestsOK' /\ SalesRowsOK' /\ SalesRequestsOK'
<1> DEFINE Serves(c, next) == /\ Turns(c, next) /\ SalesRowsOK' /\ SalesRequestOK(next)'
                              /\ SalesGrows
           Looks(c, next) == /\ Turns(c, next) /\ UNCHANGED salesRows /\ SalesRequestOK(next)
           Writes(c, row) == /\ Turns(c, AtRest) /\ lead' = row
                             /\ UNCHANGED <<verdict, clients, engaged, chases>>
<1>1. SalesRequestOK(AtRest) /\ SalesRequestOK(AtRest)'
  BY DEF SalesRequestOK, AtRest
<1>2. ASSUME NEW c \in Clerks PROVE SalesRequestOK(request[c])
  BY DEF SalesRequestsOK
<1>3. ASSUME NEW c \in Clerks, NEW next, Looks(c, next) PROVE Serves(c, next)
  <2>1. UNCHANGED <<lead, verdict, clients, engaged, chases>> /\ SalesRequestOK(next)
    BY <1>3 DEF salesRows
  <2>2. SalesRowsOK' /\ SalesGrows
    BY <2>1 DEF SalesRowsOK, SalesGrows, ConversionIsWhole
  <2>3. SalesRequestOK(next)'
    BY <2>1 DEF SalesRequestOK
  <2> QED
    BY <1>3, <2>2, <2>3
<1>4. ASSUME NEW c \in Clerks, NEW row \in LeadRows, Writes(c, row) PROVE Serves(c, AtRest)
  BY <1>1, <1>4, SalesNumbers DEF SalesRowsOK, SalesGrows, ConversionIsWhole
\* The outcome is written by whoever is first.
<1>5. ASSUME NEW c \in Clerks, NEW v, NEW stage \in Stages, Records(c, v, stage),
             UNCHANGED <<clients, engaged, chases>>,
             v.how = "converted" => /\ v.client \in 1..clients
                                    /\ v.engaged => v.client \in engaged
      PROVE  Serves(c, AtRest)
  <2>1. Turns(c, AtRest)
    BY <1>5, DeskTurns DEF Records
  <2>2. CASE verdict = Undecided
    <3>1. lead' \in LeadRows
      BY <1>5, <2>2 DEF Records, SalesRowsOK, LeadRows
    <3>2. verdict' = v
      BY <1>5, <2>2 DEF Records
    <3> QED
      BY <1>1, <1>5, <2>1, <3>1, <3>2, SalesNumbers
         DEF SalesRowsOK, SalesGrows, ConversionIsWhole
  <2>3. CASE verdict # Undecided
    BY <1>1, <1>5, <2>1, <2>3, SalesNumbers
       DEF Records, SalesRowsOK, SalesGrows, ConversionIsWhole
  <2> QED
    BY <2>2, <2>3
<1>6. ASSUME NEW c \in Clerks, QualifyLead(c) PROVE \E next : Serves(c, next)
  <2>1. CASE \E answer \in {"qualified", "disqualified"} :
               /\ Begins(c, [op |-> "qualify", as |-> answer,
                             stage |-> IF answer = "qualified" THEN "qualified"
                                       ELSE lead.stage])
               /\ UNCHANGED salesRows
    <3>1. PICK answer \in {"qualified", "disqualified"} :
               /\ Begins(c, [op |-> "qualify", as |-> answer,
                             stage |-> IF answer = "qualified" THEN "qualified"
                                       ELSE lead.stage])
               /\ UNCHANGED salesRows
      BY <2>1
    <3>2. SalesRequestOK([op |-> "qualify", as |-> answer,
                          stage |-> IF answer = "qualified" THEN "qualified" ELSE lead.stage])
      BY DEF SalesRequestOK, SalesRowsOK, LeadRows, Stages
    <3> QED
      BY <1>3, <3>1, <3>2, DeskTurns
  <2>2. CASE Doing(c, "qualify")
    <3> DEFINE row == [lead EXCEPT !.qualification = request[c].as,
                                   !.stage = request[c].stage, !.touched = today]
    <3>1. Writes(c, row)
      BY <1>6, <2>2, DeskTurns DEF QualifyLead, Begins, Doing
    <3>2. row \in LeadRows
      BY <1>2, <2>2 DEF SalesRequestOK, SalesRowsOK, LeadRows, Doing
    <3> HIDE DEF row
    <3> QED
      BY <1>4, <3>1, <3>2
  <2> QED
    BY <1>6, <2>1, <2>2 DEF QualifyLead
<1>7. ASSUME NEW c \in Clerks, RecordBlueprintDelivered(c) PROVE \E next : Serves(c, next)
  <2>1. CASE Begins(c, [op |-> "blueprint"]) /\ UNCHANGED salesRows
    BY <1>3, <2>1, DeskTurns DEF SalesRequestOK
  <2>2. CASE Doing(c, "blueprint")
    <3> DEFINE row == [lead EXCEPT !.stage = "blueprint_delivered", !.blueprint = TRUE,
                                   !.touched = today]
    <3>1. Writes(c, row)
      BY <1>7, <2>2, DeskTurns DEF RecordBlueprintDelivered, Begins, Doing
    <3>2. row \in LeadRows
      BY DEF SalesRowsOK, LeadRows, Stages
    <3> HIDE DEF row
    <3> QED
      BY <1>4, <3>1, <3>2
  <2> QED
    BY <1>7, <2>1, <2>2 DEF RecordBlueprintDelivered
<1>8. ASSUME NEW c \in Clerks, ScheduleReviewCall(c) PROVE \E next : Serves(c, next)
  <2> DEFINE row == [lead EXCEPT !.stage = "review_call_scheduled", !.touched = today]
  <2>1. Writes(c, row)
    BY <1>8, DeskTurns DEF ScheduleReviewCall
  <2>2. row \in LeadRows
    BY DEF SalesRowsOK, LeadRows, Stages
  <2> HIDE DEF row
  <2> QED
    BY <1>4, <2>1, <2>2
<1>9. ASSUME NEW c \in Clerks, RecordActivity(c) PROVE \E next : Serves(c, next)
  <2>1. CASE Begins(c, [op |-> "activity", touched |-> lead.touched]) /\ UNCHANGED salesRows
    <3>1. SalesRequestOK([op |-> "activity", touched |-> lead.touched])
      BY DEF SalesRequestOK, SalesRowsOK, LeadRows
    <3> QED
      BY <1>3, <2>1, <3>1, DeskTurns
  <2>2. CASE Doing(c, "activity")
    <3>1. PICK on \in 0..today :
             lead' = [lead EXCEPT !.touched = IF on > request[c].touched THEN on
                                              ELSE request[c].touched]
      BY <1>9, <2>2 DEF RecordActivity, Begins, Doing
    <3> DEFINE row == [lead EXCEPT !.touched = IF on > request[c].touched THEN on
                                               ELSE request[c].touched]
    <3>2. Writes(c, row)
      BY <1>9, <2>2, <3>1, DeskTurns DEF RecordActivity, Begins, Doing
    <3> DEFINE later == IF on > request[c].touched THEN on ELSE request[c].touched
    <3>3. request[c].touched \in Nat /\ on \in Nat
      <4>1. request[c].op = "activity" /\ SalesRequestOK(request[c])
        BY <1>2, <2>2 DEF Doing
      <4>2. request[c].touched \in Nat
        BY <4>1 DEF SalesRequestOK
      <4>3. on \in Nat
        OBVIOUS
      <4> QED
        BY <4>2, <4>3
    <3>4. later \in Nat
      BY <3>3
    <3> HIDE DEF later
    <3>5. [lead EXCEPT !.touched = later] \in LeadRows
      BY <3>4 DEF SalesRowsOK, LeadRows
    <3>6. row \in LeadRows
      BY <3>5 DEF later
    <3> HIDE DEF row
    <3> QED
      BY <1>4, <3>2, <3>6
  <2> QED
    BY <1>9, <2>1, <2>2 DEF RecordActivity
<1>10. ASSUME NEW c \in Clerks, ConvertLead(c) PROVE \E next : Serves(c, next)
  <2>1. CASE (\E offered \in BOOLEAN : Begins(c, [op |-> "create client", offered |-> offered]))
             /\ UNCHANGED salesRows
    <3>1. PICK offered \in BOOLEAN : Begins(c, [op |-> "create client", offered |-> offered])
      BY <2>1
    <3>2. SalesRequestOK([op |-> "create client", offered |-> offered])
      BY DEF SalesRequestOK
    <3> QED
      BY <1>3, <2>1, <3>1, <3>2, DeskTurns
  <2>2. CASE Doing(c, "create client")
    <3>1. request[c].offered \in BOOLEAN /\ clients \in Nat
      BY <1>2, <2>2 DEF SalesRequestOK, Doing, SalesRowsOK
    <3>2. PICK next : next = [op |-> IF request[c].offered THEN "engage" ELSE "record",
                              offered |-> request[c].offered, client |-> clients + 1]
      OBVIOUS
    <3>3. /\ GoesOn(c, next) /\ clients' = clients + 1 /\ clients < MaxClients
          /\ UNCHANGED <<lead, verdict, engaged, chases>>
      BY <1>10, <2>2, <3>2 DEF ConvertLead, Begins, Doing
    <3>4. next \in Conversions /\ next.client = clients + 1
          /\ next.op = (IF next.offered THEN "engage" ELSE "record")
      BY <3>1, <3>2 DEF Conversions
    <3>5. next.client \in 1..clients'
      BY <3>1, <3>3, <3>4
    <3>6. SalesRequestOK(next)'
      BY <3>4, <3>5 DEF SalesRequestOK, Conversions
    <3>7. SalesRowsOK' /\ SalesGrows
      BY <3>1, <3>3, SalesNumbers DEF SalesRowsOK, SalesGrows, ConversionIsWhole
    <3> QED
      BY <3>3, <3>6, <3>7, DeskTurns
  <2>3. CASE Doing(c, "engage")
    <3>1. request[c] \in Conversions /\ request[c].client \in 1..clients
      BY <1>2, <2>3 DEF SalesRequestOK, Doing
    <3>2. PICK next : next = [request[c] EXCEPT !.op = "record"]
      OBVIOUS
    <3>3. /\ GoesOn(c, next) /\ engaged' = engaged \union {request[c].client}
          /\ UNCHANGED <<lead, verdict, clients, chases>>
      BY <1>10, <2>3, <3>2 DEF ConvertLead, Begins, Doing
    <3>4. next \in Conversions /\ next.client = request[c].client /\ next.op = "record"
      BY <3>1, <3>2 DEF Conversions
    <3>5. SalesRequestOK(next)'
      BY <3>1, <3>3, <3>4 DEF SalesRequestOK
    <3>6. request[c].client \in 1..MaxClients
      BY <3>1, SalesNumbers DEF SalesRowsOK
    <3>7. SalesRowsOK' /\ SalesGrows
      BY <3>1, <3>3, <3>6 DEF SalesRowsOK, SalesGrows, ConversionIsWhole
    <3> QED
      BY <3>3, <3>5, <3>7, DeskTurns
  <2>4. CASE Doing(c, "record")
    <3> DEFINE v == [how |-> "converted", client |-> request[c].client,
                     engaged |-> request[c].offered]
    <3>1. Records(c, v, "converted") /\ UNCHANGED <<clients, engaged, chases>>
      BY <1>10, <2>4 DEF ConvertLead, Begins, Doing
    <3>2. v.client \in 1..clients /\ (v.engaged => v.client \in engaged)
      BY <1>2, <2>4 DEF SalesRequestOK, Doing
    <3> HIDE DEF v
    <3> QED
      BY <1>5, <3>1, <3>2 DEF Stages
  <2> QED
    BY <1>10, <2>1, <2>2, <2>3, <2>4 DEF ConvertLead
<1>11. ASSUME NEW c \in Clerks, CloseLead(c) PROVE \E next : Serves(c, next)
  <2>1. CASE Begins(c, [op |-> "close"]) /\ UNCHANGED salesRows
    BY <1>3, <2>1, DeskTurns DEF SalesRequestOK
  <2>2. CASE Doing(c, "close")
    <3> DEFINE v == [Undecided EXCEPT !.how = "lost"]
    <3>1. Records(c, v, "closed_lost") /\ UNCHANGED <<clients, engaged, chases>>
      BY <1>11, <2>2 DEF CloseLead, Begins, Doing
    <3>2. v.how = "lost"
      BY DEF Undecided
    <3> HIDE DEF v
    <3> QED
      BY <1>5, <3>1, <3>2 DEF Stages
  <2> QED
    BY <1>11, <2>1, <2>2 DEF CloseLead
<1>12. ASSUME NEW c \in Clerks, CorrectAttribution(c) PROVE \E next : Serves(c, next)
  BY <1>1, <1>12, DeskTurns, SalesNumbers
     DEF CorrectAttribution, SalesRowsOK, SalesGrows, ConversionIsWhole
<1>13. ASSUME NEW c \in Clerks, EscalateStaleLeads(c) PROVE \E next : Serves(c, next)
  <2>1. CASE Begins(c, [op |-> "raise"]) /\ UNCHANGED salesRows
    BY <1>3, <2>1, DeskTurns DEF SalesRequestOK
  <2>2. CASE Doing(c, "raise")
    <3>1. /\ Turns(c, AtRest) /\ chases' = chases + 1
          /\ UNCHANGED <<lead, verdict, clients, engaged>>
      BY <1>13, <2>2, DeskTurns DEF EscalateStaleLeads, Begins, Doing
    <3>2. SalesRowsOK' /\ SalesGrows
      BY <3>1 DEF SalesRowsOK, SalesGrows, ConversionIsWhole
    <3> QED
      BY <1>1, <3>1, <3>2
  <2> QED
    BY <1>13, <2>1, <2>2 DEF EscalateStaleLeads
<1>14. ASSUME NEW c \in Clerks, ResolveChase(c) PROVE \E next : Serves(c, next)
  BY <1>1, <1>14, DeskTurns, SalesNumbers
     DEF ResolveChase, SalesRowsOK, SalesGrows, ConversionIsWhole
<1>15. ASSUME NEW c \in Clerks, ClerkDies(c) /\ UNCHANGED salesRows
       PROVE  \E next : Serves(c, next)
  BY <1>1, <1>3, <1>15, DeskTurns
<1>16. CASE DayPasses /\ UNCHANGED salesRows
  <2>1. request' = request /\ UNCHANGED salesRows
    BY <1>16 DEF DayPasses
  <2> QED
    BY <2>1, RequestsStay
       DEF SalesRowsOK, SalesRequestsOK, SalesRequestOK, salesRows, ConversionIsWhole
<1>17. CASE ~(DayPasses /\ UNCHANGED salesRows)
  <2>1. PICK c, next : c \in Clerks /\ Serves(c, next)
    BY <1>6, <1>7, <1>8, <1>9, <1>10, <1>11, <1>12, <1>13, <1>14, <1>15, <1>17 DEF SalesNext
  <2> QED
    BY <2>1, SalesRequestsKept
<1> QED
  BY <1>16, <1>17

\* Whoever decides second writes nothing.
LEMMA DecisionStands ==
    ASSUME SalesNext
    PROVE  verdict # Undecided => verdict' = verdict
BY DEF SalesNext, QualifyLead, RecordBlueprintDelivered, ScheduleReviewCall, RecordActivity,
       ConvertLead, CloseLead, CorrectAttribution, EscalateStaleLeads, ResolveChase, Records,
       salesRows

-----------------------------------------------------------------------------
(***************************************************************************)
(* A partner.  A completion is of what its version teaches, whoever it was *)
(* carried over by; and what was found before a gate was entered can only  *)
(* be resolved while the gate is passed.                                   *)
(***************************************************************************)
PartnerStates == {"applied", "onboarding", "active", "suspended", "terminated"}
FindingStates == {"none", "serious", "critical", "resolved"}
LessonStates  == {"none", "live", "superseded"}

\* The completion of v, if any, is one day on which its material was trained.
CompletionIsTaught(v) ==
    done[v] # {} =>
        /\ lesson[v].status # "none"
        /\ \E t \in taught : done[v] = {t.on} /\ t.on \in Nat /\ t.material = lesson[v].material

ConductRowsOK ==
    /\ partner \in [status : PartnerStates, recorded : SUBSET Qualifications]
    /\ finding \in [Findings -> FindingStates]
    /\ lesson \in [Lessons -> [status : LessonStates, material : Nat]]
    /\ done \in [Lessons -> SUBSET Nat]
    /\ \A v \in Lessons : CompletionIsTaught(v)

\* Of these findings, none is critical and few are serious.
Clear(fs) == /\ {f \in fs : finding[f] = "critical"} = {}
             /\ Cardinality({f \in fs : finding[f] = "serious"}) < SeriousFindings

Gates == [op : {"assess", "certify"}, known : SUBSET Findings]

ConductRequestOK(r) ==
    /\ r.op = "qualify" => r.with \in Qualifications
    /\ r.op = "find" => r.severity \in {"serious", "critical"}
    /\ r.op = "resolve" => r.on \in Findings
    /\ r.op = "teach" => /\ r.after \subseteq Lessons
                         /\ \A v \in r.after : lesson[v].status # "none"
                         /\ r.kind = "editorial" => r.after # {}
    /\ r.op \in {"assess", "certify"} => r \in Gates /\ \A f \in r.known : finding[f] # "none"
    /\ r.op = "certify" => Clear(r.known)

ConductRequestsOK == \A c \in Clerks : ConductRequestOK(request[c])

\* What no step undoes.
ConductSettles ==
    /\ \A f \in Findings : finding[f] # "none" => finding'[f] \in {finding[f], "resolved"}
    /\ \A v \in Lessons : lesson[v].status # "none" =>
          lesson'[v].status # "none" /\ lesson'[v].material = lesson[v].material

LEMMA ConductNumbers ==
    /\ Lessons \subseteq Nat \ {0} /\ IsFiniteSet(Lessons) /\ IsFiniteSet(Findings)
    /\ Cadence \in Nat /\ SeriousFindings \in Nat \ {0}
BY ConductAssumption, FS_CardinalityType

LEMMA ConductInitOK ==
    ASSUME PartnerConductInit, request = [c \in Clerks |-> AtRest]
    PROVE  ConductRowsOK /\ ConductRequestsOK
<1>1. ConductRowsOK
  BY DEF PartnerConductInit, ConductRowsOK, PartnerStates, FindingStates, LessonStates,
         CompletionIsTaught
<1>2. ConductRequestsOK
  BY DEF ConductRequestsOK, ConductRequestOK, AtRest
<1> QED
  BY <1>1, <1>2

LEMMA ConductTypes ==
    ASSUME ConductRowsOK
    PROVE  PartnerConductTypeOK
<1>1. ASSUME NEW v \in Lessons PROVE Cardinality(done[v]) <= 1
  <2>1. CASE done[v] = {}
    BY <2>1, FS_EmptySet
  <2>2. CASE done[v] # {}
    <3>1. PICK d : done[v] = {d}
      BY <2>2 DEF ConductRowsOK, CompletionIsTaught
    <3>2. Cardinality({d}) = 1
      BY FS_Singleton
    <3> QED
      BY <3>1, <3>2
  <2> QED
    BY <2>1, <2>2
<1> QED
  BY <1>1 DEF ConductRowsOK, PartnerConductTypeOK, PartnerStates, FindingStates

\* A finding or a resolution elsewhere leaves a clear gate clear.
LEMMA ClearStays ==
    ASSUME NEW fs \in SUBSET Findings, \A f \in fs : finding[f] # "none", Clear(fs),
           ConductSettles
    PROVE  Clear(fs)'
<1> DEFINE few == {f \in fs : finding[f] = "serious"}
           fewer == {f \in fs : finding'[f] = "serious"}
<1>1. fewer \subseteq few
  BY DEF ConductSettles
<1>2. IsFiniteSet(few)
  BY ConductNumbers, FS_Subset
<1>3. Cardinality(fewer) <= Cardinality(few) /\ Cardinality(few) \in Nat
      /\ Cardinality(fewer) \in Nat
  BY <1>1, <1>2, FS_Subset, FS_CardinalityType
<1>4. Cardinality(few) < SeriousFindings
  BY DEF Clear
<1>5. Cardinality(fewer) < SeriousFindings
  BY <1>3, <1>4, ConductNumbers
<1>6. {f \in fs : finding'[f] = "critical"} = {}
  BY DEF Clear, ConductSettles
<1> QED
  BY <1>5, <1>6 DEF Clear

LEMMA ConductRequestsKept ==
    ASSUME NEW c \in Clerks, NEW next, Turns(c, next), ConductRequestsOK,
           ConductRequestOK(next)', ConductSettles
    PROVE  RequestsOK' /\ ConductRequestsOK'
<1>1. ASSUME NEW r, ConductRequestOK(r) PROVE ConductRequestOK(r)'
  <2>1. r.op = "certify" => Clear(r.known)'
    <3>1. SUFFICES ASSUME r.op = "certify" PROVE Clear(r.known)'
      OBVIOUS
    <3>2. r.known \in SUBSET Findings /\ (\A f \in r.known : finding[f] # "none")
          /\ Clear(r.known)
      BY <1>1, <3>1 DEF ConductRequestOK, Gates
    <3> QED
      BY <3>2, ClearStays
  <2>2. r.op \in {"assess", "certify"} => \A f \in r.known : finding'[f] # "none"
    BY <1>1 DEF ConductRequestOK, Gates, ConductSettles
  <2>3. r.op = "teach" => \A v \in r.after : lesson'[v].status # "none"
    BY <1>1 DEF ConductRequestOK, ConductSettles
  <2> QED
    BY <1>1, <2>1, <2>2, <2>3 DEF ConductRequestOK
<1>2. ASSUME NEW d \in Clerks PROVE ConductRequestOK(request[d])'
  <2>1. CASE d = c
    BY <2>1, Zenon DEF Turns, ConductRequestOK, Clear
  <2>2. CASE d # c
    BY <1>1, <2>2 DEF Turns, ConductRequestsOK
  <2> QED
    BY <2>1, <2>2
<1> QED
  BY <1>2 DEF Turns, ConductRequestsOK

\* The gate's question, asked of findings that are open.
LEMMA ClearIsNoReview ==
    ASSUME NEW fs \in SUBSET Findings
    PROVE  /\ Clear(fs) => ~UnderReview(fs \intersect OpenFindings)
           /\ ~UnderReview(OpenFindings) => Clear(fs)
<1> DEFINE open == fs \intersect OpenFindings
           With(set, severity) == {f \in set : finding[f] = severity}
<1>1. \A set \in SUBSET Findings : \A severity :
         IsFiniteSet(With(set, severity)) /\ Cardinality(With(set, severity)) \in Nat
  <2> TAKE set \in SUBSET Findings
  <2> TAKE severity
  <2>1. IsFiniteSet(With(set, severity))
    BY ConductNumbers, FS_Subset
  <2> QED
    BY <2>1, FS_CardinalityType
<1>2. With(open, "critical") = With(fs, "critical") /\ With(open, "serious") = With(fs, "serious")
  BY DEF OpenFindings
<1>3. ASSUME Clear(fs) PROVE ~UnderReview(open)
  <2>1. With(open, "critical") = {} /\ Cardinality(With(open, "serious")) < SeriousFindings
    BY <1>2, <1>3 DEF Clear
  <2>2. Cardinality(With(open, "critical")) = 0
    BY <2>1, FS_EmptySet
  <2>3. open \in SUBSET Findings
    OBVIOUS
  <2>4. Standing(open) = "good_standing"
    <3> DEFINE few == Cardinality(With(open, "serious"))
    <3>1. few \in Nat /\ few < SeriousFindings
      BY <1>1, <2>1, <2>3
    <3> HIDE DEF few
    <3>2. ~(few >= SeriousFindings)
      BY <3>1, ConductNumbers
    <3> USE DEF few
    <3> QED
      BY <2>2, <3>2 DEF Standing
  <2> QED
    BY <2>4 DEF UnderReview
<1>4. ASSUME ~UnderReview(OpenFindings) PROVE Clear(fs)
  <2> DEFINE none == Cardinality(With(OpenFindings, "critical"))
             few == Cardinality(With(OpenFindings, "serious"))
             fewer == Cardinality(With(fs, "serious"))
  <2>1. OpenFindings \in SUBSET Findings
    BY DEF OpenFindings
  <2>2. none \in Nat /\ few \in Nat /\ fewer \in Nat /\ IsFiniteSet(With(OpenFindings, "critical"))
        /\ IsFiniteSet(With(OpenFindings, "serious"))
    BY <1>1, <2>1
  <2>3. ~(none > 0) /\ (none = 0 => ~(few >= SeriousFindings))
    BY <1>4 DEF UnderReview, Standing
  <2>4. fewer <= few
    <3>1. With(fs, "serious") \subseteq With(OpenFindings, "serious")
      BY DEF OpenFindings
    <3> QED
      BY <2>2, <3>1, FS_Subset
  <2>5. none = 0 => With(OpenFindings, "critical") = {}
    BY <2>2, FS_EmptySet
  <2>6. With(OpenFindings, "critical") = {} => With(fs, "critical") = {}
    BY DEF OpenFindings
  <2>7. With(fs, "critical") = {} /\ fewer < SeriousFindings => Clear(fs)
    BY DEF Clear
  <2> HIDE DEF none, few, fewer, With
  <2>8. none = 0 /\ few < SeriousFindings
    BY <2>2, <2>3, ConductNumbers
  <2>9. fewer < SeriousFindings
    BY <2>2, <2>4, <2>8, ConductNumbers
  <2> QED
    BY <2>5, <2>6, <2>7, <2>8, <2>9
<1> QED
  BY <1>3, <1>4

\* A certified partner was taught what is taught now (publishModule,
\* recordCompletion, deriveStanding).
LEMMA CertifiedWereTaught ==
    ASSUME ConductRowsOK, today \in Nat
    PROVE  CertifiedIsTaught
<1> SUFFICES ASSUME CertificationStanding = "certified", NEW v \in Live
             PROVE  \E t \in taught : t.material = lesson[v].material /\ today <= t.on + Cadence
  BY DEF CertifiedIsTaught
<1>1. v \in Lessons
  BY DEF Live
<1>2. /\ done[v] # {}
      /\ ~(today > Max(done[v]) + Cadence)
  BY DEF CertificationStanding
<1>3. PICK t \in taught : done[v] = {t.on} /\ t.on \in Nat /\ t.material = lesson[v].material
  BY <1>1, <1>2 DEF ConductRowsOK, CompletionIsTaught
<1>4. Max({t.on}) = t.on
  <2>1. IsFiniteSet({t.on})
    BY FS_Singleton
  <2> QED
    BY <1>3, <2>1, MaxIsGreatest
<1> QED
  BY <1>2, <1>3, <1>4, ConductNumbers

LEMMA ConductStep ==
    ASSUME RequestsOK, today \in Nat, ConductRowsOK, ConductRequestsOK, PartnerConductNext
    PROVE  RequestsOK' /\ ConductRowsOK' /\ ConductRequestsOK'
<1> DEFINE Serves(c, next) == /\ Turns(c, next) /\ ConductRowsOK' /\ ConductRequestOK(next)'
                              /\ ConductSettles
           Looks(c, next) == /\ Turns(c, next) /\ UNCHANGED conductRows /\ ConductRequestOK(next)
<1>1. ConductRequestOK(AtRest) /\ ConductRequestOK(AtRest)'
  BY DEF ConductRequestOK, AtRest
<1>2. ASSUME NEW c \in Clerks PROVE ConductRequestOK(request[c])
  BY DEF ConductRequestsOK
<1>3. ASSUME NEW c \in Clerks, NEW next, Looks(c, next) PROVE Serves(c, next)
  <2>1. UNCHANGED <<partner, finding, lesson, done, taught>> /\ ConductRequestOK(next)
    BY <1>3 DEF conductRows
  <2>2. ConductRowsOK' /\ ConductSettles
    BY <2>1 DEF ConductRowsOK, ConductSettles, CompletionIsTaught
  <2>3. ConductRequestOK(next)'
    BY <2>1 DEF ConductRequestOK, Clear
  <2> QED
    BY <1>3, <2>2, <2>3
\* Of the partner, the status and what is on record.
<1>4. ASSUME NEW c \in Clerks, Turns(c, AtRest), UNCHANGED <<finding, lesson, done, taught>>,
             partner' \in [status : PartnerStates, recorded : SUBSET Qualifications]
      PROVE  Serves(c, AtRest)
  BY <1>1, <1>4 DEF ConductRowsOK, ConductSettles, CompletionIsTaught
<1>5. ASSUME NEW c \in Clerks, NEW status \in PartnerStates, Sets(c, status)
      PROVE  Serves(c, AtRest)
  BY <1>4, <1>5, DeskTurns DEF Sets, ConductRowsOK
<1>6. ASSUME NEW c \in Clerks, RecordQualification(c) PROVE \E next : Serves(c, next)
  <2>1. CASE \E q \in Qualifications \ partner.recorded :
               /\ Begins(c, [op |-> "qualify", with |-> q, status |-> partner.status])
               /\ UNCHANGED conductRows
    <3>1. PICK q \in Qualifications :
               /\ Begins(c, [op |-> "qualify", with |-> q, status |-> partner.status])
               /\ UNCHANGED conductRows
      BY <2>1
    <3>2. ConductRequestOK([op |-> "qualify", with |-> q, status |-> partner.status])
      BY DEF ConductRequestOK
    <3> QED
      BY <1>3, <3>1, <3>2, DeskTurns
  <2>2. CASE Doing(c, "qualify")
    <3>1. request[c].with \in Qualifications
      BY <1>2, <2>2 DEF ConductRequestOK, Doing
    <3>2. /\ partner' = [status |-> IF request[c].status = "applied" THEN "onboarding"
                                    ELSE partner.status,
                         recorded |-> partner.recorded \union {request[c].with}]
          /\ Finishes(c) /\ UNCHANGED <<finding, lesson, done, taught>>
      BY <1>6, <2>2 DEF RecordQualification, Begins, Doing
    <3>3. partner' \in [status : PartnerStates, recorded : SUBSET Qualifications]
      BY <3>1, <3>2 DEF ConductRowsOK, PartnerStates
    <3> QED
      BY <1>4, <3>2, <3>3, DeskTurns
  <2> QED
    BY <1>6, <2>1, <2>2 DEF RecordQualification
<1>7. ASSUME NEW c \in Clerks, CompleteOnboarding(c) PROVE \E next : Serves(c, next)
  <2>1. CASE Begins(c, [op |-> "onboard"]) /\ UNCHANGED conductRows
    BY <1>3, <2>1, DeskTurns DEF ConductRequestOK
  <2>2. CASE Sets(c, "active")
    BY <1>5, <2>2 DEF PartnerStates
  <2> QED
    BY <1>7, <2>1, <2>2 DEF CompleteOnboarding
<1>8. ASSUME NEW c \in Clerks, SuspendPartner(c) PROVE \E next : Serves(c, next)
  <2>1. CASE Begins(c, [op |-> "suspend"]) /\ UNCHANGED conductRows
    BY <1>3, <2>1, DeskTurns DEF ConductRequestOK
  <2>2. CASE Sets(c, "suspended")
    BY <1>5, <2>2 DEF PartnerStates
  <2> QED
    BY <1>8, <2>1, <2>2 DEF SuspendPartner
<1>9. ASSUME NEW c \in Clerks, TerminatePartner(c) PROVE \E next : Serves(c, next)
  <2>1. CASE Begins(c, [op |-> "terminate"]) /\ UNCHANGED conductRows
    BY <1>3, <2>1, DeskTurns DEF ConductRequestOK
  <2>2. CASE Sets(c, "terminated")
    BY <1>5, <2>2 DEF PartnerStates
  <2> QED
    BY <1>9, <2>1, <2>2 DEF TerminatePartner
<1>10. ASSUME NEW c \in Clerks, RecordFinding(c) PROVE \E next : Serves(c, next)
  <2>1. CASE \E severity \in {"serious", "critical"} :
               /\ Begins(c, [op |-> "find", severity |-> severity, was |-> Engageable])
               /\ UNCHANGED conductRows
    <3>1. PICK severity \in {"serious", "critical"} :
               /\ Begins(c, [op |-> "find", severity |-> severity, was |-> Engageable])
               /\ UNCHANGED conductRows
      BY <2>1
    <3>2. ConductRequestOK([op |-> "find", severity |-> severity, was |-> Engageable])
      BY DEF ConductRequestOK
    <3> QED
      BY <1>3, <3>1, <3>2, DeskTurns
  <2>2. CASE Doing(c, "find")
    <3>1. request[c].severity \in {"serious", "critical"}
      BY <1>2, <2>2 DEF ConductRequestOK, Doing
    <3>2. PICK f \in Findings : /\ finding[f] = "none"
                                /\ finding' = [finding EXCEPT ![f] = request[c].severity]
      BY <1>10, <2>2 DEF RecordFinding, Begins, Doing
    <3>3. UNCHANGED <<partner, lesson, done, taught>>
      BY <1>10, <2>2 DEF RecordFinding, Begins, Doing
    <3>4. ConductRowsOK' /\ ConductSettles
      BY <3>1, <3>2, <3>3
         DEF ConductRowsOK, ConductSettles, CompletionIsTaught, FindingStates
    <3>5. PICK next : next \in {AtRest, [op |-> "suspend"]} /\ GoesOn(c, next)
      BY <1>10, <2>2 DEF RecordFinding, Begins, Doing, Finishes
    <3>6. ConductRequestOK(next)'
      BY <3>5 DEF ConductRequestOK, AtRest
    <3> QED
      BY <3>4, <3>5, <3>6, DeskTurns
  <2> QED
    BY <1>10, <2>1, <2>2 DEF RecordFinding
<1>11. ASSUME NEW c \in Clerks, ResolveFinding(c) PROVE \E next : Serves(c, next)
  <2>1. CASE \E f \in OpenFindings : Begins(c, [op |-> "resolve", on |-> f])
                                     /\ UNCHANGED conductRows
    <3>1. PICK f \in Findings : Begins(c, [op |-> "resolve", on |-> f])
                                /\ UNCHANGED conductRows
      BY <2>1 DEF OpenFindings
    <3>2. ConductRequestOK([op |-> "resolve", on |-> f])
      BY DEF ConductRequestOK
    <3> QED
      BY <1>3, <3>1, <3>2, DeskTurns
  <2>2. CASE Doing(c, "resolve")
    <3>1. request[c].on \in Findings
      BY <1>2, <2>2 DEF ConductRequestOK, Doing
    <3>2. /\ finding' = [finding EXCEPT ![request[c].on] = "resolved"]
          /\ Finishes(c) /\ UNCHANGED <<partner, lesson, done, taught>>
      BY <1>11, <2>2 DEF ResolveFinding, Begins, Doing
    <3>3. ConductRowsOK' /\ ConductSettles
      BY <3>1, <3>2 DEF ConductRowsOK, ConductSettles, CompletionIsTaught, FindingStates
    <3> QED
      BY <1>1, <3>2, <3>3, DeskTurns
  <2> QED
    BY <1>11, <2>1, <2>2 DEF ResolveFinding
<1>12. ASSUME NEW c \in Clerks, PublishModule(c) PROVE \E next : Serves(c, next)
  <2>1. CASE \E kind \in {"material", "editorial"} :
               /\ Live = {} => kind = "material"
               /\ Begins(c, [op |-> "teach", kind |-> kind, after |-> Live])
               /\ UNCHANGED conductRows
    <3>1. PICK kind \in {"material", "editorial"} :
               /\ Live = {} => kind = "material"
               /\ Begins(c, [op |-> "teach", kind |-> kind, after |-> Live])
               /\ UNCHANGED conductRows
      BY <2>1
    <3>2. Live \subseteq Lessons /\ \A v \in Live : lesson[v].status # "none"
      BY DEF Live
    <3>3. ConductRequestOK([op |-> "teach", kind |-> kind, after |-> Live])
      BY <3>1, <3>2 DEF ConductRequestOK
    <3> QED
      BY <1>3, <3>1, <3>3, DeskTurns
  <2>2. CASE Doing(c, "teach")
    <3> DEFINE after == request[c].after
               old == IF after = {} THEN 0 ELSE Max(after)
               new == old + 1
               kind == request[c].kind
               material == IF kind = "editorial" THEN lesson[old].material ELSE new
    <3>1. /\ after \subseteq Lessons
          /\ \A v \in after : lesson[v].status # "none"
          /\ kind = "editorial" => after # {}
      BY <1>2, <2>2 DEF ConductRequestOK, Doing
    <3>2. after # {} => old \in after
      <4>1. after \in SUBSET Nat /\ IsFiniteSet(after)
        BY <3>1, ConductNumbers, FS_Subset
      <4> QED
        BY <4>1, MaxIsGreatest
    <3>3. Finishes(c) /\ UNCHANGED <<partner, finding, taught>>
      BY <1>12, <2>2 DEF PublishModule, Begins, Doing
    <3>4. \/ UNCHANGED <<lesson, done>>
          \/ /\ new \in Lessons /\ lesson[new].status = "none"
             /\ lesson' = [v \in Lessons |->
                             IF v = new THEN [status |-> "live", material |-> material]
                             ELSE IF v = old THEN [lesson[v] EXCEPT !.status = "superseded"]
                             ELSE lesson[v]]
             /\ done' = IF kind = "editorial" THEN [done EXCEPT ![new] = done[old]] ELSE done
      BY <1>12, <2>2 DEF PublishModule, Begins, Doing, Carried
    <3> HIDE DEF after, kind
    <3>5. CASE UNCHANGED <<lesson, done>>
      BY <1>4, <3>3, <3>5, DeskTurns DEF ConductRowsOK
    <3>6. CASE /\ new \in Lessons /\ lesson[new].status = "none"
               /\ lesson' = [v \in Lessons |->
                               IF v = new THEN [status |-> "live", material |-> material]
                               ELSE IF v = old THEN [lesson[v] EXCEPT !.status = "superseded"]
                               ELSE lesson[v]]
               /\ done' = IF kind = "editorial" THEN [done EXCEPT ![new] = done[old]] ELSE done
      <4>1. old \in Nat
        <5>1. CASE after = {}
          BY <5>1
        <5>2. CASE after # {}
          <6>1. old \in after
            BY <3>2, <5>2
          <6> QED
            BY <3>1, <6>1, ConductNumbers
        <5> QED
          BY <5>1, <5>2
      <4>2. kind = "editorial" => old \in Lessons /\ lesson[old].status # "none"
        BY <3>1, <3>2
      <4>3. material \in Nat
        BY <4>1, <4>2 DEF ConductRowsOK
      <4> HIDE DEF old
      <4>4. old # new
        BY <4>1
      <4> HIDE DEF new, material
      <4>5. ConductSettles
        BY <3>3, <3>6, <4>4 DEF ConductSettles, ConductRowsOK
      <4>6. lesson' \in [Lessons -> [status : LessonStates, material : Nat]]
        BY <3>6, <4>3 DEF ConductRowsOK, LessonStates
      <4>7. done' \in [Lessons -> SUBSET Nat]
        BY <3>6, <4>2 DEF ConductRowsOK
      <4>8. ASSUME NEW v \in Lessons PROVE CompletionIsTaught(v)'
        <5>1. CASE v # new
          BY <3>3, <3>6, <5>1 DEF ConductRowsOK, CompletionIsTaught, LessonStates
        <5>2. CASE v = new /\ kind = "editorial"
          <6>1. /\ lesson'[v] = [status |-> "live", material |-> material]
                /\ done'[v] = done[old]
            BY <3>6, <5>2 DEF ConductRowsOK
          <6>2. material = lesson[old].material
            BY <5>2 DEF material
          <6>3. CompletionIsTaught(old)
            BY <4>2, <5>2 DEF ConductRowsOK
          <6> QED
            BY <3>3, <6>1, <6>2, <6>3 DEF CompletionIsTaught
        <5>3. CASE v = new /\ kind # "editorial"
          <6>1. done'[v] = done[v] /\ lesson[v].status = "none" /\ CompletionIsTaught(v)
            BY <3>6, <5>3 DEF ConductRowsOK
          <6> QED
            BY <6>1 DEF CompletionIsTaught
        <5> QED
          BY <5>1, <5>2, <5>3
      <4>9. ConductRowsOK'
        BY <3>3, <4>6, <4>7, <4>8 DEF ConductRowsOK
      <4> QED
        BY <1>1, <3>3, <4>5, <4>9, DeskTurns
    <3> QED
      BY <3>4, <3>5, <3>6
  <2> QED
    BY <1>12, <2>1, <2>2 DEF PublishModule
<1>13. ASSUME NEW c \in Clerks, RecordCompletion(c) PROVE \E next : Serves(c, next)
  <2>1. PICK v \in Lessons, on \in 0..today :
           /\ lesson[v].status # "none" /\ Begins(c, AtRest)
           /\ done' = [done EXCEPT ![v] = {on}]
           /\ taught' = taught \union {[material |-> lesson[v].material, on |-> on]}
           /\ UNCHANGED <<partner, finding, lesson>>
    BY <1>13 DEF RecordCompletion
  <2>2. on \in Nat
    OBVIOUS
  <2>3. ASSUME NEW w \in Lessons PROVE CompletionIsTaught(w)'
    <3>1. CASE w = v
      <4>1. done'[w] = {on} /\ lesson'[w] = lesson[w] /\ lesson[w].status # "none"
        BY <2>1, <3>1 DEF ConductRowsOK
      <4>2. PICK t \in taught' : t = [material |-> lesson[w].material, on |-> on]
        BY <2>1, <3>1
      <4>3. t.material = lesson[w].material /\ t.on = on
        BY <4>2
      <4> QED
        BY <2>2, <4>1, <4>2, <4>3 DEF CompletionIsTaught
    <3>2. CASE w # v
      BY <2>1, <3>2 DEF ConductRowsOK, CompletionIsTaught
    <3> QED
      BY <3>1, <3>2
  <2>4. ConductRowsOK' /\ ConductSettles
    BY <2>1, <2>2, <2>3 DEF ConductRowsOK, ConductSettles
  <2> QED
    BY <1>1, <2>1, <2>4, DeskTurns
<1>14. ASSUME NEW c \in Clerks, CanRefer(c) PROVE \E next : Serves(c, next)
  <2>1. CASE Begins(c, [op |-> "assess", known |-> OpenFindings]) /\ UNCHANGED conductRows
    <3>1. PICK next : next = [op |-> "assess", known |-> OpenFindings]
      OBVIOUS
    <3>2. next \in Gates /\ next.op = "assess" /\ next.known = OpenFindings
      BY <3>1 DEF Gates, OpenFindings
    <3>3. ConductRequestOK(next)
      BY <3>2 DEF ConductRequestOK, OpenFindings
    <3> QED
      BY <1>3, <2>1, <3>1, <3>3, DeskTurns
  <2>2. CASE Doing(c, "assess")
    <3>1. UNCHANGED conductRows
      BY <1>14, <2>2 DEF CanRefer, Begins, Doing
    <3>2. CASE UnderReview(OpenFindings)
      BY <1>1, <1>3, <1>14, <2>2, <3>1, <3>2, DeskTurns DEF CanRefer, Begins, Doing
    <3>3. CASE ~UnderReview(OpenFindings)
      <4>1. PICK next : next = [request[c] EXCEPT !.op = "certify"]
        OBVIOUS
      <4>2. GoesOn(c, next)
        BY <1>14, <2>2, <3>3, <4>1 DEF CanRefer, Begins, Doing
      <4>3. request[c] \in Gates /\ \A f \in request[c].known : finding[f] # "none"
        BY <1>2, <2>2 DEF ConductRequestOK, Doing
      <4>4. next \in Gates /\ next.op = "certify" /\ next.known = request[c].known
        BY <4>1, <4>3 DEF Gates
      <4>5. next.known \in SUBSET Findings
        BY <4>4 DEF Gates
      <4>6. Clear(next.known)
        BY <3>3, <4>5, ClearIsNoReview
      <4>7. ConductRequestOK(next)
        BY <4>3, <4>4, <4>6 DEF ConductRequestOK
      <4> QED
        BY <1>3, <3>1, <4>2, <4>7, DeskTurns
    <3> QED
      BY <3>2, <3>3
  <2> QED
    BY <1>14, <2>1, <2>2 DEF CanRefer
<1>15. ASSUME NEW c \in Clerks, Refer(c) \/ RevokeBrandArrangement(c)
       PROVE  \E next : Serves(c, next)
  BY <1>4, <1>15, DeskTurns DEF Refer, RevokeBrandArrangement, ConductRowsOK
<1>16. ASSUME NEW c \in Clerks, ApproveBrandArrangement(c) PROVE \E next : Serves(c, next)
  <2>1. CASE Begins(c, [op |-> "brand"]) /\ UNCHANGED conductRows
    BY <1>3, <2>1, DeskTurns DEF ConductRequestOK
  <2>2. CASE Finishes(c) /\ UNCHANGED <<partner, finding, lesson, done, taught>>
    BY <1>4, <2>2, DeskTurns DEF ConductRowsOK
  <2> QED
    BY <1>16, <2>1, <2>2 DEF ApproveBrandArrangement
<1>17. ASSUME NEW c \in Clerks, ClerkDies(c) /\ UNCHANGED conductRows
       PROVE  \E next : Serves(c, next)
  BY <1>1, <1>3, <1>17, DeskTurns
<1>18. CASE DayPasses /\ UNCHANGED conductRows
  <2>1. request' = request /\ UNCHANGED conductRows
    BY <1>18 DEF DayPasses
  <2> QED
    BY <2>1, RequestsStay
       DEF ConductRowsOK, ConductRequestsOK, ConductRequestOK, Clear, conductRows,
           CompletionIsTaught
<1>19. CASE ~(DayPasses /\ UNCHANGED conductRows)
  <2>1. PICK c, next : c \in Clerks /\ Serves(c, next)
    BY <1>6, <1>7, <1>8, <1>9, <1>10, <1>11, <1>12, <1>13, <1>14, <1>15, <1>16, <1>17, <1>19
       DEF PartnerConductNext
  <2> QED
    BY <2>1, ConductRequestsKept
<1> QED
  BY <1>18, <1>19

\* What was known when the gate was entered, and is still open, stops nobody
\* only if it is no ground for a review.
LEMMA FindingsStop ==
    ASSUME ConductRequestsOK, NEW c \in Clerks, Doing(c, "certify")
    PROVE  ~UnderReview(request[c].known \intersect OpenFindings)
<1>1. ConductRequestOK(request[c])
  BY DEF ConductRequestsOK
<1>2. request[c].known \in SUBSET Findings /\ Clear(request[c].known)
  BY <1>1 DEF ConductRequestOK, Doing, Gates
<1> QED
  BY <1>2, ClearIsNoReview

-----------------------------------------------------------------------------
(***************************************************************************)
(* Contracts.  Versions are only ever appended, so what was reviewed, and  *)
(* what was editorial since, stays so for the versions a draft has read.   *)
(***************************************************************************)
ChangeKinds == {"material", "editorial"}

History(versions) == versions \in Seq(ChangeKinds) /\ Len(versions) <= LastVersion

\* Later versions, and the earlier ones as they were.
Continues(versions, later) ==
    /\ Len(versions) <= Len(later)
    /\ \A v \in 1..Len(versions) : later[v] = versions[v]

ReviewStands(version) ==
    \E v \in templateReviews : v <= version /\ ~MaterialSince(template, v, version)

\* The clause of a jurisdiction, in one of its versions.
ClauseTerms == [jurisdiction : Jurisdictions, version : Nat]

\* The second is no step back from the first, and is a version there is.
NoOlder(a, b) == /\ a.jurisdiction = "state" => b.jurisdiction = "state"
                 /\ a.jurisdiction = b.jurisdiction => a.version <= b.version
ClauseStands(asked, term) == /\ 0 < term.version /\ term.version <= clause[term.jurisdiction]
                             /\ NoOlder(asked, term)

Signed == [template : Nat, module : Nat, disclosures : Nat,
           asked : ClauseTerms, clause : ClauseTerms]

SignedOK(k) == /\ k \in Signed
               /\ k.template <= Len(template) /\ ReviewStands(k.template)
               /\ k.module <= k.disclosures /\ k.disclosures <= Len(stateModule)
               /\ ClauseStands(k.asked, k.clause)

ContractsRowsOK ==
    /\ History(stateModule) /\ History(template)
    /\ counselReviews \subseteq 1..Len(stateModule)
    /\ templateReviews \subseteq 1..Len(template)
    /\ activation.version \in counselReviews \union {0}
    /\ clause \in [Jurisdictions -> 0..LastVersion]
    /\ \A k \in contracts : SignedOK(k)

DraftSteps == {"activation", "material", "disclosures", "text", "generable", "clauses", "create"}
Drafts  == [op : DraftSteps, module : Nat, active : Nat, disclosures : Nat, template : Nat,
            asked : ClauseTerms, clause : ClauseTerms]
Reviews == [op : {"review", "activate"}, version : Nat]

\* What a request carries of the clause.
ClauseRequestOK(r) ==
    /\ r.op = "clause" => r.on \in Jurisdictions /\ r.read \in Nat /\ r.read < LastVersion
    /\ r.op \in DraftSteps => r.asked \in ClauseTerms /\ NoOlder(r.asked, ClauseInForce)
    /\ r.op = "create" => r.clause \in ClauseTerms /\ ClauseStands(r.asked, r.clause)

ContractsRequestOK(r) ==
    /\ ClauseRequestOK(r)
    /\ r.op \in {"module", "template"} =>
          r.read \in Nat /\ r.read < LastVersion /\ r.change \in ChangeKinds
    /\ r.op \in {"review", "activate"} => r \in Reviews /\ r.version \in 1..Len(stateModule)
    /\ r.op = "activate" => r.version \in counselReviews
    /\ r.op \in DraftSteps => r \in Drafts /\ r.module <= Len(stateModule)
    /\ r.op \in {"text", "generable", "clauses", "create"} =>
          r.module <= r.disclosures /\ r.disclosures <= Len(stateModule)
    /\ r.op \in {"generable", "clauses", "create"} => r.template <= Len(template)
    /\ r.op \in {"clauses", "create"} => ReviewStands(r.template)

ContractsRequestsOK == \A c \in Clerks : ContractsRequestOK(request[c])

\* What no step undoes.
ContractsGrow == /\ Continues(stateModule, stateModule') /\ Continues(template, template')
                 /\ counselReviews \subseteq counselReviews'
                 /\ templateReviews \subseteq templateReviews'
                 /\ \A j \in Jurisdictions : clause[j] <= clause'[j]

LEMMA ContractsInitOK ==
    ASSUME ContractsInit, request = [c \in Clerks |-> AtRest]
    PROVE  ContractsRowsOK /\ ContractsRequestsOK
<1>1. ContractsRowsOK
  BY VersionsAssumption DEF ContractsInit, ContractsRowsOK, History, Jurisdictions
<1>2. ContractsRequestsOK
  BY DEF ContractsRequestsOK, ContractsRequestOK, ClauseRequestOK, AtRest, DraftSteps
<1> QED
  BY <1>1, <1>2

LEMMA ContractsTypes ==
    ASSUME ContractsRowsOK
    PROVE  ContractsTypeOK
<1>1. ASSUME NEW versions, History(versions)
      PROVE  /\ versions \in UNION {[1..n -> {"material", "editorial"}] : n \in 0..LastVersion}
             /\ DOMAIN versions = 1..Len(versions)
  <2>1. Len(versions) \in 0..LastVersion /\ versions \in [1..Len(versions) -> ChangeKinds]
    BY <1>1, VersionsAssumption DEF History
  <2> QED
    BY <2>1 DEF ChangeKinds
<1> QED
  BY <1>1 DEF ContractsTypeOK, ContractsRowsOK

\* A text that was reviewed when it was read is reviewed after every step.
LEMMA ReviewIsKept ==
    ASSUME ContractsRowsOK, ContractsGrow, NEW version \in Nat, version <= Len(template),
           ReviewStands(version)
    PROVE  ReviewStands(version)'
<1>1. PICK v \in templateReviews : v <= version /\ ~MaterialSince(template, v, version)
  BY DEF ReviewStands
<1>2. v \in Nat /\ Len(template) \in Nat /\ v \in templateReviews'
  BY DEF ContractsRowsOK, History, ContractsGrow
<1>3. ASSUME NEW w \in (v + 1)..version PROVE template'[w] # "material"
  <2>1. w \in 1..Len(template)
    BY <1>2
  <2>2. template[w] # "material"
    BY <1>1 DEF MaterialSince
  <2> QED
    BY <2>1, <2>2 DEF ContractsGrow, Continues
<1> QED
  BY <1>1, <1>2, <1>3 DEF ReviewStands, MaterialSince

\* Clauses are replaced by later ones only, and the state's is never taken away.
LEMMA ClauseIsKept ==
    ASSUME clause \in [Jurisdictions -> 0..LastVersion],
           clause' \in [Jurisdictions -> 0..LastVersion],
           \A j \in Jurisdictions : clause[j] <= clause'[j]
    PROVE  /\ \A a \in ClauseTerms : NoOlder(a, ClauseInForce) => NoOlder(a, ClauseInForce)'
           /\ \A a, b \in ClauseTerms : ClauseStands(a, b) => ClauseStands(a, b)'
<1>1. \A j \in Jurisdictions : clause[j] \in Nat /\ clause'[j] \in Nat
  BY VersionsAssumption
<1>2. "state" \in Jurisdictions /\ "*" \in Jurisdictions
  BY DEF Jurisdictions
<1>3. ASSUME NEW a \in ClauseTerms, NoOlder(a, ClauseInForce) PROVE NoOlder(a, ClauseInForce)'
  <2>1. a.jurisdiction \in {"state", "*"} /\ a.version \in Nat
    BY DEF ClauseTerms, Jurisdictions
  <2>2. CASE clause["state"] # 0
    <3>1. /\ ClauseInForce = [jurisdiction |-> "state", version |-> clause["state"]]
          /\ clause'["state"] # 0
      BY <1>1, <1>2, <2>2 DEF ClauseInForce
    <3>2. ClauseInForce' = [jurisdiction |-> "state", version |-> clause'["state"]]
      BY <3>1 DEF ClauseInForce
    <3> QED
      BY <1>1, <1>2, <1>3, <2>1, <3>1, <3>2 DEF NoOlder
  <2>3. CASE clause["state"] = 0
    <3>1. ClauseInForce = [jurisdiction |-> "*", version |-> clause["*"]]
      BY <2>3 DEF ClauseInForce
    <3>2. a.jurisdiction = "*" /\ a.version <= clause["*"]
      BY <1>3, <2>1, <3>1 DEF NoOlder
    <3>3. a.version <= clause'["*"]
      BY <1>1, <1>2, <2>1, <3>2
    <3>4. ClauseInForce' \in {[jurisdiction |-> "*", version |-> clause'["*"]],
                              [jurisdiction |-> "state", version |-> clause'["state"]]}
      BY DEF ClauseInForce
    <3> QED
      BY <3>2, <3>3, <3>4 DEF NoOlder
  <2> QED
    BY <2>2, <2>3
<1>4. ASSUME NEW a \in ClauseTerms, NEW b \in ClauseTerms, ClauseStands(a, b)
      PROVE  ClauseStands(a, b)'
  <2>1. b.jurisdiction \in Jurisdictions /\ b.version \in Nat
    BY DEF ClauseTerms
  <2>2. 0 < b.version /\ b.version <= clause[b.jurisdiction] /\ NoOlder(a, b)
    BY <1>4 DEF ClauseStands
  <2>3. b.version <= clause'[b.jurisdiction]
    BY <1>1, <2>1, <2>2
  <2> QED
    BY <2>2, <2>3 DEF ClauseStands, NoOlder
<1> QED
  BY <1>3, <1>4

LEMMA SignedIsKept ==
    ASSUME ContractsRowsOK, ContractsGrow, History(stateModule'), History(template'),
           clause' \in [Jurisdictions -> 0..LastVersion],
           NEW k, SignedOK(k)
    PROVE  SignedOK(k)'
<1>1. /\ k \in Signed /\ k.template <= Len(template) /\ ReviewStands(k.template)
      /\ k.module <= k.disclosures /\ k.disclosures <= Len(stateModule)
  BY DEF SignedOK
<1>2. k.template \in Nat /\ k.disclosures \in Nat
  BY <1>1 DEF Signed
<1>3. /\ Len(template) \in Nat /\ Len(template') \in Nat /\ Len(template) <= Len(template')
      /\ Len(stateModule) \in Nat /\ Len(stateModule') \in Nat
      /\ Len(stateModule) <= Len(stateModule')
  BY DEF ContractsRowsOK, History, ContractsGrow, Continues
<1>4. k.template <= Len(template') /\ k.disclosures <= Len(stateModule')
  BY <1>1, <1>2, <1>3
<1>5. ReviewStands(k.template)'
  <2>1. PICK version \in Nat : version = k.template
    BY <1>2
  <2>2. ReviewStands(version)'
    BY <1>1, <2>1, ReviewIsKept
  <2> QED
    BY <2>1, <2>2 DEF ReviewStands
<1>6. ClauseStands(k.asked, k.clause)'
  <2>1. PICK a \in ClauseTerms, b \in ClauseTerms : a = k.asked /\ b = k.clause
    BY <1>1 DEF Signed
  <2>2. ClauseStands(a, b)
    BY <2>1 DEF SignedOK
  <2>3. ClauseStands(a, b)'
    BY <2>2, ClauseIsKept DEF ContractsRowsOK, ContractsGrow
  <2> QED
    BY <2>1, <2>3 DEF ClauseStands, NoOlder
<1> QED
  BY <1>1, <1>4, <1>5, <1>6 DEF SignedOK

LEMMA ContractsRequestsKept ==
    ASSUME NEW c \in Clerks, NEW next, Turns(c, next), ContractsRowsOK, ContractsRequestsOK,
           ContractsRowsOK', ContractsRequestOK(next)', ContractsGrow
    PROVE  RequestsOK' /\ ContractsRequestsOK'
<1>1. ASSUME NEW r, ContractsRequestOK(r) PROVE ContractsRequestOK(r)'
  <2>1. /\ Len(template) \in Nat /\ Len(template') \in Nat /\ Len(template) <= Len(template')
        /\ Len(stateModule) \in Nat /\ Len(stateModule') \in Nat
        /\ Len(stateModule) <= Len(stateModule')
    BY DEF ContractsRowsOK, History, ContractsGrow, Continues
  <2>2. r.op \in {"review", "activate"} => r \in Reviews /\ r.version \in 1..Len(stateModule')
    BY <1>1, <2>1 DEF ContractsRequestOK
  <2>3. r.op = "activate" => r.version \in counselReviews'
    BY <1>1 DEF ContractsRequestOK, ContractsGrow
  <2>4. r.op \in DraftSteps => r \in Drafts /\ r.module <= Len(stateModule')
    BY <1>1, <2>1 DEF ContractsRequestOK, Drafts
  <2>5. r.op \in {"text", "generable", "clauses", "create"} =>
           r.module <= r.disclosures /\ r.disclosures <= Len(stateModule')
    <3>1. r.op \in {"text", "generable", "clauses", "create"} => r \in Drafts
      BY <1>1 DEF ContractsRequestOK, DraftSteps
    <3> QED
      BY <1>1, <2>1, <3>1 DEF ContractsRequestOK, Drafts
  <2>6. r.op \in {"generable", "clauses", "create"} => r.template <= Len(template')
    <3>1. r.op \in {"generable", "clauses", "create"} => r \in Drafts
      BY <1>1 DEF ContractsRequestOK, DraftSteps
    <3> QED
      BY <1>1, <2>1, <3>1 DEF ContractsRequestOK, Drafts
  <2>7. r.op \in {"clauses", "create"} => ReviewStands(r.template)'
    <3>1. SUFFICES ASSUME r.op \in {"clauses", "create"} PROVE ReviewStands(r.template)'
      OBVIOUS
    <3>2. r \in Drafts /\ r.template <= Len(template) /\ ReviewStands(r.template)
      BY <1>1, <3>1 DEF ContractsRequestOK, DraftSteps
    <3>3. r.template \in Nat
      BY <3>2 DEF Drafts
    <3> QED
      BY <3>2, <3>3, ReviewIsKept
  <2>8. ClauseRequestOK(r)'
    <3>1. ClauseRequestOK(r)
      BY <1>1 DEF ContractsRequestOK
    <3>2. r.op \in DraftSteps => NoOlder(r.asked, ClauseInForce)'
      <4> SUFFICES ASSUME r.op \in DraftSteps PROVE NoOlder(r.asked, ClauseInForce)'
        OBVIOUS
      <4>1. PICK a \in ClauseTerms : a = r.asked
        BY <3>1 DEF ClauseRequestOK
      <4>2. NoOlder(a, ClauseInForce)'
        BY <3>1, <4>1, ClauseIsKept DEF ClauseRequestOK, ContractsRowsOK, ContractsGrow
      <4> QED
        BY <4>1, <4>2 DEF NoOlder
    <3>3. r.op = "create" => ClauseStands(r.asked, r.clause)'
      <4> SUFFICES ASSUME r.op = "create" PROVE ClauseStands(r.asked, r.clause)'
        OBVIOUS
      <4>1. PICK a \in ClauseTerms, b \in ClauseTerms : a = r.asked /\ b = r.clause
        BY <3>1 DEF ClauseRequestOK, DraftSteps
      <4>2. ClauseStands(a, b)'
        BY <3>1, <4>1, ClauseIsKept DEF ClauseRequestOK, ContractsRowsOK, ContractsGrow
      <4> QED
        BY <4>1, <4>2 DEF ClauseStands, NoOlder
    <3> QED
      BY <3>1, <3>2, <3>3 DEF ClauseRequestOK
  <2> QED
    BY <1>1, <2>2, <2>3, <2>4, <2>5, <2>6, <2>7, <2>8 DEF ContractsRequestOK
<1>2. ASSUME NEW d \in Clerks PROVE ContractsRequestOK(request[d])'
  <2>1. CASE d = c
    BY <2>1, Zenon DEF Turns, ContractsRequestOK, ReviewStands, MaterialSince, ClauseRequestOK,
                       ClauseInForce, ClauseStands
  <2>2. CASE d # c
    BY <1>1, <2>2 DEF Turns, ContractsRequestsOK
  <2> QED
    BY <2>1, <2>2
<1> QED
  BY <1>2 DEF Turns, ContractsRequestsOK

\* A publisher's write appends its version, or finds the place taken.
LEMMA PublishedContinues ==
    ASSUME NEW versions, History(versions), NEW read \in Nat, read < LastVersion,
           NEW change \in ChangeKinds
    PROVE  /\ History(Published(versions, read, change))
           /\ Continues(versions, Published(versions, read, change))
<1>1. CASE Len(versions) = read
  <2>1. Published(versions, read, change) = Append(versions, change)
    BY <1>1 DEF Published
  <2>2. /\ Append(versions, change) \in Seq(ChangeKinds)
        /\ Len(Append(versions, change)) = Len(versions) + 1
        /\ \A v \in 1..Len(versions) : Append(versions, change)[v] = versions[v]
    BY DEF History
  <2>3. Len(versions) + 1 <= LastVersion /\ Len(versions) <= Len(versions) + 1
    BY <1>1, VersionsAssumption
  <2> QED
    BY <2>1, <2>2, <2>3 DEF History, Continues
<1>2. CASE Len(versions) # read
  <2>1. Len(versions) \in Nat
    BY DEF History
  <2> QED
    BY <1>2, <2>1 DEF Published, History, Continues
<1> QED
  BY <1>1, <1>2

LEMMA ContractsStay ==
    ASSUME ContractsRowsOK, UNCHANGED contractRows
    PROVE  /\ ContractsRowsOK' /\ ContractsGrow
           /\ \A r : ContractsRequestOK(r) => ContractsRequestOK(r)'
<1>1. UNCHANGED <<stateModule, counselReviews, activation, template, templateReviews, clause,
                  contracts>>
  BY DEF contractRows
<1>2. Len(stateModule) \in Nat /\ Len(template) \in Nat
  BY DEF ContractsRowsOK, History
<1>3. ContractsGrow
  <2>1. \A j \in Jurisdictions : clause[j] \in Nat
    BY VersionsAssumption DEF ContractsRowsOK
  <2> QED
    BY <1>1, <1>2, <2>1 DEF ContractsGrow, Continues
<1>4. ContractsRowsOK'
  BY <1>1 DEF ContractsRowsOK, SignedOK, ReviewStands, ClauseStands
<1>5. \A r : ContractsRequestOK(r) => ContractsRequestOK(r)'
  <2>1. ClauseInForce' = ClauseInForce
    BY <1>1 DEF ClauseInForce
  <2> QED
    BY <1>1, <2>1 DEF ContractsRequestOK, ReviewStands, ClauseRequestOK, ClauseStands
<1> QED
  BY <1>3, <1>4, <1>5

LEMMA ContractsStep ==
    ASSUME RequestsOK, ContractsRowsOK, ContractsRequestsOK, ContractsNext
    PROVE  RequestsOK' /\ ContractsRowsOK' /\ ContractsRequestsOK'
<1> DEFINE Serves(c, next) == /\ Turns(c, next) /\ ContractsRowsOK' /\ ContractsRequestOK(next)'
                              /\ ContractsGrow
           Looks(c, next) == /\ Turns(c, next) /\ UNCHANGED contractRows
                             /\ ContractsRequestOK(next)
<1>1. ContractsRequestOK(AtRest) /\ ContractsRequestOK(AtRest)'
  BY DEF ContractsRequestOK, ClauseRequestOK, AtRest, DraftSteps
<1>2. ASSUME NEW c \in Clerks PROVE ContractsRequestOK(request[c])
  BY DEF ContractsRequestsOK
<1>3. ASSUME NEW c \in Clerks, NEW next, Looks(c, next) PROVE Serves(c, next)
  BY <1>3, ContractsStay
<1>4. /\ stateModule \in Seq(ChangeKinds) /\ template \in Seq(ChangeKinds)
      /\ Len(stateModule) \in Nat /\ Len(template) \in Nat
  BY DEF ContractsRowsOK, History
\* Whatever else a writer does, contracts signed before are as they were.
<1>5. ASSUME NEW c \in Clerks, Turns(c, AtRest), ContractsGrow, UNCHANGED contracts,
             History(stateModule'), History(template'),
             counselReviews' \subseteq 1..Len(stateModule'),
             templateReviews' \subseteq 1..Len(template'),
             activation'.version \in counselReviews' \union {0},
             clause' \in [Jurisdictions -> 0..LastVersion]
      PROVE  Serves(c, AtRest)
  BY <1>1, <1>5, SignedIsKept DEF ContractsRowsOK
<1>6. /\ Continues(stateModule, stateModule) /\ Continues(template, template)
      /\ \A j \in Jurisdictions : clause[j] <= clause[j]
  <2>1. \A j \in Jurisdictions : clause[j] \in Nat
    BY VersionsAssumption DEF ContractsRowsOK
  <2> QED
    BY <1>4, <2>1 DEF Continues
<1>7. ASSUME NEW c \in Clerks, PublishStateModule(c) PROVE \E next : Serves(c, next)
  <2>1. CASE \E change \in ChangeKinds :
               /\ Publishable(stateModule, change)
               /\ Begins(c, [op |-> "module", read |-> Len(stateModule), change |-> change])
               /\ UNCHANGED contractRows
    <3>1. PICK change \in ChangeKinds :
               /\ Publishable(stateModule, change)
               /\ Begins(c, [op |-> "module", read |-> Len(stateModule), change |-> change])
               /\ UNCHANGED contractRows
      BY <2>1
    <3>2. ContractsRequestOK([op |-> "module", read |-> Len(stateModule), change |-> change])
      BY <1>4, <3>1 DEF ContractsRequestOK, ClauseRequestOK, Publishable, DraftSteps
    <3> QED
      BY <1>3, <3>1, <3>2, DeskTurns
  <2>2. CASE Doing(c, "module")
    <3>1. /\ request[c].read \in Nat /\ request[c].read < LastVersion
          /\ request[c].change \in ChangeKinds
      BY <1>2, <2>2 DEF ContractsRequestOK, Doing
    <3>2. /\ stateModule' = Published(stateModule, request[c].read, request[c].change)
          /\ Finishes(c)
          /\ UNCHANGED <<counselReviews, activation, template, templateReviews, clause,
                         contracts>>
      BY <1>7, <2>2 DEF PublishStateModule, Begins, Doing
    <3>3. History(stateModule') /\ Continues(stateModule, stateModule')
      BY <3>1, <3>2, PublishedContinues DEF ContractsRowsOK
    <3>4. Len(stateModule') \in Nat /\ Len(stateModule) <= Len(stateModule')
      BY <3>3 DEF History, Continues
    <3>5. counselReviews' \subseteq 1..Len(stateModule')
      BY <1>4, <3>2, <3>4 DEF ContractsRowsOK
    <3>6. ContractsGrow
      BY <1>6, <3>2, <3>3 DEF ContractsGrow
    <3> QED
      BY <1>5, <3>2, <3>3, <3>5, <3>6, DeskTurns DEF ContractsRowsOK
  <2> QED
    BY <1>7, <2>1, <2>2 DEF PublishStateModule, ChangeKinds
<1>8. ASSUME NEW c \in Clerks, ActivateState(c) PROVE \E next : Serves(c, next)
  <2>1. CASE /\ stateModule # <<>>
             /\ Begins(c, [op |-> "review", version |-> Len(stateModule)])
             /\ UNCHANGED contractRows
    <3>1. PICK next : next = [op |-> "review", version |-> Len(stateModule)]
      OBVIOUS
    <3>2. next \in Reviews /\ next.op = "review" /\ next.version \in 1..Len(stateModule)
      <4>1. Len(stateModule) \in 1..Len(stateModule)
        BY <1>4, <2>1
      <4> QED
        BY <3>1, <4>1 DEF Reviews
    <3>3. ContractsRequestOK(next)
      BY <3>2 DEF ContractsRequestOK, ClauseRequestOK, DraftSteps
    <3> QED
      BY <1>3, <2>1, <3>1, <3>3, DeskTurns
  <2>2. CASE Doing(c, "review")
    <3>1. request[c] \in Reviews /\ request[c].version \in 1..Len(stateModule)
      BY <1>2, <2>2 DEF ContractsRequestOK, Doing
    <3>2. PICK next : next = [request[c] EXCEPT !.op = "activate"]
      OBVIOUS
    <3>3. /\ GoesOn(c, next) /\ counselReviews' = counselReviews \union {request[c].version}
          /\ UNCHANGED <<stateModule, activation, template, templateReviews, clause, contracts>>
      BY <1>8, <2>2, <3>2 DEF ActivateState, Begins, Doing
    <3>4. next \in Reviews /\ next.op = "activate" /\ next.version = request[c].version
      BY <3>1, <3>2 DEF Reviews
    <3>5. ContractsRequestOK(next)'
      BY <3>1, <3>3, <3>4 DEF ContractsRequestOK, ClauseRequestOK, DraftSteps
    <3>6. ContractsGrow
      BY <1>6, <3>3 DEF ContractsGrow
    <3>7. ContractsRowsOK'
      BY <3>1, <3>3 DEF ContractsRowsOK, SignedOK, ReviewStands, ClauseStands
    <3> QED
      BY <3>3, <3>5, <3>6, <3>7, DeskTurns
  <2>3. CASE Doing(c, "activate")
    <3>1. request[c].version \in counselReviews
      BY <1>2, <2>3 DEF ContractsRequestOK, Doing
    <3>2. /\ Finishes(c) /\ activation' = [version |-> request[c].version, withdrawn |-> FALSE]
          /\ UNCHANGED <<stateModule, counselReviews, template, templateReviews, clause,
                         contracts>>
      BY <1>8, <2>3 DEF ActivateState, Begins, Doing
    <3>3. ContractsGrow
      BY <1>6, <3>2 DEF ContractsGrow
    <3> QED
      BY <1>5, <3>1, <3>2, <3>3, DeskTurns DEF ContractsRowsOK
  <2> QED
    BY <1>8, <2>1, <2>2, <2>3 DEF ActivateState
<1>9. ASSUME NEW c \in Clerks, WithdrawState(c) PROVE \E next : Serves(c, next)
  <2>1. CASE Begins(c, [op |-> "withdraw"]) /\ UNCHANGED contractRows
    BY <1>3, <2>1, DeskTurns DEF ContractsRequestOK, ClauseRequestOK, DraftSteps
  <2>2. CASE Doing(c, "withdraw")
    <3>1. /\ Finishes(c) /\ activation' = [activation EXCEPT !.withdrawn = TRUE]
          /\ UNCHANGED <<stateModule, counselReviews, template, templateReviews, clause,
                         contracts>>
      BY <1>9, <2>2 DEF WithdrawState, Begins, Doing
    <3>2. activation'.version = activation.version
      BY <3>1
    <3>3. ContractsGrow
      BY <1>6, <3>1 DEF ContractsGrow
    <3> QED
      BY <1>5, <3>1, <3>2, <3>3, DeskTurns DEF ContractsRowsOK
  <2> QED
    BY <1>9, <2>1, <2>2 DEF WithdrawState
<1>10. ASSUME NEW c \in Clerks, PublishTemplate(c) PROVE \E next : Serves(c, next)
  <2>1. CASE \E change \in ChangeKinds :
               /\ Publishable(template, change)
               /\ Begins(c, [op |-> "template", read |-> Len(template), change |-> change])
               /\ UNCHANGED contractRows
    <3>1. PICK change \in ChangeKinds :
               /\ Publishable(template, change)
               /\ Begins(c, [op |-> "template", read |-> Len(template), change |-> change])
               /\ UNCHANGED contractRows
      BY <2>1
    <3>2. ContractsRequestOK([op |-> "template", read |-> Len(template), change |-> change])
      BY <1>4, <3>1 DEF ContractsRequestOK, ClauseRequestOK, Publishable, DraftSteps
    <3> QED
      BY <1>3, <3>1, <3>2, DeskTurns
  <2>2. CASE Doing(c, "template")
    <3>1. /\ request[c].read \in Nat /\ request[c].read < LastVersion
          /\ request[c].change \in ChangeKinds
      BY <1>2, <2>2 DEF ContractsRequestOK, Doing
    <3>2. /\ template' = Published(template, request[c].read, request[c].change)
          /\ Finishes(c)
          /\ UNCHANGED <<stateModule, counselReviews, activation, templateReviews, clause,
                         contracts>>
      BY <1>10, <2>2 DEF PublishTemplate, Begins, Doing
    <3>3. History(template') /\ Continues(template, template')
      BY <3>1, <3>2, PublishedContinues DEF ContractsRowsOK
    <3>4. Len(template') \in Nat /\ Len(template) <= Len(template')
      BY <3>3 DEF History, Continues
    <3>5. templateReviews' \subseteq 1..Len(template')
      BY <1>4, <3>2, <3>4 DEF ContractsRowsOK
    <3>6. ContractsGrow
      BY <1>6, <3>2, <3>3 DEF ContractsGrow
    <3> QED
      BY <1>5, <3>2, <3>3, <3>5, <3>6, DeskTurns DEF ContractsRowsOK
  <2> QED
    BY <1>10, <2>1, <2>2 DEF PublishTemplate, ChangeKinds
<1>11. ASSUME NEW c \in Clerks, ReviewTemplate(c) PROVE \E next : Serves(c, next)
  <2>1. PICK v \in 1..Len(template) :
           /\ Begins(c, AtRest) /\ templateReviews' = templateReviews \union {v}
           /\ UNCHANGED <<stateModule, counselReviews, activation, template, clause, contracts>>
    BY <1>11 DEF ReviewTemplate
  <2>2. ContractsGrow
    BY <1>6, <2>1 DEF ContractsGrow
  <2>3. /\ History(stateModule') /\ History(template')
        /\ counselReviews' \subseteq 1..Len(stateModule')
        /\ templateReviews' \subseteq 1..Len(template')
        /\ activation'.version \in counselReviews' \union {0}
        /\ clause' \in [Jurisdictions -> 0..LastVersion]
    BY <2>1 DEF ContractsRowsOK
  <2> QED
    BY <1>5, <2>1, <2>2, <2>3, DeskTurns
<1>12. ASSUME NEW c \in Clerks, PublishClause(c) PROVE \E next : Serves(c, next)
  <2>1. CASE \E j \in Jurisdictions :
               /\ clause[j] < LastVersion
               /\ Begins(c, [op |-> "clause", on |-> j, read |-> clause[j]])
               /\ UNCHANGED contractRows
    <3>1. PICK j \in Jurisdictions :
               /\ clause[j] < LastVersion
               /\ Begins(c, [op |-> "clause", on |-> j, read |-> clause[j]])
               /\ UNCHANGED contractRows
      BY <2>1
    <3>2. clause[j] \in Nat
      BY VersionsAssumption DEF ContractsRowsOK
    <3>3. ContractsRequestOK([op |-> "clause", on |-> j, read |-> clause[j]])
      BY <3>1, <3>2 DEF ContractsRequestOK, ClauseRequestOK, DraftSteps
    <3> QED
      BY <1>3, <3>1, <3>3, DeskTurns
  <2>2. CASE Doing(c, "clause")
    <3>1. PICK on \in Jurisdictions, read \in Nat :
             on = request[c].on /\ read = request[c].read /\ read < LastVersion
      BY <1>2, <2>2 DEF ContractsRequestOK, ClauseRequestOK, Doing
    <3>2. /\ clause' = [clause EXCEPT ![on] = IF @ = read THEN read + 1 ELSE @]
          /\ Finishes(c)
          /\ UNCHANGED <<stateModule, counselReviews, activation, template, templateReviews,
                         contracts>>
      BY <1>12, <2>2, <3>1 DEF PublishClause, Begins, Doing
    <3>3. clause \in [Jurisdictions -> 0..LastVersion]
      BY DEF ContractsRowsOK
    <3>4. \A j \in Jurisdictions : clause'[j] \in 0..LastVersion /\ clause[j] <= clause'[j]
      BY <3>1, <3>2, <3>3, VersionsAssumption
    <3>5. clause' \in [Jurisdictions -> 0..LastVersion]
      BY <3>2, <3>3, <3>4
    <3>6. ContractsGrow
      BY <1>6, <3>2, <3>4 DEF ContractsGrow
    <3> QED
      BY <1>5, <3>2, <3>5, <3>6, DeskTurns DEF ContractsRowsOK
  <2> QED
    BY <1>12, <2>1, <2>2 DEF PublishClause
\* What is in force is a clause.
<1>inforce. ClauseInForce \in ClauseTerms /\ NoOlder(ClauseInForce, ClauseInForce)
  <2>1. \A j \in Jurisdictions : clause[j] \in Nat
    BY VersionsAssumption DEF ContractsRowsOK
  <2>2. \E j \in Jurisdictions : ClauseInForce = [jurisdiction |-> j, version |-> clause[j]]
    BY DEF ClauseInForce, Jurisdictions
  <2> QED
    BY <2>1, <2>2 DEF ClauseTerms, NoOlder
\* A draft that goes on keeps what it read.
<1>13. ASSUME NEW c \in Clerks, Doing(c, "activation") \/ Doing(c, "material")
              \/ Doing(c, "disclosures") \/ Doing(c, "text") \/ Doing(c, "generable")
              \/ Doing(c, "clauses") \/ Doing(c, "create")
       PROVE  /\ request[c] \in Drafts /\ request[c].module <= Len(stateModule)
              /\ request[c].asked \in ClauseTerms /\ NoOlder(request[c].asked, ClauseInForce)
  BY <1>2, <1>13 DEF ContractsRequestOK, ClauseRequestOK, Doing, DraftSteps
<1>14. ASSUME NEW c \in Clerks, StandingFor(c) PROVE \E next : Serves(c, next)
  <2>1. CASE /\ UNCHANGED contractRows
             /\ Begins(c, [op |-> "activation", module |-> Len(stateModule), active |-> 0,
                           disclosures |-> 0, template |-> 0,
                           asked |-> ClauseInForce, clause |-> ClauseInForce])
    <3>0. PICK term \in ClauseTerms : term = ClauseInForce /\ NoOlder(term, term)
      BY <1>inforce
    <3>1. PICK next : next = [op |-> "activation", module |-> Len(stateModule), active |-> 0,
                              disclosures |-> 0, template |-> 0,
                              asked |-> term, clause |-> term]
      OBVIOUS
    <3>2. /\ next \in Drafts /\ next.op = "activation" /\ next.module = Len(stateModule)
          /\ next.asked = term
      BY <1>4, <3>1 DEF Drafts, DraftSteps
    <3>3. ContractsRequestOK(next)
      BY <1>4, <3>0, <3>2 DEF ContractsRequestOK, ClauseRequestOK
    <3> QED
      BY <1>3, <2>1, <3>0, <3>1, <3>3, DeskTurns
  <2>2. CASE Doing(c, "activation")
    <3>1. UNCHANGED contractRows
      BY <1>14, <2>2 DEF StandingFor, Begins, Doing
    <3>2. PICK next : next = [request[c] EXCEPT !.op = "material", !.active = activation.version]
      OBVIOUS
    <3>3. GoesOn(c, next) \/ Finishes(c)
      BY <1>14, <2>2, <3>2 DEF StandingFor, Begins, Doing, GoesIf
    <3>4. activation.version \in Nat
      <4>1. activation.version \in counselReviews \union {0} /\ counselReviews \subseteq Nat
        <5>1. 1..Len(stateModule) \subseteq Nat
          BY <1>4
        <5> QED
          BY <5>1 DEF ContractsRowsOK
      <4> DEFINE version == activation.version
      <4>2. version \in counselReviews \union {0}
        BY <4>1
      <4> HIDE DEF version
      <4>3. version \in Nat
        BY <4>1, <4>2
      <4> QED
        BY <4>3 DEF version
    <3>5. /\ next \in Drafts /\ next.op = "material" /\ next.module = request[c].module
          /\ next.asked = request[c].asked
      BY <1>13, <2>2, <3>2, <3>4 DEF Drafts, DraftSteps
    <3>6. ContractsRequestOK(next)
      BY <1>13, <2>2, <3>5 DEF ContractsRequestOK, ClauseRequestOK
    <3> QED
      BY <1>1, <1>3, <3>1, <3>3, <3>6, DeskTurns
  <2>3. CASE Doing(c, "material")
    <3>1. PICK next : next = [request[c] EXCEPT !.op = "disclosures"]
      OBVIOUS
    <3>2. (GoesOn(c, next) \/ Finishes(c)) /\ UNCHANGED contractRows
      BY <1>14, <2>3, <3>1 DEF StandingFor, Begins, Doing, GoesIf, Goes
    <3>3. /\ next \in Drafts /\ next.op = "disclosures" /\ next.module = request[c].module
          /\ next.asked = request[c].asked
      BY <1>13, <2>3, <3>1 DEF Drafts, DraftSteps
    <3>4. ContractsRequestOK(next)
      BY <1>13, <2>3, <3>3 DEF ContractsRequestOK, ClauseRequestOK
    <3> QED
      BY <1>1, <1>3, <3>2, <3>4, DeskTurns
  <2> QED
    BY <1>14, <2>1, <2>2, <2>3 DEF StandingFor
<1>15. ASSUME NEW c \in Clerks, RequiredDisclosures(c) PROVE \E next : Serves(c, next)
  <2>1. PICK next : next = [request[c] EXCEPT !.op = "text", !.disclosures = Len(stateModule)]
    OBVIOUS
  <2>2. Doing(c, "disclosures") /\ GoesOn(c, next) /\ UNCHANGED contractRows
    BY <1>15, <2>1 DEF RequiredDisclosures
  <2>3. /\ next \in Drafts /\ next.op = "text" /\ next.module = request[c].module
        /\ next.asked = request[c].asked
        /\ next.disclosures = Len(stateModule)
    BY <1>4, <1>13, <2>1, <2>2 DEF Drafts, DraftSteps
  <2>4. ContractsRequestOK(next)
    BY <1>4, <1>13, <2>2, <2>3 DEF ContractsRequestOK, ClauseRequestOK
  <2> QED
    BY <1>3, <2>2, <2>4, DeskTurns
\* From here the disclosures are those read after the module.
<1>16. ASSUME NEW c \in Clerks, Doing(c, "text") \/ Doing(c, "generable")
              \/ Doing(c, "clauses") \/ Doing(c, "create")
       PROVE  /\ request[c].module <= request[c].disclosures
              /\ request[c].disclosures <= Len(stateModule)
  BY <1>2, <1>16 DEF ContractsRequestOK, Doing
<1>17. ASSUME NEW c \in Clerks, CurrentTemplate(c) PROVE \E next : Serves(c, next)
  <2>1. PICK next : next = [request[c] EXCEPT !.op = "generable", !.template = Len(template)]
    OBVIOUS
  <2>2. Doing(c, "text") /\ (GoesOn(c, next) \/ Finishes(c)) /\ UNCHANGED contractRows
    BY <1>17, <2>1 DEF CurrentTemplate
  <2>3. /\ next \in Drafts /\ next.op = "generable" /\ next.module = request[c].module
        /\ next.asked = request[c].asked
        /\ next.disclosures = request[c].disclosures /\ next.template = Len(template)
    BY <1>4, <1>13, <2>1, <2>2 DEF Drafts, DraftSteps
  <2>4. ContractsRequestOK(next)
    BY <1>4, <1>13, <1>16, <2>2, <2>3 DEF ContractsRequestOK, ClauseRequestOK
  <2> QED
    BY <1>1, <1>3, <2>2, <2>4, DeskTurns
<1>18. ASSUME NEW c \in Clerks, Doing(c, "generable"),
              GoesIf(c, TemplateIsGenerable(request[c].template), "clauses")
       PROVE  \E next : Serves(c, next)
  <2>1. PICK next : next = [request[c] EXCEPT !.op = "clauses"]
    OBVIOUS
  <2>2. UNCHANGED contractRows
    BY <1>18 DEF GoesIf, Goes
  <2>3. CASE TemplateIsGenerable(request[c].template)
    <3>1. GoesOn(c, next)
      BY <1>18, <2>1, <2>3 DEF GoesIf, Goes
    <3>2. /\ next \in Drafts /\ next.op = "clauses" /\ next.module = request[c].module
          /\ next.asked = request[c].asked
          /\ next.disclosures = request[c].disclosures /\ next.template = request[c].template
      BY <1>13, <1>18, <2>1 DEF Drafts, DraftSteps
    <3>3. request[c].template <= Len(template)
      BY <1>2, <1>18 DEF ContractsRequestOK, Doing
    <3>4. ReviewStands(request[c].template)
      <4> DEFINE reviewed == {v \in templateReviews : v <= request[c].template}
      <4>1. reviewed # {} /\ ~MaterialSince(template, Max(reviewed), request[c].template)
        BY <2>3 DEF TemplateIsGenerable
      <4>2. reviewed \subseteq 1..Len(template)
        BY DEF ContractsRowsOK
      <4>3. reviewed \in SUBSET Nat /\ IsFiniteSet(reviewed)
        <5>1. IsFiniteSet(1..Len(template))
          BY <1>4, FS_Interval
        <5> QED
          BY <4>2, <5>1, FS_Subset
      <4>4. Max(reviewed) \in reviewed
        BY <4>1, <4>3, MaxIsGreatest
      <4> QED
        BY <4>1, <4>4 DEF ReviewStands
    <3>5. ContractsRequestOK(next)
      BY <1>13, <1>16, <1>18, <3>2, <3>3, <3>4 DEF ContractsRequestOK, ClauseRequestOK
    <3> QED
      BY <1>3, <2>2, <3>1, <3>5, DeskTurns
  <2>4. CASE ~TemplateIsGenerable(request[c].template)
    BY <1>1, <1>3, <1>18, <2>2, <2>4, DeskTurns DEF GoesIf
  <2> QED
    BY <2>3, <2>4
<1>19. ASSUME NEW c \in Clerks, SelectClause(c) PROVE \E next : Serves(c, next)
  <2>1. PICK term \in ClauseTerms : term = ClauseInForce
    BY <1>inforce
  <2>2. PICK next : next = [request[c] EXCEPT !.op = "create", !.clause = term]
    OBVIOUS
  <2>3. Doing(c, "clauses") /\ UNCHANGED contractRows
    BY <1>19 DEF SelectClause
  <2>4. CASE ClauseInForce.version = 0
    BY <1>1, <1>3, <1>19, <2>3, <2>4, DeskTurns DEF SelectClause
  <2>5. CASE ClauseInForce.version # 0
    <3>1. GoesOn(c, next)
      BY <1>19, <2>1, <2>2, <2>5 DEF SelectClause
    <3>2. /\ next \in Drafts /\ next.op = "create" /\ next.module = request[c].module
          /\ next.disclosures = request[c].disclosures /\ next.template = request[c].template
          /\ next.asked = request[c].asked /\ next.clause = term
      BY <1>13, <2>2, <2>3 DEF Drafts, DraftSteps
    <3>3. request[c].template <= Len(template) /\ ReviewStands(request[c].template)
      BY <1>2, <2>3 DEF ContractsRequestOK, Doing
    <3>4. NoOlder(next.asked, ClauseInForce)
      BY <1>13, <2>3, <3>2
    <3>5. ClauseStands(next.asked, next.clause)
      <4>1. term.version = clause[term.jurisdiction] /\ term.version \in Nat /\ term.version # 0
        BY <2>1, <2>5 DEF ClauseInForce, ClauseTerms
      <4> QED
        BY <2>1, <3>2, <3>4, <4>1 DEF ClauseStands
    <3>6. ClauseRequestOK(next)
      BY <1>13, <2>3, <3>2, <3>4, <3>5 DEF ClauseRequestOK
    <3>7. ContractsRequestOK(next)
      BY <1>13, <1>16, <2>3, <3>2, <3>3, <3>6 DEF ContractsRequestOK
    <3> QED
      BY <1>3, <2>3, <3>1, <3>7, DeskTurns
  <2> QED
    BY <2>4, <2>5
<1>20. ASSUME NEW c \in Clerks, Doing(c, "create"), Finishes(c),
              contracts' = contracts \union
                 {[template |-> request[c].template, module |-> request[c].module,
                   disclosures |-> request[c].disclosures,
                   asked |-> request[c].asked, clause |-> request[c].clause]},
              UNCHANGED <<stateModule, counselReviews, activation, template, templateReviews,
                          clause>>
       PROVE  \E next : Serves(c, next)
  <2>1. PICK k : k = [template |-> request[c].template, module |-> request[c].module,
                      disclosures |-> request[c].disclosures,
                      asked |-> request[c].asked, clause |-> request[c].clause]
    OBVIOUS
  <2>2. /\ k \in Signed /\ k.template = request[c].template /\ k.module = request[c].module
        /\ k.disclosures = request[c].disclosures
        /\ k.asked = request[c].asked /\ k.clause = request[c].clause
    BY <1>13, <1>20, <2>1 DEF Signed, Drafts
  <2>3. request[c].template <= Len(template) /\ ReviewStands(request[c].template)
    BY <1>2, <1>20 DEF ContractsRequestOK, Doing
  <2>4. ClauseStands(k.asked, k.clause)
    BY <1>2, <1>20, <2>2 DEF ContractsRequestOK, ClauseRequestOK, Doing
  <2>5. SignedOK(k)
    BY <1>16, <1>20, <2>2, <2>3, <2>4 DEF SignedOK
  <2>6. ContractsRowsOK'
    BY <1>20, <2>1, <2>5 DEF ContractsRowsOK, SignedOK, ReviewStands, ClauseStands
  <2>7. ContractsGrow
    BY <1>6, <1>20 DEF ContractsGrow
  <2> QED
    BY <1>1, <1>20, <2>6, <2>7, DeskTurns
<1>21. ASSUME NEW c \in Clerks, GenerateContract(c) PROVE \E next : Serves(c, next)
  BY <1>14, <1>15, <1>17, <1>18, <1>19, <1>20, <1>21 DEF GenerateContract
<1>22. ASSUME NEW c \in Clerks, ClerkDies(c) /\ UNCHANGED contractRows
       PROVE  \E next : Serves(c, next)
  BY <1>1, <1>3, <1>22, DeskTurns
<1>23. PICK c, next : c \in Clerks /\ Serves(c, next)
  BY <1>7, <1>8, <1>9, <1>10, <1>11, <1>12, <1>21, <1>22 DEF ContractsNext
<1> QED
  BY <1>23, ContractsRequestsKept

\* What the rows say of every contract is what its signers were promised.
LEMMA ContractsStand ==
    ASSUME ContractsRowsOK
    PROVE  SignedTextStands
<1>1. SignedTextWasReviewed
  BY DEF ContractsRowsOK, SignedOK, ReviewStands, SignedTextWasReviewed
<1>2. ASSUME NEW k \in contracts, k.disclosures < Len(stateModule) PROVE k.module < Len(stateModule)
  <2>1. /\ k.module \in Nat /\ k.disclosures \in Nat /\ k.module <= k.disclosures
        /\ Len(stateModule) \in Nat
    BY DEF ContractsRowsOK, SignedOK, Signed, History
  <2> QED
    BY <1>2, <2>1
<1>3. TermsAreInForce
  BY DEF ContractsRowsOK, SignedOK, ClauseStands, NoOlder, TermsAreInForce
<1> QED
  BY <1>1, <1>2, <1>3 DEF SignedTextStands, OutdatedIsReported, StaleContracts

-----------------------------------------------------------------------------
(***************************************************************************)
(* Payouts.  A row carries what its lines were computed from, and the law  *)
(* of a client's state does not change under it.                           *)
(***************************************************************************)
RuleAnswers  == {"permitted", "capped", "prohibited", "silent"}
TermStates   == {"none", "draft", "active", "superseded"}
PayoutStates == {"pending", "approved", "declined"}

Payouts == [status : PayoutStates, deducted : Nat, from : [Leads -> Nat], lines : [Leads -> Nat]]

\* What LawfulPayout asks of one payout.
LawfulRow(row) ==
    \A l \in Leads :
        /\ row.from[l] > 0 => rule[l] # "silent"
        /\ rule[l] = "prohibited" => row.lines[l] = 0
        /\ rule[l] = "capped" => Whole * row.lines[l] <= CapShare * row.from[l]

PayoutRowsOK ==
    /\ rule \in [Leads -> RuleAnswers]
    /\ received \in [Leads -> Nat]
    /\ terms \in [Terms -> TermStates]
    /\ clawback \in [Clawbacks -> [cents : 0..GrossCents, by : PayoutRows \union {0}]]
    /\ payout \in [PayoutRows -> Payouts \union {NoPayout}]
    /\ \A k \in PayoutRows : payout[k] \in Payouts => LawfulRow(payout[k])

PayoutRequestOK(r) ==
    /\ r.op = "draft" => r.after \in Nat
    /\ r.op = "activate" => r.on \in Terms
    /\ r.op = "compute" => r.row \in Payouts /\ LawfulRow(r.row)
    /\ r.op \in {"approve", "decline payout"} => r.on \in PayoutRows /\ payout[r.on] \in Payouts

PayoutRequestsOK == \A c \in Clerks : PayoutRequestOK(request[c])

\* What no step undoes.
PayoutSettles == /\ rule' = rule
                 /\ \A k \in PayoutRows : payout[k] \in Payouts => payout'[k] \in Payouts

LEMMA PayoutNumbers ==
    /\ Terms \subseteq Nat \ {0} /\ PayoutRows \subseteq Nat \ {0} /\ Clawbacks \subseteq Nat \ {0}
    /\ IsFiniteSet(Terms) /\ IsFiniteSet(PayoutRows) /\ IsFiniteSet(Clawbacks)
    /\ IsFiniteSet(Leads)
    /\ Share \in [Terms -> Nat] /\ CapShare \in Nat /\ GrossCents \in Nat /\ Whole \in Nat \ {0}
<1>1. ASSUME NEW set \in {Terms, PayoutRows, Clawbacks}
      PROVE  IsFiniteSet(set) /\ set \subseteq Nat \ {0}
  <2>1. IsFiniteSet(set) /\ set = 1..Cardinality(set)
    BY PayoutAssumption
  <2>2. Cardinality(set) \in Nat
    BY <2>1, FS_CardinalityType
  <2>3. 1..Cardinality(set) \subseteq Nat \ {0}
    BY <2>2
  <2> QED
    BY <2>1, <2>3
<1> QED
  BY <1>1, PayoutAssumption

LEMMA NotYetPaid == NoPayout.status = "none" /\ NoPayout \notin Payouts
<1>1. NoPayout.status = "none"
  BY DEF NoPayout
<1>2. \A row \in Payouts : row.status # "none"
  BY DEF Payouts, PayoutStates
<1> QED
  BY <1>1, <1>2

LEMMA PayoutInitOK ==
    ASSUME PayoutInit, request = [c \in Clerks |-> AtRest]
    PROVE  PayoutRowsOK /\ PayoutRequestsOK
<1>1. [cents |-> 0, by |-> 0] \in [cents : 0..GrossCents, by : PayoutRows \union {0}]
  BY PayoutNumbers
<1>2. PayoutRowsOK
  BY <1>1, NotYetPaid DEF PayoutInit, PayoutRowsOK, RuleAnswers, TermStates
<1>3. PayoutRequestsOK
  BY DEF PayoutRequestsOK, PayoutRequestOK, AtRest
<1> QED
  BY <1>2, <1>3

LEMMA PayoutTypes ==
    ASSUME PayoutRowsOK
    PROVE  PayoutTypeOK
<1>1. ASSUME NEW k \in PayoutRows
      PROVE  payout[k].status \in {"none", "pending", "approved", "declined"}
  <2>1. payout[k] \in Payouts \union {NoPayout}
    BY DEF PayoutRowsOK
  <2>2. payout[k] \in Payouts => payout[k].status \in PayoutStates
    BY DEF Payouts
  <2> QED
    BY <2>1, <2>2, NotYetPaid DEF PayoutStates
<1> QED
  BY <1>1 DEF PayoutRowsOK, PayoutTypeOK, TermStates

LEMMA RowsAreLawful ==
    ASSUME PayoutRowsOK
    PROVE  LawfulPayout
<1>1. ASSUME NEW k \in PayoutRows, payout[k].status # "none" PROVE LawfulRow(payout[k])
  <2>1. payout[k] \in Payouts
    BY <1>1, NotYetPaid DEF PayoutRowsOK
  <2> QED
    BY <2>1 DEF PayoutRowsOK
<1> QED
  BY <1>1 DEF LawfulPayout, LawfulRow

\* A product grows with either factor.
LEMMA ProductGrows ==
    ASSUME NEW r \in Nat, NEW s \in Nat, NEW t \in Nat, s <= t
    PROVE  r * s \in Nat /\ r * s <= r * t
<1>1. PICK d \in Nat : t = s + d
  <2>1. t - s \in Nat /\ t = s + (t - s)
    OBVIOUS
  <2> QED
    BY <2>1
<1>2. r * t = r * s + r * d
  BY <1>1
<1>3. r * s \in Nat /\ r * d \in Nat
  BY <1>1
<1> DEFINE low == r * s
           more == r * d
           high == r * t
<1> HIDE DEF low, more, high
<1>4. low \in Nat /\ more \in Nat /\ high = low + more
  BY <1>2, <1>3 DEF low, more, high
<1>5. low <= high
  BY <1>4
<1> QED
  BY <1>4, <1>5 DEF low, high

\* Rounding down takes no more than the share (applyShare).
LEMMA ShareIsRoundedDown ==
    ASSUME NEW cents \in Nat, NEW share \in Nat
    PROVE  /\ ApplyShare(cents, share) \in Nat
           /\ Whole * ApplyShare(cents, share) <= cents * share
<1>1. Whole \in Nat \ {0}
  BY PayoutNumbers
<1>2. cents * share \in Nat
  OBVIOUS
<1> DEFINE p == cents * share
<1>3. p \in Nat
  BY <1>2
<1> HIDE DEF p
<1>4. p \div Whole \in Nat /\ Whole * (p \div Whole) <= p
  BY <1>1, <1>3
<1> QED
  BY <1>4 DEF ApplyShare, p

\* What a line says, whatever the terms agree (computePayout).
LEMMA LinesAreLawful ==
    ASSUME PayoutRowsOK, Unanswerable = {}, NEW t \in Terms
    PROVE  /\ \A l \in Leads : LineOf(l, t) \in Nat
           /\ \A l \in Leads :
                 /\ received[l] > 0 => rule[l] # "silent"
                 /\ rule[l] = "prohibited" => LineOf(l, t) = 0
                 /\ rule[l] = "capped" => Whole * LineOf(l, t) <= CapShare * received[l]
<1> SUFFICES ASSUME NEW l \in Leads
             PROVE  /\ LineOf(l, t) \in Nat
                    /\ received[l] > 0 => rule[l] # "silent"
                    /\ rule[l] = "prohibited" => LineOf(l, t) = 0
                    /\ rule[l] = "capped" => Whole * LineOf(l, t) <= CapShare * received[l]
  OBVIOUS
<1>1. received[l] \in Nat /\ Share[t] \in Nat /\ CapShare \in Nat /\ Whole \in Nat
  BY PayoutNumbers DEF PayoutRowsOK
<1>2. received[l] > 0 => rule[l] # "silent"
  BY DEF Unanswerable
<1> DEFINE least == LesserOf(Share[t], CapShare)
<1>3. least \in Nat /\ least <= CapShare
  BY <1>1, LesserIsNat
<1> HIDE DEF least
<1>4. CASE received[l] = 0 \/ rule[l] = "prohibited"
  <2>1. LineOf(l, t) = 0
    BY <1>4 DEF LineOf
  <2>2. Whole * 0 = 0 /\ CapShare * received[l] \in Nat
    BY <1>1
  <2>3. Whole * 0 <= CapShare * received[l]
    BY <2>2
  <2> QED
    BY <1>2, <2>1, <2>3
<1>5. CASE received[l] > 0 /\ rule[l] = "capped"
  <2>1. LineOf(l, t) = ApplyShare(received[l], least)
    BY <1>1, <1>5 DEF LineOf, least
  <2> DEFINE line == ApplyShare(received[l], least)
             part == received[l] * least
             all == received[l] * CapShare
  <2>2. line \in Nat /\ Whole * line <= part
    BY <1>1, <1>3, ShareIsRoundedDown
  <2>3. part \in Nat /\ part <= all
    BY <1>1, <1>3, ProductGrows
  <2>4. all = CapShare * received[l] /\ all \in Nat /\ Whole * line \in Nat
    BY <1>1, <2>2
  <2>5. Whole * line <= all
    <3> DEFINE w == Whole * line
    <3> HIDE DEF w, part, all
    <3>1. w \in Nat /\ w <= part /\ part <= all /\ part \in Nat /\ all \in Nat
      BY <2>2, <2>3, <2>4 DEF w
    <3>2. w <= all
      BY <3>1
    <3> QED
      BY <3>2 DEF w
  <2> QED
    BY <1>2, <1>5, <2>1, <2>2, <2>4, <2>5
<1>6. CASE received[l] > 0 /\ rule[l] \notin {"prohibited", "capped"}
  <2>1. LineOf(l, t) = ApplyShare(received[l], Share[t])
    BY <1>1, <1>6 DEF LineOf
  <2> QED
    BY <1>1, <1>2, <1>6, <2>1, ShareIsRoundedDown
<1> QED
  BY <1>1, <1>4, <1>5, <1>6

\* Cents of some clawbacks.
LEMMA CentsAreNumbers ==
    ASSUME PayoutRowsOK, NEW js \in SUBSET Clawbacks
    PROVE  /\ CentsOf(js) \in Nat
           /\ js = {} => CentsOf(js) = 0
           /\ \A ks \in SUBSET js : CentsOf(ks) <= CentsOf(js)
<1> DEFINE f == [j \in js |-> clawback[j].cents]
<1>1. IsFiniteSet(js)
  BY PayoutNumbers, FS_Subset
<1>2. \A j \in js : clawback[j].cents \in Nat
  BY PayoutNumbers DEF PayoutRowsOK
<1>3. Summable(f)
  BY <1>1, <1>2 DEF Summable
<1>4. CentsOf(js) \in Nat
  BY <1>3, SumIsNat DEF CentsOf
<1>5. js = {} => CentsOf(js) = 0
  <2>1. DOMAIN f = js
    OBVIOUS
  <2> HIDE DEF f
  <2>2. js = {} => SumOf(f) = 0
    BY <2>1, SumOfNothing
  <2> QED
    BY <2>2 DEF CentsOf, f
<1>6. ASSUME NEW ks \in SUBSET js PROVE CentsOf(ks) <= CentsOf(js)
  <2> DEFINE a == [j \in ks |-> f[j]]
             b == [j \in DOMAIN f \ ks |-> f[j]]
  <2>1. a = [j \in ks |-> clawback[j].cents]
    OBVIOUS
  <2>2. ks \in SUBSET DOMAIN f
    OBVIOUS
  <2> HIDE DEF f
  <2>3. Summable(a) /\ Summable(b) /\ SumOf(f) = SumOf(a) + SumOf(b)
    BY <1>3, <2>2, SumSplits
  <2> HIDE DEF a, b
  <2>4. SumOf(a) \in Nat /\ SumOf(b) \in Nat
    BY <2>3, SumIsNat
  <2>5. SumOf(a) <= SumOf(f)
    BY <2>3, <2>4
  <2> QED
    BY <2>1, <2>5 DEF CentsOf, f
<1> QED
  BY <1>4, <1>5, <1>6

\* The clawbacks that an approval covers cost no more than it deducted
\* (settleClawbacks).
LEMMA CoveredIsDeducted ==
    ASSUME PayoutRowsOK, NEW d \in Nat
    PROVE  CentsOf(Covered(d)) <= d
<1>1. Covered(d) \subseteq Open /\ Open \subseteq Clawbacks
  BY DEF Covered, Open
<1>2. CASE Covered(d) = {}
  <2>1. CentsOf(Covered(d)) = 0
    BY <1>1, <1>2, CentsAreNumbers
  <2> QED
    BY <2>1
<1>3. CASE Covered(d) # {}
  <2> DEFINE m == Max(Covered(d))
             upto == {i \in Open : i <= m}
  <2>1. m \in Covered(d) /\ \A i \in Covered(d) : i <= m
    <3>1. IsFiniteSet(Covered(d)) /\ Covered(d) \in SUBSET Nat
      BY <1>1, PayoutNumbers, FS_Subset
    <3> QED
      BY <1>3, <3>1, MaxIsGreatest
  <2> HIDE DEF m
  <2>2. CentsOf(upto) <= d
    BY <2>1 DEF Covered
  <2>3. Covered(d) \subseteq upto /\ upto \subseteq Clawbacks
    BY <1>1, <2>1
  <2>4. CentsOf(upto) \in Nat /\ CentsOf(Covered(d)) \in Nat
        /\ CentsOf(Covered(d)) <= CentsOf(upto)
    BY <1>1, <2>3, CentsAreNumbers
  <2> HIDE DEF upto
  <2> QED
    BY <2>2, <2>4
<1> QED
  BY <1>2, <1>3

LEMMA PayoutRequestsKept ==
    ASSUME NEW c \in Clerks, NEW next, Turns(c, next), PayoutRequestsOK,
           PayoutRequestOK(next)', PayoutSettles
    PROVE  RequestsOK' /\ PayoutRequestsOK'
<1>1. ASSUME NEW r, PayoutRequestOK(r) PROVE PayoutRequestOK(r)'
  BY <1>1 DEF PayoutRequestOK, PayoutSettles, LawfulRow
<1>2. ASSUME NEW d \in Clerks PROVE PayoutRequestOK(request[d])'
  <2>1. CASE d = c
    BY <2>1, Zenon DEF Turns, PayoutRequestOK, LawfulRow
  <2>2. CASE d # c
    BY <1>1, <2>2 DEF Turns, PayoutRequestsOK
  <2> QED
    BY <2>1, <2>2
<1> QED
  BY <1>2 DEF Turns, PayoutRequestsOK

LEMMA PayoutStep ==
    ASSUME RequestsOK, PayoutRowsOK, PayoutRequestsOK, PayoutNext
    PROVE  RequestsOK' /\ PayoutRowsOK' /\ PayoutRequestsOK'
<1> DEFINE Serves(c, next) == /\ Turns(c, next) /\ PayoutRowsOK' /\ PayoutRequestOK(next)'
                              /\ PayoutSettles
           Looks(c, next) == /\ Turns(c, next) /\ UNCHANGED payoutRows /\ PayoutRequestOK(next)
<1>1. PayoutRequestOK(AtRest) /\ PayoutRequestOK(AtRest)'
  BY DEF PayoutRequestOK, AtRest
<1>2. ASSUME NEW c \in Clerks PROVE PayoutRequestOK(request[c])
  BY DEF PayoutRequestsOK
<1>3. ASSUME NEW c \in Clerks, NEW next, Looks(c, next) PROVE Serves(c, next)
  <2>1. UNCHANGED <<rule, received, terms, payout, clawback>> /\ PayoutRequestOK(next)
    BY <1>3 DEF payoutRows
  <2>2. PayoutRowsOK' /\ PayoutSettles
    BY <2>1 DEF PayoutRowsOK, PayoutSettles, LawfulRow
  <2>3. PayoutRequestOK(next)'
    BY <2>1 DEF PayoutRequestOK, LawfulRow
  <2> QED
    BY <1>3, <2>2, <2>3
\* A writer that leaves the payouts alone.
<1>4. ASSUME NEW c \in Clerks, Turns(c, AtRest), UNCHANGED <<rule, received, payout>>,
             terms' \in [Terms -> TermStates],
             clawback' \in [Clawbacks -> [cents : 0..GrossCents, by : PayoutRows \union {0}]]
      PROVE  Serves(c, AtRest)
  BY <1>1, <1>4 DEF PayoutRowsOK, PayoutSettles, LawfulRow
\* And one that writes a payout that is lawful.
<1>5. ASSUME NEW c \in Clerks, Turns(c, AtRest), UNCHANGED <<rule, received, terms>>,
             clawback' \in [Clawbacks -> [cents : 0..GrossCents, by : PayoutRows \union {0}]],
             NEW k \in PayoutRows, NEW row \in Payouts, LawfulRow(row),
             payout' = [payout EXCEPT ![k] = row]
      PROVE  Serves(c, AtRest)
  <2>1. PayoutRowsOK'
    <3>1. payout' \in [PayoutRows -> Payouts \union {NoPayout}]
      BY <1>5 DEF PayoutRowsOK
    <3>2. ASSUME NEW j \in PayoutRows, payout'[j] \in Payouts PROVE LawfulRow(payout'[j])
      BY <1>5, <3>2 DEF PayoutRowsOK
    <3>3. \A r : LawfulRow(r) => LawfulRow(r)'
      BY <1>5 DEF LawfulRow
    <3>4. \A j \in PayoutRows : (payout[j] \in Payouts => LawfulRow(payout[j]))'
      BY <1>5, <3>2 DEF LawfulRow
    <3> QED
      BY <1>5, <3>1, <3>4 DEF PayoutRowsOK
  <2>2. PayoutSettles
    BY <1>5 DEF PayoutRowsOK, PayoutSettles
  <2> QED
    BY <1>1, <1>5, <2>1, <2>2
\* A decision changes the status of a payout and nothing the law asks about.
<1>6. ASSUME NEW row \in Payouts, LawfulRow(row), NEW status \in PayoutStates
      PROVE  [row EXCEPT !.status = status] \in Payouts
             /\ LawfulRow([row EXCEPT !.status = status])
  <2>1. PICK decided : decided = [row EXCEPT !.status = status]
    OBVIOUS
  <2>2. /\ decided \in Payouts /\ decided.from = row.from /\ decided.lines = row.lines
    BY <2>1 DEF Payouts
  <2>3. LawfulRow(decided)
    BY <1>6, <2>2 DEF LawfulRow
  <2> QED
    BY <2>1, <2>2, <2>3
<1>7. CASE Receive
  <2>1. PICK l \in Leads : received' = [received EXCEPT ![l] = GrossCents]
    BY <1>7 DEF Receive
  <2>2. UNCHANGED <<rule, terms, payout, clawback, request>>
    BY <1>7 DEF Receive, deskVars
  <2>3. PayoutRowsOK'
    BY <2>1, <2>2, PayoutNumbers DEF PayoutRowsOK, LawfulRow
  <2>4. PayoutRequestsOK'
    BY <2>2 DEF PayoutRequestsOK, PayoutRequestOK, LawfulRow
  <2> QED
    BY <2>2, <2>3, <2>4, RequestsStay
<1>8. ASSUME NEW c \in Clerks, DraftAgreement(c) PROVE \E next : Serves(c, next)
  <2>1. CASE Begins(c, [op |-> "draft", after |-> Cardinality(Drafted)]) /\ UNCHANGED payoutRows
    <3>1. Cardinality(Drafted) \in Nat
      <4>1. IsFiniteSet(Drafted)
        BY PayoutNumbers, FS_Subset DEF Drafted
      <4> QED
        BY <4>1, FS_CardinalityType
    <3>2. PayoutRequestOK([op |-> "draft", after |-> Cardinality(Drafted)])
      BY <3>1 DEF PayoutRequestOK
    <3> QED
      BY <1>3, <2>1, <3>2, DeskTurns
  <2>2. CASE Doing(c, "draft")
    <3>1. Finishes(c) /\ UNCHANGED <<rule, received, payout, clawback>>
      BY <1>8, <2>2 DEF DraftAgreement, Begins, Doing
    <3>2. terms' \in [Terms -> TermStates]
      BY <1>8, <2>2 DEF DraftAgreement, Begins, Doing, PayoutRowsOK, TermStates
    <3> QED
      BY <1>4, <3>1, <3>2, DeskTurns DEF PayoutRowsOK
  <2> QED
    BY <1>8, <2>1, <2>2 DEF DraftAgreement
<1>9. ASSUME NEW c \in Clerks, ActivateAgreement(c) PROVE \E next : Serves(c, next)
  <2>1. CASE \E t \in Terms : /\ terms[t] = "draft"
                              /\ Begins(c, [op |-> "activate", on |-> t, over |-> InForce])
                              /\ UNCHANGED payoutRows
    <3>1. PICK t \in Terms : /\ Begins(c, [op |-> "activate", on |-> t, over |-> InForce])
                             /\ UNCHANGED payoutRows
      BY <2>1
    <3>2. PayoutRequestOK([op |-> "activate", on |-> t, over |-> InForce])
      BY DEF PayoutRequestOK
    <3> QED
      BY <1>3, <3>1, <3>2, DeskTurns
  <2>2. CASE Doing(c, "activate")
    <3>1. Finishes(c) /\ UNCHANGED <<rule, received, payout, clawback>>
      BY <1>9, <2>2 DEF ActivateAgreement, Begins, Doing
    <3>2. terms' = [t \in Terms |-> IF t = request[c].on THEN "active"
                                    ELSE IF t \in request[c].over THEN "superseded"
                                    ELSE terms[t]]
      BY <1>9, <2>2 DEF ActivateAgreement, Begins, Doing
    <3>3. terms' \in [Terms -> TermStates]
      BY <3>2 DEF PayoutRowsOK, TermStates
    <3> QED
      BY <1>4, <3>1, <3>3, DeskTurns DEF PayoutRowsOK
  <2> QED
    BY <1>9, <2>1, <2>2 DEF ActivateAgreement
<1>10. ASSUME NEW c \in Clerks, ComputePayout(c) PROVE \E next : Serves(c, next)
  <2>1. CASE ~Doing(c, "compute")
    <3> DEFINE t == Max(InForce)
               lines == [l \in Leads |-> LineOf(l, t)]
               owed == LesserOf(SumOf(lines), CentsOf(Open))
    <3>1. /\ InForce # {} /\ Unanswerable = {} /\ UNCHANGED payoutRows
          /\ Begins(c, [op |-> "compute",
                        row |-> [status |-> "pending", from |-> received, lines |-> lines,
                                 deducted |-> owed]])
      BY <1>10, <2>1 DEF ComputePayout
    <3>2. t \in Terms
      <4>1. InForce \subseteq Terms
        BY DEF InForce
      <4>2. IsFiniteSet(InForce) /\ InForce \in SUBSET Nat
        BY <4>1, PayoutNumbers, FS_Subset
      <4> QED
        BY <3>1, <4>1, <4>2, MaxIsGreatest
    <3> HIDE DEF t
    <3>3. /\ \A l \in Leads : LineOf(l, t) \in Nat
          /\ \A l \in Leads :
                /\ received[l] > 0 => rule[l] # "silent"
                /\ rule[l] = "prohibited" => LineOf(l, t) = 0
                /\ rule[l] = "capped" => Whole * LineOf(l, t) <= CapShare * received[l]
      BY <3>1, <3>2, LinesAreLawful
    <3>4. lines \in [Leads -> Nat] /\ \A l \in Leads : lines[l] = LineOf(l, t)
      BY <3>3
    <3> HIDE DEF lines
    <3>5. SumOf(lines) \in Nat
      <4>1. Summable(lines)
        BY <3>4, PayoutNumbers DEF Summable
      <4> QED
        BY <4>1, SumIsNat
    <3>6. CentsOf(Open) \in Nat
      BY CentsAreNumbers DEF Open
    <3>7. owed \in Nat
      BY <3>5, <3>6, LesserIsNat
    <3> HIDE DEF owed
    <3>8. PICK row : row = [status |-> "pending", from |-> received, lines |-> lines,
                            deducted |-> owed]
      OBVIOUS
    <3>9. row \in Payouts /\ row.from = received /\ row.lines = lines
      BY <3>4, <3>7, <3>8 DEF Payouts, PayoutStates, PayoutRowsOK
    <3>10. LawfulRow(row)
      BY <3>3, <3>4, <3>9 DEF LawfulRow
    <3>11. PayoutRequestOK([op |-> "compute", row |-> row])
      BY <3>9, <3>10 DEF PayoutRequestOK
    <3> QED
      BY <1>3, <3>1, <3>8, <3>11, DeskTurns
  <2>2. CASE Doing(c, "compute")
    <3> DEFINE free == {k \in PayoutRows : payout[k].status = "none"}
    <3>1. request[c].row \in Payouts /\ LawfulRow(request[c].row)
      BY <1>2, <2>2 DEF PayoutRequestOK, Doing
    <3>2. /\ Finishes(c) /\ UNCHANGED <<rule, received, terms, clawback>>
          /\ payout' = IF free = {} THEN payout ELSE [payout EXCEPT ![Min(free)] = request[c].row]
      BY <1>10, <2>2 DEF ComputePayout, Begins, Doing
    <3>3. CASE free = {}
      BY <1>4, <3>2, <3>3, DeskTurns DEF PayoutRowsOK
    <3>4. CASE free # {}
      <4>1. IsFiniteSet(free) /\ free \in SUBSET Nat
        BY PayoutNumbers, FS_Subset
      <4>2. Min(free) \in PayoutRows
        BY <3>4, <4>1, MinIsOne
      <4> DEFINE k == Min(free)
      <4>3. payout' = [payout EXCEPT ![k] = request[c].row]
        BY <3>2, <3>4
      <4> HIDE DEF k, free
      <4>4. k \in PayoutRows
        BY <4>2 DEF k
      <4> QED
        BY <1>5, <3>1, <3>2, <4>3, <4>4, DeskTurns DEF PayoutRowsOK
    <3> QED
      BY <3>3, <3>4
  <2> QED
    BY <2>1, <2>2
\* A decision is on a payout there is.
<1>11. ASSUME NEW c \in Clerks, Doing(c, "approve") \/ Doing(c, "decline payout"),
              NEW status \in {"approved", "declined"}
       PROVE  LET row == [payout[request[c].on] EXCEPT !.status = status]
              IN  /\ request[c].on \in PayoutRows /\ row \in Payouts /\ LawfulRow(row)
                  /\ [payout EXCEPT ![request[c].on].status = status]
                        = [payout EXCEPT ![request[c].on] = row]
  <2>1. request[c].on \in PayoutRows /\ payout[request[c].on] \in Payouts
    BY <1>2, <1>11 DEF PayoutRequestOK, Doing
  <2>2. LawfulRow(payout[request[c].on])
    BY <2>1 DEF PayoutRowsOK
  <2>3. status \in PayoutStates
    BY DEF PayoutStates
  <2> QED
    BY <1>6, <2>1, <2>2, <2>3
<1>12. ASSUME NEW c \in Clerks, ApprovePayout(c) PROVE \E next : Serves(c, next)
  <2>1. CASE \E k \in PayoutRows : /\ payout[k].status = "pending"
                                   /\ Begins(c, [op |-> "approve", on |-> k])
                                   /\ UNCHANGED payoutRows
    <3>1. PICK k \in PayoutRows : /\ payout[k].status = "pending"
                                  /\ Begins(c, [op |-> "approve", on |-> k])
                                  /\ UNCHANGED payoutRows
      BY <2>1
    <3>2. payout[k] \in Payouts
      BY <3>1, NotYetPaid DEF PayoutRowsOK
    <3>3. PayoutRequestOK([op |-> "approve", on |-> k])
      BY <3>2 DEF PayoutRequestOK
    <3> QED
      BY <1>3, <3>1, <3>3, DeskTurns
  <2>2. CASE Doing(c, "approve")
    <3> DEFINE k == request[c].on
               row == [payout[k] EXCEPT !.status = "approved"]
    <3>1. /\ payout' = [payout EXCEPT ![k].status = "approved"]
          /\ clawback' = [j \in Clawbacks |->
                 IF j \in Covered(payout[k].deducted) THEN [clawback[j] EXCEPT !.by = k]
                                                      ELSE clawback[j]]
          /\ Finishes(c) /\ UNCHANGED <<rule, received, terms>>
      BY <1>12, <2>2 DEF ApprovePayout, Begins, Doing
    <3>2. /\ k \in PayoutRows /\ row \in Payouts /\ LawfulRow(row)
          /\ payout' = [payout EXCEPT ![k] = row]
      BY <1>11, <2>2, <3>1
    <3> HIDE DEF k, row
    <3>3. clawback' \in [Clawbacks -> [cents : 0..GrossCents, by : PayoutRows \union {0}]]
      BY <3>1, <3>2 DEF PayoutRowsOK
    <3> QED
      BY <1>5, <3>1, <3>2, <3>3, DeskTurns
  <2> QED
    BY <1>12, <2>1, <2>2 DEF ApprovePayout
<1>13. ASSUME NEW c \in Clerks, DeclinePayout(c) PROVE \E next : Serves(c, next)
  <2>1. CASE \E k \in PayoutRows : /\ payout[k].status = "pending"
                                   /\ Begins(c, [op |-> "decline payout", on |-> k])
                                   /\ UNCHANGED payoutRows
    <3>1. PICK k \in PayoutRows : /\ payout[k].status = "pending"
                                  /\ Begins(c, [op |-> "decline payout", on |-> k])
                                  /\ UNCHANGED payoutRows
      BY <2>1
    <3>2. payout[k] \in Payouts
      BY <3>1, NotYetPaid DEF PayoutRowsOK
    <3>3. PayoutRequestOK([op |-> "decline payout", on |-> k])
      BY <3>2 DEF PayoutRequestOK
    <3> QED
      BY <1>3, <3>1, <3>3, DeskTurns
  <2>2. CASE Doing(c, "decline payout")
    <3> DEFINE k == request[c].on
               row == [payout[k] EXCEPT !.status = "declined"]
    <3>1. /\ payout' = [payout EXCEPT ![k].status = "declined"]
          /\ Finishes(c) /\ UNCHANGED <<rule, received, terms, clawback>>
      BY <1>13, <2>2 DEF DeclinePayout, Begins, Doing
    <3>2. /\ k \in PayoutRows /\ row \in Payouts /\ LawfulRow(row)
          /\ payout' = [payout EXCEPT ![k] = row]
      BY <1>11, <2>2, <3>1
    <3> HIDE DEF k, row
    <3> QED
      BY <1>5, <3>1, <3>2, DeskTurns DEF PayoutRowsOK
  <2> QED
    BY <1>13, <2>1, <2>2 DEF DeclinePayout
<1>14. ASSUME NEW c \in Clerks, RecordClawback(c) PROVE \E next : Serves(c, next)
  <2>1. PICK j \in Clawbacks, cents \in 1..GrossCents :
           /\ Begins(c, AtRest) /\ clawback' = [clawback EXCEPT ![j].cents = cents]
           /\ UNCHANGED <<rule, received, terms, payout>>
    BY <1>14 DEF RecordClawback
  <2>2. cents \in 0..GrossCents
    BY PayoutNumbers
  <2>3. clawback' \in [Clawbacks -> [cents : 0..GrossCents, by : PayoutRows \union {0}]]
    BY <2>1, <2>2 DEF PayoutRowsOK
  <2> QED
    BY <1>4, <2>1, <2>3, DeskTurns DEF PayoutRowsOK
<1>15. ASSUME NEW c \in Clerks, ClerkDies(c) /\ UNCHANGED payoutRows
       PROVE  \E next : Serves(c, next)
  BY <1>1, <1>3, <1>15, DeskTurns
<1>16. CASE ~Receive
  <2>1. PICK c, next : c \in Clerks /\ Serves(c, next)
    BY <1>8, <1>9, <1>10, <1>12, <1>13, <1>14, <1>15, <1>16 DEF PayoutNext
  <2> QED
    BY <2>1, PayoutRequestsKept
<1> QED
  BY <1>7, <1>16

\* Clawbacks that keep their payouts are not written off.
LEMMA NothingIsSettled ==
    ASSUME PayoutRowsOK, NEW k \in PayoutRows,
           \A j \in Clawbacks : clawback'[j].by = clawback[j].by
    PROVE  CentsOf({j \in Open : clawback'[j].by = k}) <= payout[k].deducted
<1>1. payout[k].deducted \in Nat
  <2>1. payout[k] \in Payouts \union {NoPayout}
    BY DEF PayoutRowsOK
  <2>2. NoPayout.deducted = 0
    BY DEF NoPayout
  <2> QED
    BY <2>1, <2>2 DEF Payouts
<1> DEFINE settled == {j \in Open : clawback'[j].by = k}
<1>2. settled = {}
  BY PayoutNumbers DEF Open
<1> HIDE DEF settled
<1>3. CentsOf(settled) = 0
  BY <1>2, CentsAreNumbers
<1>4. CentsOf(settled) <= payout[k].deducted
  BY <1>1, <1>3
<1> QED
  BY <1>4 DEF settled

\* Only an approval settles clawbacks, and its own payout settles them.
LEMMA WriteOffsAreDeducted ==
    ASSUME PayoutRowsOK, PayoutRequestsOK, PayoutNext, NEW k \in PayoutRows
    PROVE  CentsOf({j \in Open : clawback'[j].by = k}) <= payout[k].deducted
<1> DEFINE settled == {j \in Open : clawback'[j].by = k}
<1>1. payout[k].deducted \in Nat
  <2>1. payout[k] \in Payouts \union {NoPayout}
    BY DEF PayoutRowsOK
  <2>2. NoPayout.deducted = 0
    BY DEF NoPayout
  <2> QED
    BY <2>1, <2>2 DEF Payouts
<1>2. k # 0 /\ settled \subseteq Clawbacks
  BY PayoutNumbers DEF Open
<1>3. CASE settled = {}
  <2>1. CentsOf(settled) = 0
    BY <1>2, <1>3, CentsAreNumbers
  <2> QED
    BY <1>1, <2>1
<1>4. CASE \A j \in Clawbacks : clawback'[j].by = clawback[j].by
  BY <1>4, NothingIsSettled
<1>5. CASE \E c \in Clerks : Doing(c, "approve") /\ ApprovePayout(c)
  <2>1. PICK c \in Clerks : Doing(c, "approve") /\ ApprovePayout(c)
    BY <1>5
  <2> DEFINE on == request[c].on
             d == payout[on].deducted
  <2>2. clawback' = [j \in Clawbacks |->
                        IF j \in Covered(d) THEN [clawback[j] EXCEPT !.by = on] ELSE clawback[j]]
    BY <2>1 DEF ApprovePayout, Begins, Doing
  <2>3. Covered(d) \subseteq Open /\ Open \subseteq Clawbacks
    BY DEF Covered, Open
  <2> HIDE DEF d, on
  <2>4. CASE on = k
    <3>1. settled = Covered(d)
      BY <1>2, <2>2, <2>3, <2>4 DEF PayoutRowsOK, Open
    <3>2. d = payout[k].deducted
      BY <2>4 DEF d
    <3> HIDE DEF settled
    <3>3. CentsOf(settled) <= payout[k].deducted
      BY <1>1, <3>1, <3>2, CoveredIsDeducted
    <3> QED
      BY <3>3 DEF settled
  <2>5. CASE on # k
    BY <1>2, <1>3, <2>2, <2>3, <2>5 DEF PayoutRowsOK, Open
  <2> QED
    BY <2>4, <2>5
<1>6. ASSUME NEW c \in Clerks, RecordClawback(c)
      PROVE  \A j \in Clawbacks : clawback'[j].by = clawback[j].by
  BY <1>6 DEF RecordClawback, PayoutRowsOK
<1>7. CASE clawback' = clawback
  BY <1>4, <1>7
<1>8. clawback' = clawback \/ (\E c \in Clerks : RecordClawback(c))
      \/ (\E c \in Clerks : Doing(c, "approve") /\ ApprovePayout(c))
  <2>1. CASE Receive
    BY <2>1 DEF Receive
  <2>2. ASSUME NEW c \in Clerks,
               DraftAgreement(c) \/ ActivateAgreement(c) \/ ComputePayout(c)
               \/ DeclinePayout(c) \/ (ClerkDies(c) /\ UNCHANGED payoutRows)
        PROVE  clawback' = clawback
    BY <2>2 DEF DraftAgreement, ActivateAgreement, ComputePayout, DeclinePayout, payoutRows
  <2>3. ASSUME NEW c \in Clerks, ApprovePayout(c), ~Doing(c, "approve")
        PROVE  clawback' = clawback
    BY <2>3 DEF ApprovePayout, payoutRows
  <2> QED
    BY <2>1, <2>2, <2>3 DEF PayoutNext
<1> QED
  BY <1>4, <1>5, <1>6, <1>7, <1>8

-----------------------------------------------------------------------------
(***************************************************************************)
(* Billing.  Every version before one that was published is superseded,    *)
(* and every balance is the sum of the records that explain it.            *)
(***************************************************************************)
OfferStates     == {"none", "current", "superseded"}
Charges         == {"retainer", "fee"}
EngagementRows  == [status : {"none", "active", "cancelled"}, prepay : BOOLEAN, started : Nat,
                    ended : Nat, charges : SUBSET Charges]
RefundRows      == [paid : Nat, declined : Nat]
OutcomeRows     == [status : {"none", "approved", "funded"}, on : Nat]

OffersInOrder ==
    \A v, w \in Versions : w < v /\ offer[v] # "none" => offer[w] = "superseded"

BillingRowsOK ==
    /\ offer \in [Versions -> OfferStates] /\ OffersInOrder
    /\ engagement \in [Engagements -> EngagementRows]
    /\ payment \in [Payments -> Engagements \union {0}]
    /\ drawn \in [Payments -> [Engagements -> Nat]]
    /\ refunded \in [Engagements -> Nat] /\ credited \in [Engagements -> Nat]
    /\ refund \in [Engagements -> [Triggers -> RefundRows]]
    /\ outcome \in [Engagements -> OutcomeRows]
    /\ handRefunded \in [Engagements -> Nat] /\ handCredited \in [Engagements -> Nat]
    /\ MoneyIsExplained

\* The version a publisher read, if any, was published.
ReadOffer(read) == read = {} \/ \E m \in Versions : read = {m} /\ offer[m] # "none"

BillingRequestOK(r) ==
    /\ r.op = "publish" => ReadOffer(r.on)
    /\ r.op \in {"refund", "decline"} =>
          r.on \in Engagements /\ r.due.trigger \in Triggers /\ r.due.cents \in Nat
    /\ r.op = "credit" => /\ r.on \in Engagements /\ r.cents \in Nat
                          /\ \E from \in SUBSET Payments : r.from \in [from -> Nat]
                          /\ r.cents <= SumOf(r.from)

BillingRequestsOK == \A c \in Clerks : BillingRequestOK(request[c])

\* What no step undoes.
BillingSettles == \A m \in Versions : offer[m] # "none" => offer'[m] # "none"

LEMMA BillingNumbers ==
    /\ \A set \in {Engagements, Payments, Versions} :
          /\ IsFiniteSet(set) /\ set \subseteq Nat \ {0}
          /\ \E N \in Nat : set = 1..N
    /\ PaidCents \in Nat /\ RetainerCents \in Nat /\ FeeCents \in Nat /\ HandCents \in Nat
    /\ NotFundedDays \in Nat /\ Term \in Nat \ {0}
<1>1. ASSUME NEW set \in {Engagements, Payments, Versions}
      PROVE  IsFiniteSet(set) /\ set \subseteq Nat \ {0} /\ \E N \in Nat : set = 1..N
  <2>1. IsFiniteSet(set) /\ set = 1..Cardinality(set)
    BY BillingAssumption
  <2>2. Cardinality(set) \in Nat
    BY <2>1, FS_CardinalityType
  <2>3. 1..Cardinality(set) \subseteq Nat \ {0}
    BY <2>2
  <2> QED
    BY <2>1, <2>2, <2>3
<1>2. /\ PaidCents \in Nat /\ RetainerCents \in Nat /\ FeeCents \in Nat /\ HandCents \in Nat
      /\ NotFundedDays \in Nat /\ Term \in Nat \ {0}
  BY BillingAssumption
<1> QED
  BY <1>1, <1>2

LEMMA BillingSets ==
    /\ IsFiniteSet(Engagements) /\ IsFiniteSet(Payments) /\ IsFiniteSet(Triggers)
    /\ Engagements \subseteq Nat \ {0} /\ Payments \subseteq Nat \ {0}
    /\ Versions \subseteq Nat \ {0}
<1>1. IsFiniteSet(Triggers)
  <2>1. /\ Triggers = ({} \union {"not_funded"} \union {"quality"}) \union {"unearned_prepay"}
        /\ IsFiniteSet({})
    BY FS_EmptySet DEF Triggers
  <2>2. IsFiniteSet({} \union {"not_funded"})
    BY <2>1, FS_AddElement
  <2>3. IsFiniteSet({} \union {"not_funded"} \union {"quality"})
    BY <2>2, FS_AddElement
  <2>4. IsFiniteSet(({} \union {"not_funded"} \union {"quality"}) \union {"unearned_prepay"})
    BY <2>3, FS_AddElement
  <2> QED
    BY <2>1, <2>4
<1> QED
  BY <1>1, BillingNumbers

\* The records that explain a balance can be added up.
LEMMA RecordsAddUp ==
    ASSUME BillingRowsOK, NEW e \in Engagements
    PROVE  /\ Summable([t \in Triggers |-> refund[e][t].paid])
           /\ Summable([n \in Payments |-> drawn[n][e]])
           /\ \A n \in Payments : Summable(drawn[n])
<1>1. \A t \in Triggers : refund[e][t].paid \in Nat
  BY DEF BillingRowsOK, RefundRows
<1>2. \A n \in Payments : drawn[n] \in [Engagements -> Nat]
  BY DEF BillingRowsOK
<1> QED
  BY <1>1, <1>2, BillingSets DEF Summable

LEMMA BillingInitOK ==
    ASSUME BillingInit, request = [c \in Clerks |-> AtRest]
    PROVE  BillingRowsOK /\ BillingRequestsOK
<1>1. NoEngagement \in EngagementRows
  BY DEF NoEngagement, EngagementRows, Charges
<1>2. [paid |-> 0, declined |-> 0] \in RefundRows /\ [status |-> "none", on |-> 0] \in OutcomeRows
  BY DEF RefundRows, OutcomeRows
<1>3. MoneyIsExplained
  <2> SUFFICES ASSUME NEW e \in Engagements
               PROVE  /\ refunded[e] = SumOf([t \in Triggers |-> refund[e][t].paid])
                                       + handRefunded[e]
                      /\ credited[e] = SumOf([n \in Payments |-> drawn[n][e]])
                                       + handCredited[e]
    BY DEF MoneyIsExplained
  <2> DEFINE paid == [t \in Triggers |-> refund[e][t].paid]
             given == [n \in Payments |-> drawn[n][e]]
  <2>1. DOMAIN paid = Triggers /\ \A t \in Triggers : paid[t] = 0
    BY DEF BillingInit
  <2>2. DOMAIN given = Payments /\ \A n \in Payments : given[n] = 0
    BY DEF BillingInit
  <2> HIDE DEF paid, given
  <2>3. SumOf(paid) = 0 /\ SumOf(given) = 0
    BY <2>1, <2>2, BillingSets, SumOfZeros
  <2>4. refunded[e] = 0 /\ credited[e] = 0 /\ handRefunded[e] = 0 /\ handCredited[e] = 0
    BY DEF BillingInit
  <2> QED
    BY <2>3, <2>4 DEF paid, given
<1>4. BillingRowsOK
  BY <1>1, <1>2, <1>3 DEF BillingInit, BillingRowsOK, OfferStates, OffersInOrder
<1>5. BillingRequestsOK
  BY DEF BillingRequestsOK, BillingRequestOK, AtRest
<1> QED
  BY <1>4, <1>5

LEMMA BillingTypes ==
    ASSUME BillingRowsOK
    PROVE  BillingTypeOK /\ OneCurrentOffer /\ MoneyIsExplained
<1>1. BillingTypeOK
  <2>1. \A e \in Engagements : engagement[e].status \in {"none", "active", "cancelled"}
    BY DEF BillingRowsOK, EngagementRows
  <2>2. {refunded[e] : e \in Engagements} \union {credited[e] : e \in Engagements} \subseteq Nat
    BY DEF BillingRowsOK
  <2> QED
    BY <2>1, <2>2 DEF BillingRowsOK, BillingTypeOK, OfferStates
<1>2. ASSUME NEW v \in Current, NEW w \in Current PROVE v = w
  <2>1. v \in Nat /\ w \in Nat
    BY BillingSets DEF Current
  <2>2. ~(v < w) /\ ~(w < v)
    BY DEF Current, BillingRowsOK, OffersInOrder
  <2> QED
    BY <2>1, <2>2
<1>3. OneCurrentOffer
  <2>1. CASE Current = {}
    BY <2>1, FS_EmptySet DEF OneCurrentOffer
  <2>2. CASE Current # {}
    <3>1. PICK v : Current = {v}
      BY <1>2, <2>2
    <3>2. Cardinality({v}) = 1
      BY FS_Singleton
    <3> QED
      BY <3>1, <3>2 DEF OneCurrentOffer
  <2> QED
    BY <2>1, <2>2
<1> QED
  BY <1>1, <1>3 DEF BillingRowsOK

LEMMA BillingRequestsKept ==
    ASSUME NEW c \in Clerks, NEW next, Turns(c, next), BillingRequestsOK,
           BillingRequestOK(next)', BillingSettles
    PROVE  RequestsOK' /\ BillingRequestsOK'
<1>1. ASSUME NEW r, BillingRequestOK(r) PROVE BillingRequestOK(r)'
  BY <1>1 DEF BillingRequestOK, BillingSettles, ReadOffer
<1>2. ASSUME NEW d \in Clerks PROVE BillingRequestOK(request[d])'
  <2>1. CASE d = c
    BY <2>1, Zenon DEF Turns, BillingRequestOK, ReadOffer
  <2>2. CASE d # c
    BY <1>1, <2>2 DEF Turns, BillingRequestsOK
  <2> QED
    BY <2>1, <2>2
<1> QED
  BY <1>2 DEF Turns, BillingRequestsOK

\* A part of a whole amount is an amount (proportionOf).
LEMMA UnearnedIsNat ==
    ASSUME BillingRowsOK, NEW e \in Engagements
    PROVE  Unearned(e) \in Nat
<1> DEFINE days == UnusedDays(e)
           part == IF days < Term THEN days ELSE Term
           paid == PaidOn(e)
<1>1. engagement[e].started \in Nat /\ engagement[e].ended \in Nat /\ Term \in Nat \ {0}
      /\ PaidCents \in Nat
  BY BillingNumbers DEF BillingRowsOK, EngagementRows
<1>2. days \in Nat
  BY <1>1, AtLeastZeroIsNat DEF UnusedDays
<1> HIDE DEF days
<1>3. part \in Nat
  BY <1>1, <1>2
<1>4. paid \in Nat
  <2>1. IsFiniteSet({n \in Payments : payment[n] = e})
    BY BillingSets, FS_Subset
  <2>2. Cardinality({n \in Payments : payment[n] = e}) \in Nat
    BY <2>1, FS_CardinalityType
  <2> QED
    BY <1>1, <2>2 DEF PaidOn
<1> HIDE DEF part, paid
<1> DEFINE scaled == paid * part
<1>5. scaled \in Nat
  BY <1>3, <1>4
<1> HIDE DEF scaled
<1>6. scaled \div Term \in Nat
  BY <1>1, <1>5
<1>7. ProportionOf(paid, days, Term, "toward_client") = scaled \div Term
  BY DEF ProportionOf, scaled, part
<1> QED
  BY <1>6, <1>7 DEF Unearned, days, paid

LEMMA DueIsMoney ==
    ASSUME BillingRowsOK, NEW e \in Engagements, NEW due \in RefundsDue(e)
    PROVE  due.trigger \in Triggers /\ due.cents \in Nat
<1>1. due \in {[trigger |-> "not_funded", cents |-> FeeCents],
               [trigger |-> "quality", cents |-> RetainerCents],
               [trigger |-> "unearned_prepay", cents |-> Unearned(e)]}
  BY DEF RefundsDue, When
<1>2. Unearned(e) \in Nat
  BY UnearnedIsNat
<1> QED
  BY <1>1, <1>2, BillingNumbers DEF Triggers

\* What is left of a payment (availableCredit).
LEMMA CreditIsMoney ==
    ASSUME BillingRowsOK, NEW n \in Payments, payment[n] # 0
    PROVE  AvailableCredit[n] \in Nat
<1> DEFINE others == {k \in 1..(n - 1) : payment[k] = payment[n]}
           before == PaidCents * Cardinality(others)
           back == refunded[payment[n]]
<1>1. n \in Nat /\ PaidCents \in Nat
  BY BillingSets, BillingNumbers
<1>2. Cardinality(others) \in Nat
  <2>1. IsFiniteSet(1..(n - 1))
    BY <1>1, FS_Interval
  <2>2. IsFiniteSet(others)
    BY <2>1, FS_Subset
  <2> QED
    BY <2>2, FS_CardinalityType
<1>3. before \in Nat
  BY <1>1, <1>2
<1>4. back \in Nat
  BY DEF BillingRowsOK
<1> HIDE DEF before, back
<1>5. RefundTaken(n) \in Nat
  <2>1. AtLeastZero(back, before) \in Nat
    BY <1>3, <1>4, AtLeastZeroIsNat
  <2>2. LesserOf(AtLeastZero(back, before), PaidCents) \in Nat
    BY <1>1, <2>1, LesserIsNat
  <2> QED
    BY <2>2 DEF RefundTaken, before, back
<1>6. SumOf(drawn[n]) \in Nat
  <2>1. Summable(drawn[n])
    BY BillingSets DEF BillingRowsOK, Summable
  <2> QED
    BY <2>1, SumIsNat
<1>7. AtLeastZero(PaidCents, RefundTaken(n) + SumOf(drawn[n])) \in Nat
  <2> DEFINE taken == RefundTaken(n) + SumOf(drawn[n])
  <2>1. taken \in Int
    BY <1>5, <1>6
  <2> HIDE DEF taken
  <2>2. AtLeastZero(PaidCents, taken) \in Nat
    BY <1>1, <2>1, AtLeastZeroIsNat
  <2> QED
    BY <2>2 DEF taken
<1> QED
  BY <1>7 DEF AvailableCredit

\* A publisher that finds its place free supersedes what it read.
LEMMA OfferIsPublished ==
    ASSUME offer \in [Versions -> OfferStates], OffersInOrder, NEW read, ReadOffer(read),
           NEW v \in Versions, v = (IF read = {} THEN 1 ELSE Max(read) + 1), offer[v] = "none",
           offer' = [w \in Versions |->
                       IF w = v THEN "current" ELSE IF w \in read THEN "superseded" ELSE offer[w]]
    PROVE  offer' \in [Versions -> OfferStates] /\ OffersInOrder' /\ BillingSettles
<1>1. offer' \in [Versions -> OfferStates]
  BY DEF OfferStates
<1>2. BillingSettles
  BY DEF BillingSettles
<1>3. Versions \subseteq Nat \ {0}
  BY BillingSets
\* Nothing was published after the place that was free.
<1>4. \A u \in Versions : v < u => offer[u] = "none"
  BY DEF OffersInOrder
<1>5. \A w \in Versions : w < v => offer'[w] = "superseded"
  <2> SUFFICES ASSUME NEW w \in Versions, w < v PROVE offer'[w] = "superseded"
    OBVIOUS
  <2>1. w \in Nat /\ v \in Nat /\ w # 0 /\ w # v
    BY <1>3
  <2>2. CASE read = {}
    BY <2>1, <2>2
  <2>3. CASE \E m \in Versions : read = {m} /\ offer[m] # "none"
    <3>1. PICK m \in Versions : read = {m} /\ offer[m] # "none"
      BY <2>3
    <3>2. Max({m}) = m
      <4>1. IsFiniteSet({m}) /\ {m} \in SUBSET Nat
        BY <1>3, FS_Singleton
      <4> QED
        BY <4>1, MaxIsGreatest
    <3>3. v = m + 1 /\ m \in Nat
      BY <1>3, <3>1, <3>2
    <3>4. w = m \/ w < m
      BY <2>1, <3>3
    <3>5. w # m => offer[w] = "superseded"
      BY <3>1, <3>4 DEF OffersInOrder
    <3> QED
      BY <2>1, <3>1, <3>5
  <2> QED
    BY <2>2, <2>3 DEF ReadOffer
<1>6. \A u \in Versions : offer'[u] # "none" => u <= v
  <2> SUFFICES ASSUME NEW u \in Versions, ~(u <= v) PROVE offer'[u] = "none"
    OBVIOUS
  <2>1. v < u /\ u # v
    BY <1>3
  <2>2. u \notin read
    BY <1>4, <2>1 DEF ReadOffer
  <2> QED
    BY <1>4, <2>1, <2>2
<1>7. OffersInOrder'
  <2> SUFFICES ASSUME NEW u \in Versions, NEW w \in Versions, w < u, offer'[u] # "none"
               PROVE  offer'[w] = "superseded"
    BY DEF OffersInOrder
  <2>1. u <= v /\ u \in Nat /\ v \in Nat /\ w \in Nat
    BY <1>3, <1>6
  <2>2. w < v
    BY <2>1
  <2> QED
    BY <1>5, <2>2
<1> QED
  BY <1>1, <1>2, <1>7

\* A refund's record and its balance move together (payRefund).
LEMMA RefundIsExplained ==
    ASSUME BillingRowsOK, NEW e \in Engagements, NEW trigger \in Triggers, NEW cents \in Nat,
           refund' = [refund EXCEPT ![e][trigger].paid = @ + cents],
           refunded' = [refunded EXCEPT ![e] = @ + cents],
           UNCHANGED <<drawn, credited, handWritten>>
    PROVE  /\ refund' \in [Engagements -> [Triggers -> RefundRows]]
           /\ refunded' \in [Engagements -> Nat]
           /\ MoneyIsExplained'
<1>0. /\ handRefunded' = handRefunded /\ handCredited' = handCredited
      /\ handRefunded \in [Engagements -> Nat] /\ handCredited \in [Engagements -> Nat]
  BY DEF handWritten, BillingRowsOK
<1>1. /\ refund \in [Engagements -> [Triggers -> RefundRows]] /\ refunded \in [Engagements -> Nat]
      /\ MoneyIsExplained
  BY DEF BillingRowsOK
<1>2. refund[e][trigger].paid \in Nat /\ refunded[e] \in Nat
  BY <1>1 DEF RefundRows
<1>3. refunded' \in [Engagements -> Nat]
  BY <1>1, <1>2
<1>4. refund' \in [Engagements -> [Triggers -> RefundRows]]
  <2> DEFINE sum == refund[e][trigger].paid + cents
  <2>1. sum \in Nat
    BY <1>2
  <2>2. PICK was \in RefundRows : was = refund[e][trigger]
    BY <1>1
  <2>3. refund' = [refund EXCEPT ![e] = [refund[e] EXCEPT ![trigger] = [was EXCEPT !.paid = sum]]]
    BY <2>2
  <2> HIDE DEF sum
  <2>4. PICK row : row = [was EXCEPT !.paid = sum]
    OBVIOUS
  <2>5. row \in RefundRows
    BY <2>1, <2>4 DEF RefundRows
  <2>6. [refund[e] EXCEPT ![trigger] = row] \in [Triggers -> RefundRows]
    BY <1>1, <2>5
  <2> QED
    BY <1>1, <2>3, <2>4, <2>6
<1>5. ASSUME NEW d \in Engagements
      PROVE  /\ refunded'[d] = SumOf([t \in Triggers |-> refund'[d][t].paid]) + handRefunded'[d]
             /\ credited'[d] = SumOf([n \in Payments |-> drawn'[n][d]]) + handCredited'[d]
  <2>1. credited'[d] = SumOf([n \in Payments |-> drawn'[n][d]]) + handCredited'[d]
    BY <1>0, <1>1 DEF MoneyIsExplained
  <2>2. CASE d # e
    <3>1. refund'[d] = refund[d] /\ refunded'[d] = refunded[d]
      BY <1>1, <2>2
    <3> QED
      BY <1>0, <1>1, <2>1, <3>1 DEF MoneyIsExplained
  <2>3. CASE d = e
    <3> DEFINE f == [t \in Triggers |-> refund[e][t].paid]
               h == [t \in Triggers |-> refund'[e][t].paid]
    <3>1. \A t \in Triggers : refund'[e][t].paid \in Nat
      BY <1>4 DEF RefundRows
    <3>2. h[trigger] = f[trigger] + cents /\ \A t \in Triggers \ {trigger} : h[t] = f[t]
      BY <1>1 DEF RefundRows
    <3>3. DOMAIN f = Triggers /\ DOMAIN h = Triggers /\ f[trigger] \in Nat
      BY <1>2
    <3>4. Summable(f) /\ Summable(h)
      BY <3>1, BillingSets, RecordsAddUp DEF Summable
    <3>5. refunded[e] = SumOf(f) + handRefunded[e] /\ refunded'[e] = refunded[e] + cents
      BY <1>1 DEF MoneyIsExplained
    <3> HIDE DEF f, h
    <3>6. SumOf(h) + f[trigger] = SumOf(f) + h[trigger]
      BY <3>2, <3>3, <3>4, SumChangesOne
    <3>7. SumOf(f) \in Nat /\ SumOf(h) \in Nat
      BY <3>4, SumIsNat
    <3> DEFINE was == SumOf(f)
               is == SumOf(h)
               paid == f[trigger]
               now == h[trigger]
               hand == handRefunded[e]
    <3>8. hand \in Nat /\ refunded'[e] = was + hand + cents
      BY <1>0, <3>5
    <3>9. was \in Nat /\ is \in Nat /\ paid \in Nat /\ now = paid + cents /\ is + paid = was + now
      BY <3>2, <3>3, <3>6, <3>7
    <3> HIDE DEF was, is, paid, now, hand
    <3>10. refunded'[e] = is + hand
      BY <3>8, <3>9
    <3> QED
      BY <1>0, <2>1, <2>3, <3>10 DEF is, h, hand
  <2> QED
    BY <2>2, <2>3
<1> QED
  BY <1>3, <1>4, <1>5 DEF MoneyIsExplained

\* A credit is drawn from its sources, all of it (applyCredit).
LEMMA CreditIsExplained ==
    ASSUME BillingRowsOK, NEW to \in Engagements, NEW cents \in Nat,
           NEW from \in SUBSET Payments, NEW sources \in [from -> Nat], cents <= SumOf(sources),
           drawn' = [n \in Payments |->
                        IF n \in DOMAIN Draws(sources, cents)
                        THEN [drawn[n] EXCEPT ![to] = @ + Draws(sources, cents)[n]]
                        ELSE drawn[n]],
           credited' = [credited EXCEPT ![to] = @ + cents],
           UNCHANGED <<refund, refunded, handWritten>>
    PROVE  /\ drawn' \in [Payments -> [Engagements -> Nat]]
           /\ credited' \in [Engagements -> Nat]
           /\ MoneyIsExplained'
<1> DEFINE draws == Draws(sources, cents)
           given == [n \in Payments |-> IF n \in from THEN draws[n] ELSE 0]
<1>0. /\ handRefunded' = handRefunded /\ handCredited' = handCredited
      /\ handRefunded \in [Engagements -> Nat] /\ handCredited \in [Engagements -> Nat]
  BY DEF handWritten, BillingRowsOK
<1>1. /\ drawn \in [Payments -> [Engagements -> Nat]] /\ credited \in [Engagements -> Nat]
      /\ MoneyIsExplained
  BY DEF BillingRowsOK
<1>2. DOMAIN draws = from /\ Summable(draws) /\ SumOf(draws) = cents
  <2>1. PICK N \in Nat : Payments = 1..N
    BY BillingNumbers
  <2>2. from \in SUBSET (1..N)
    BY <2>1
  <2> QED
    BY <2>2, DrawsGiveTheAmount
<1>3. draws = [n \in from |-> draws[n]]
  BY <1>2 DEF Draws
<1> HIDE DEF draws
<1>4. \A n \in from : draws[n] \in Nat
  BY <1>2 DEF Summable
<1>5. drawn' = [n \in Payments |-> IF n \in from THEN [drawn[n] EXCEPT ![to] = @ + draws[n]]
                                   ELSE drawn[n]]
  BY <1>2 DEF draws
<1>6. drawn' \in [Payments -> [Engagements -> Nat]]
  <2>1. ASSUME NEW n \in from PROVE [drawn[n] EXCEPT ![to] = @ + draws[n]] \in [Engagements -> Nat]
    <3>1. drawn[n] \in [Engagements -> Nat] /\ draws[n] \in Nat
      BY <1>1, <1>4
    <3> QED
      BY <3>1
  <2> QED
    BY <1>1, <1>5, <2>1
<1>7. credited' \in [Engagements -> Nat]
  BY <1>1
<1>8. Summable(given) /\ SumOf(given) = cents
  <2> DEFINE a == [n \in from |-> given[n]]
             b == [n \in DOMAIN given \ from |-> given[n]]
  <2>1. DOMAIN given = Payments /\ from \in SUBSET DOMAIN given
    OBVIOUS
  <2>2. Summable(given)
    BY <1>4, BillingSets DEF Summable
  <2>3. a = draws
    <3>1. a = [n \in from |-> draws[n]]
      OBVIOUS
    <3> QED
      BY <1>3, <3>1
  <2>4. DOMAIN b = Payments \ from /\ \A n \in Payments \ from : b[n] = 0
    OBVIOUS
  <2> HIDE DEF given
  <2>5. SumOf(given) = SumOf(a) + SumOf(b)
    BY <2>1, <2>2, SumSplits
  <2> HIDE DEF a, b
  <2>6. SumOf(b) = 0
    <3>1. IsFiniteSet(Payments \ from)
      BY BillingSets, FS_Subset
    <3> QED
      BY <2>4, <3>1, SumOfZeros
  <2> QED
    BY <1>2, <2>2, <2>3, <2>5, <2>6
<1>9. ASSUME NEW d \in Engagements
      PROVE  /\ refunded'[d] = SumOf([t \in Triggers |-> refund'[d][t].paid]) + handRefunded'[d]
             /\ credited'[d] = SumOf([n \in Payments |-> drawn'[n][d]]) + handCredited'[d]
  <2>1. refunded'[d] = SumOf([t \in Triggers |-> refund'[d][t].paid]) + handRefunded'[d]
    BY <1>0, <1>1 DEF MoneyIsExplained
  <2> DEFINE f == [n \in Payments |-> drawn[n][d]]
             h == [n \in Payments |-> drawn'[n][d]]
  <2>2. CASE d # to
    <3>1. \A n \in Payments : drawn'[n][d] = drawn[n][d]
      BY <1>1, <1>5, <2>2
    <3>2. h = f
      BY <3>1
    <3>3. credited'[d] = credited[d] /\ credited[d] = SumOf(f) + handCredited[d]
      BY <1>1, <2>2 DEF MoneyIsExplained
    <3> QED
      BY <1>0, <2>1, <3>2, <3>3
  <2>3. CASE d = to
    <3>1. \A n \in Payments : drawn'[n][d] = IF n \in from THEN drawn[n][d] + draws[n]
                                             ELSE drawn[n][d]
      BY <1>1, <1>5, <2>3
    <3>2. \A n \in Payments : drawn[n][d] \in Nat
      BY <1>1
    <3>3. \A n \in Payments : h[n] = f[n] + given[n]
      BY <3>1, <3>2
    <3>4. Summable(f) /\ DOMAIN f = Payments /\ DOMAIN h = Payments /\ DOMAIN given = Payments
      BY <3>2, BillingSets DEF Summable
    <3>5. credited[d] = SumOf(f) + handCredited[d] /\ credited'[d] = credited[d] + cents
      BY <1>1, <2>3 DEF MoneyIsExplained
    <3> HIDE DEF f, h, given
    <3>6. SumOf(h) = SumOf(f) + SumOf(given)
      BY <1>8, <3>3, <3>4, SumAddsUp
    <3>7. SumOf(f) \in Nat /\ handCredited[d] \in Nat
      BY <1>0, <3>4, SumIsNat
    <3>8. credited'[d] = SumOf(h) + handCredited[d]
      BY <1>8, <3>5, <3>6, <3>7
    <3> QED
      BY <1>0, <2>1, <3>8 DEF h
  <2> QED
    BY <2>2, <2>3
<1> QED
  BY <1>6, <1>7, <1>9 DEF MoneyIsExplained

\* What is written down by hand moves a balance and its note (recordBilling).
LEMMA HandIsExplained ==
    ASSUME BillingRowsOK, NEW e \in Engagements, UNCHANGED <<drawn, refund>>,
           \/ /\ refunded' = [refunded EXCEPT ![e] = @ + HandCents]
              /\ handRefunded' = [handRefunded EXCEPT ![e] = @ + HandCents]
              /\ UNCHANGED <<credited, handCredited>>
           \/ /\ credited' = [credited EXCEPT ![e] = @ + HandCents]
              /\ handCredited' = [handCredited EXCEPT ![e] = @ + HandCents]
              /\ UNCHANGED <<refunded, handRefunded>>
    PROVE  MoneyIsExplained'
<1> SUFFICES ASSUME NEW d \in Engagements
             PROVE  /\ refunded'[d] = SumOf([t \in Triggers |-> refund'[d][t].paid])
                                      + handRefunded'[d]
                    /\ credited'[d] = SumOf([n \in Payments |-> drawn'[n][d]])
                                      + handCredited'[d]
  BY DEF MoneyIsExplained
<1> DEFINE paid == SumOf([t \in Triggers |-> refund[d][t].paid])
           given == SumOf([n \in Payments |-> drawn[n][d]])
<1>1. refunded[d] = paid + handRefunded[d] /\ credited[d] = given + handCredited[d]
  BY DEF BillingRowsOK, MoneyIsExplained
<1>2. paid \in Nat /\ given \in Nat
  BY RecordsAddUp, SumIsNat
<1>3. /\ paid = SumOf([t \in Triggers |-> refund'[d][t].paid])
      /\ given = SumOf([n \in Payments |-> drawn'[n][d]])
  OBVIOUS
<1> HIDE DEF paid, given
<1>4. /\ handRefunded \in [Engagements -> Nat] /\ handCredited \in [Engagements -> Nat]
      /\ refunded \in [Engagements -> Nat] /\ credited \in [Engagements -> Nat]
      /\ HandCents \in Nat
  BY BillingNumbers DEF BillingRowsOK
<1>5. refunded'[d] = paid + handRefunded'[d] /\ credited'[d] = given + handCredited'[d]
  <2>1. CASE d = e
    BY <1>1, <1>2, <1>4, <2>1
  <2>2. CASE d # e
    BY <1>1, <1>4, <2>2
  <2> QED
    BY <2>1, <2>2
<1> QED
  BY <1>3, <1>5

LEMMA BillingStep ==
    ASSUME RequestsOK, today \in Nat, BillingRowsOK, BillingRequestsOK, BillingNext
    PROVE  RequestsOK' /\ BillingRowsOK' /\ BillingRequestsOK'
<1> DEFINE Serves(c, next) == /\ Turns(c, next) /\ BillingRowsOK' /\ BillingRequestOK(next)'
                              /\ BillingSettles
           Looks(c, next) == /\ Turns(c, next) /\ UNCHANGED billingRows /\ BillingRequestOK(next)
<1>1. BillingRequestOK(AtRest) /\ BillingRequestOK(AtRest)'
  BY DEF BillingRequestOK, AtRest
<1>2. ASSUME NEW c \in Clerks PROVE BillingRequestOK(request[c])
  BY DEF BillingRequestsOK
<1>3. ASSUME NEW c \in Clerks, NEW next, Looks(c, next) PROVE Serves(c, next)
  <2>1. UNCHANGED <<offer, engagement, payment, drawn, refunded, credited, refund, outcome,
                    handRefunded, handCredited>>
    BY <1>3 DEF billingRows, handWritten
  <2>2. BillingRowsOK' /\ BillingSettles
    BY <2>1 DEF BillingRowsOK, BillingSettles, OffersInOrder, MoneyIsExplained
  <2>3. BillingRequestOK(next)'
    BY <1>3, <2>1 DEF BillingRequestOK, ReadOffer
  <2> QED
    BY <1>3, <2>2, <2>3
\* A writer that leaves what balances are made of alone.
<1>4. ASSUME NEW c \in Clerks, Turns(c, AtRest),
             UNCHANGED <<drawn, refunded, credited, handWritten>>,
             refund' = refund,
             offer' \in [Versions -> OfferStates], OffersInOrder', BillingSettles,
             engagement' \in [Engagements -> EngagementRows],
             payment' \in [Payments -> Engagements \union {0}],
             outcome' \in [Engagements -> OutcomeRows]
      PROVE  Serves(c, AtRest)
  BY <1>1, <1>4 DEF BillingRowsOK, MoneyIsExplained, handWritten
\* And one that leaves the offers alone.
<1>5. offer' = offer => /\ offer' \in [Versions -> OfferStates] /\ OffersInOrder'
                        /\ BillingSettles
  BY DEF BillingRowsOK, OffersInOrder, BillingSettles
<1>6. ASSUME NEW c \in Clerks, PublishOffer(c) PROVE \E next : Serves(c, next)
  <2>1. CASE Begins(c, [op |-> "publish", on |-> Current]) /\ UNCHANGED billingRows
    <3>1. \A v, w \in Current : v = w
      <4> SUFFICES ASSUME NEW v \in Current, NEW w \in Current PROVE v = w
        OBVIOUS
      <4>1. v \in Nat /\ w \in Nat
        BY BillingSets DEF Current
      <4>2. ~(v < w) /\ ~(w < v)
        BY DEF Current, BillingRowsOK, OffersInOrder
      <4> QED
        BY <4>1, <4>2
    <3>2. ReadOffer(Current)
      <4>1. CASE Current = {}
        BY <4>1 DEF ReadOffer
      <4>2. CASE Current # {}
        <5>1. PICK m \in Current : TRUE
          BY <4>2
        <5>2. Current = {m} /\ m \in Versions /\ offer[m] # "none"
          BY <3>1, <5>1 DEF Current
        <5> QED
          BY <5>2 DEF ReadOffer
      <4> QED
        BY <4>1, <4>2
    <3>3. BillingRequestOK([op |-> "publish", on |-> Current])
      BY <3>2 DEF BillingRequestOK
    <3> QED
      BY <1>3, <2>1, <3>3, DeskTurns
  <2>2. CASE Doing(c, "publish")
    <3> DEFINE read == request[c].on
               v == IF read = {} THEN 1 ELSE Max(read) + 1
    <3>1. ReadOffer(read)
      BY <1>2, <2>2 DEF BillingRequestOK, Doing
    <3>2. /\ Finishes(c)
          /\ UNCHANGED <<engagement, payment, drawn, refunded, credited, refund, outcome,
                         handWritten>>
          /\ \/ UNCHANGED offer
             \/ /\ v \in Versions /\ offer[v] = "none"
                /\ offer' = [w \in Versions |->
                      IF w = v THEN "current" ELSE IF w \in read THEN "superseded" ELSE offer[w]]
      BY <1>6, <2>2 DEF PublishOffer, Begins, Doing
    <3>3. offer' \in [Versions -> OfferStates] /\ OffersInOrder' /\ BillingSettles
      <4>1. CASE UNCHANGED offer
        BY <1>5, <4>1
      <4>2. CASE /\ v \in Versions /\ offer[v] = "none"
                 /\ offer' = [w \in Versions |->
                       IF w = v THEN "current" ELSE IF w \in read THEN "superseded" ELSE offer[w]]
        <5> HIDE DEF read
        <5>1. offer \in [Versions -> OfferStates] /\ OffersInOrder
          BY DEF BillingRowsOK
        <5> QED
          BY <3>1, <4>2, <5>1, OfferIsPublished
      <4> QED
        BY <3>2, <4>1, <4>2
    <3> HIDE DEF read, v
    <3> QED
      BY <1>4, <3>2, <3>3, DeskTurns DEF BillingRowsOK
  <2> QED
    BY <1>6, <2>1, <2>2 DEF PublishOffer
<1>7. ASSUME NEW c \in Clerks, StartEngagement(c) PROVE \E next : Serves(c, next)
  <2>1. CASE Begins(c, [op |-> "start"]) /\ UNCHANGED billingRows
    BY <1>3, <2>1, DeskTurns DEF BillingRequestOK
  <2>2. CASE Doing(c, "start")
    <3>1. PICK e \in Engagements, prepay \in BOOLEAN :
             engagement' = [engagement EXCEPT ![e] =
                [NoEngagement EXCEPT !.status = "active", !.prepay = prepay, !.started = today]]
      BY <1>7, <2>2 DEF StartEngagement, Begins, Doing
    <3>2. /\ Finishes(c)
          /\ UNCHANGED <<offer, payment, drawn, refunded, credited, refund, outcome, handWritten>>
      BY <1>7, <2>2 DEF StartEngagement, Begins, Doing
    <3> DEFINE row == [NoEngagement EXCEPT !.status = "active", !.prepay = prepay,
                                           !.started = today]
    <3>3. row \in EngagementRows
      BY DEF NoEngagement, EngagementRows, Charges
    <3>4. engagement' \in [Engagements -> EngagementRows]
      <4> HIDE DEF row
      <4>1. engagement' = [engagement EXCEPT ![e] = row]
        BY <3>1 DEF row
      <4> QED
        BY <3>3, <4>1 DEF BillingRowsOK
    <3> QED
      BY <1>4, <1>5, <3>2, <3>4, DeskTurns DEF BillingRowsOK
  <2> QED
    BY <1>7, <2>1, <2>2 DEF StartEngagement
<1>8. ASSUME NEW c \in Clerks, CancelEngagement(c) PROVE \E next : Serves(c, next)
  <2>1. PICK e \in Engagements :
           /\ Begins(c, AtRest)
           /\ engagement' = [engagement EXCEPT ![e].status = "cancelled", ![e].ended = today]
           /\ UNCHANGED <<offer, payment, drawn, refunded, credited, refund, outcome,
                          handWritten>>
    BY <1>8 DEF CancelEngagement
  <2>2. engagement' \in [Engagements -> EngagementRows]
    <3>1. PICK was \in EngagementRows : was = engagement[e]
      BY DEF BillingRowsOK
    <3>2. PICK row : row = [was EXCEPT !.status = "cancelled", !.ended = today]
      OBVIOUS
    <3>3. row \in EngagementRows
      BY <3>2 DEF EngagementRows
    <3>4. engagement' = [engagement EXCEPT ![e] = row]
      BY <2>1, <3>1, <3>2
    <3> QED
      BY <3>3, <3>4 DEF BillingRowsOK
  <2> QED
    BY <1>4, <1>5, <2>1, <2>2, DeskTurns DEF BillingRowsOK
<1>9. ASSUME NEW c \in Clerks, RecordBilling(c) PROVE \E next : Serves(c, next)
  <2>1. PICK e \in Engagements :
           /\ Begins(c, AtRest)
           /\ \/ /\ \E n \in Payments : payment' = [payment EXCEPT ![n] = e]
                 /\ UNCHANGED <<engagement, refunded, credited, handWritten>>
              \/ /\ \E kind \in Charges :
                       engagement' = [engagement EXCEPT ![e].charges = @ \union {kind}]
                 /\ UNCHANGED <<payment, refunded, credited, handWritten>>
              \/ /\ refunded' = [refunded EXCEPT ![e] = @ + HandCents]
                 /\ handRefunded' = [handRefunded EXCEPT ![e] = @ + HandCents]
                 /\ UNCHANGED <<engagement, payment, credited, handCredited>>
              \/ /\ credited' = [credited EXCEPT ![e] = @ + HandCents]
                 /\ handCredited' = [handCredited EXCEPT ![e] = @ + HandCents]
                 /\ UNCHANGED <<engagement, payment, refunded, handRefunded>>
           /\ UNCHANGED <<offer, drawn, refund, outcome>>
    BY <1>9 DEF RecordBilling, Charges
  <2>2. CASE /\ \E n \in Payments : payment' = [payment EXCEPT ![n] = e]
             /\ UNCHANGED <<engagement, refunded, credited, handWritten>>
    <3>1. payment' \in [Payments -> Engagements \union {0}]
      BY <2>2 DEF BillingRowsOK
    <3> QED
      BY <1>4, <1>5, <2>1, <2>2, <3>1, DeskTurns DEF BillingRowsOK
  <2>3. CASE /\ \E kind \in Charges :
                   engagement' = [engagement EXCEPT ![e].charges = @ \union {kind}]
             /\ UNCHANGED <<payment, refunded, credited, handWritten>>
    <3>1. PICK kind \in Charges : engagement' = [engagement EXCEPT ![e].charges = @ \union {kind}]
      BY <2>3
    <3>2. PICK was \in EngagementRows : was = engagement[e]
      BY DEF BillingRowsOK
    <3>3. PICK row : row = [was EXCEPT !.charges = was.charges \union {kind}]
      OBVIOUS
    <3>4. row \in EngagementRows
      BY <3>3 DEF EngagementRows
    <3>5. engagement' = [engagement EXCEPT ![e] = row]
      BY <3>1, <3>2, <3>3
    <3>6. engagement' \in [Engagements -> EngagementRows]
      BY <3>4, <3>5 DEF BillingRowsOK
    <3> QED
      BY <1>4, <1>5, <2>1, <2>3, <3>6, DeskTurns DEF BillingRowsOK
  <2>4. CASE /\ refunded' = [refunded EXCEPT ![e] = @ + HandCents]
             /\ handRefunded' = [handRefunded EXCEPT ![e] = @ + HandCents]
             /\ UNCHANGED <<engagement, payment, credited, handCredited>>
    <3>1. BillingRowsOK' /\ BillingSettles
      <4>1. /\ refunded' \in [Engagements -> Nat] /\ handRefunded' \in [Engagements -> Nat]
        BY <2>4, BillingNumbers DEF BillingRowsOK
      <4>2. MoneyIsExplained'
        BY <2>1, <2>4, HandIsExplained
      <4> QED
        BY <1>5, <2>1, <2>4, <4>1, <4>2 DEF BillingRowsOK
    <3> QED
      BY <1>1, <2>1, <3>1, DeskTurns
  <2>5. CASE /\ credited' = [credited EXCEPT ![e] = @ + HandCents]
             /\ handCredited' = [handCredited EXCEPT ![e] = @ + HandCents]
             /\ UNCHANGED <<engagement, payment, refunded, handRefunded>>
    <3>1. BillingRowsOK' /\ BillingSettles
      <4>1. /\ credited' \in [Engagements -> Nat] /\ handCredited' \in [Engagements -> Nat]
        BY <2>5, BillingNumbers DEF BillingRowsOK
      <4>2. MoneyIsExplained'
        BY <2>1, <2>5, HandIsExplained
      <4> QED
        BY <1>5, <2>1, <2>5, <4>1, <4>2 DEF BillingRowsOK
    <3> QED
      BY <1>1, <2>1, <3>1, DeskTurns
  <2> QED
    BY <2>1, <2>2, <2>3, <2>4, <2>5
<1>10. ASSUME NEW c \in Clerks, RecordFundingOutcome(c) \/ MarkFunded(c)
       PROVE  \E next : Serves(c, next)
  <2>1. /\ Begins(c, AtRest)
        /\ UNCHANGED <<offer, engagement, payment, drawn, refunded, credited, refund,
                       handWritten>>
    BY <1>10 DEF RecordFundingOutcome, MarkFunded
  <2>2. \E e \in Engagements, row \in OutcomeRows : outcome' = [outcome EXCEPT ![e] = row]
    <3>1. CASE RecordFundingOutcome(c)
      <4>1. PICK e \in Engagements, funded \in BOOLEAN :
               outcome' = [outcome EXCEPT ![e] =
                              [status |-> IF funded THEN "funded" ELSE "approved", on |-> today]]
        BY <3>1 DEF RecordFundingOutcome
      <4>2. [status |-> IF funded THEN "funded" ELSE "approved", on |-> today] \in OutcomeRows
        BY DEF OutcomeRows
      <4> QED
        BY <4>1, <4>2
    <3>2. CASE MarkFunded(c)
      <4>1. PICK e \in Engagements : outcome' = [outcome EXCEPT ![e].status = "funded"]
        BY <3>2 DEF MarkFunded
      <4>2. PICK was \in OutcomeRows : was = outcome[e]
        BY DEF BillingRowsOK
      <4>3. PICK row : row = [was EXCEPT !.status = "funded"]
        OBVIOUS
      <4>4. row \in OutcomeRows
        BY <4>3 DEF OutcomeRows
      <4>5. outcome' = [outcome EXCEPT ![e] = row]
        BY <4>1, <4>2, <4>3
      <4> QED
        BY <4>4, <4>5
    <3> QED
      BY <1>10, <3>1, <3>2
  <2>3. outcome' \in [Engagements -> OutcomeRows]
    BY <2>2 DEF BillingRowsOK
  <2> QED
    BY <1>4, <1>5, <2>1, <2>3, DeskTurns DEF BillingRowsOK
\* What is due when a request on it begins.
<1>11. ASSUME NEW c \in Clerks, NEW op \in {"refund", "decline"},
              \E e \in Engagements : \E due \in RefundsDue(e) :
                 Begins(c, [op |-> op, on |-> e, due |-> due]) /\ UNCHANGED billingRows
       PROVE  \E next : Serves(c, next)
  <2>0. PICK e \in Engagements : \E due \in RefundsDue(e) :
           Begins(c, [op |-> op, on |-> e, due |-> due]) /\ UNCHANGED billingRows
    BY <1>11
  <2>1. PICK due \in RefundsDue(e) :
           Begins(c, [op |-> op, on |-> e, due |-> due]) /\ UNCHANGED billingRows
    BY <2>0
  <2>2. due.trigger \in Triggers /\ due.cents \in Nat
    BY DueIsMoney
  <2>3. PICK next : next = [op |-> op, on |-> e, due |-> due]
    OBVIOUS
  <2>4. next.op = op /\ next.on = e /\ next.due = due
    BY <2>3
  <2>5. BillingRequestOK(next)
    BY <2>2, <2>4 DEF BillingRequestOK
  <2> QED
    BY <1>3, <2>1, <2>3, <2>5, DeskTurns
<1>12. ASSUME NEW c \in Clerks, PayRefund(c) PROVE \E next : Serves(c, next)
  <2>1. CASE Doing(c, "refund")
    <3> DEFINE e == request[c].on
               due == request[c].due
    <3>1. e \in Engagements /\ due.trigger \in Triggers /\ due.cents \in Nat
      BY <1>2, <2>1 DEF BillingRequestOK, Doing
    <3>2. /\ refund' = [refund EXCEPT ![e][due.trigger].paid = @ + due.cents]
          /\ refunded' = [refunded EXCEPT ![e] = @ + due.cents]
          /\ Finishes(c)
          /\ UNCHANGED <<offer, engagement, payment, drawn, credited, outcome, handWritten>>
      BY <1>12, <2>1 DEF PayRefund, Begins, Doing
    <3> HIDE DEF e, due
    <3>3. /\ refund' \in [Engagements -> [Triggers -> RefundRows]]
          /\ refunded' \in [Engagements -> Nat] /\ MoneyIsExplained'
      BY <3>1, <3>2, RefundIsExplained
    <3>4. BillingRowsOK' /\ BillingSettles
      BY <1>5, <3>2, <3>3 DEF BillingRowsOK, handWritten
    <3> QED
      BY <1>1, <3>2, <3>4, DeskTurns
  <2>2. CASE ~Doing(c, "refund")
    BY <1>11, <1>12, <2>2 DEF PayRefund
  <2> QED
    BY <2>1, <2>2
<1>13. ASSUME NEW c \in Clerks, DeclineRefund(c) PROVE \E next : Serves(c, next)
  <2>1. CASE Doing(c, "decline")
    <3> DEFINE e == request[c].on
               trigger == request[c].due.trigger
    <3>1. e \in Engagements /\ trigger \in Triggers
      BY <1>2, <2>1 DEF BillingRequestOK, Doing
    <3>2. /\ refund' = [refund EXCEPT ![e][trigger].declined = 1]
          /\ Finishes(c)
          /\ UNCHANGED <<offer, engagement, payment, drawn, refunded, credited, outcome,
                         handWritten>>
      BY <1>13, <2>1 DEF DeclineRefund, Begins, Doing
    <3> HIDE DEF e, trigger
    <3>3. refund' \in [Engagements -> [Triggers -> RefundRows]]
      <4>1. refund[e] \in [Triggers -> RefundRows]
        BY <3>1 DEF BillingRowsOK
      <4>2. PICK was \in RefundRows : was = refund[e][trigger]
        BY <3>1, <4>1
      <4>3. PICK row : row = [was EXCEPT !.declined = 1]
        OBVIOUS
      <4>4. row \in RefundRows
        BY <4>3 DEF RefundRows
      <4>5. refund' = [refund EXCEPT ![e] = [refund[e] EXCEPT ![trigger] = row]]
        BY <3>2, <4>2, <4>3
      <4>6. [refund[e] EXCEPT ![trigger] = row] \in [Triggers -> RefundRows]
        BY <3>1, <4>1, <4>4
      <4> QED
        BY <3>1, <4>5, <4>6 DEF BillingRowsOK
    <3>4. \A d \in Engagements : \A t \in Triggers : refund'[d][t].paid = refund[d][t].paid
      BY <3>1, <3>2 DEF BillingRowsOK, RefundRows
    <3>5. MoneyIsExplained'
      <4> SUFFICES ASSUME NEW d \in Engagements
                   PROVE  /\ refunded'[d] = SumOf([t \in Triggers |-> refund'[d][t].paid])
                                            + handRefunded'[d]
                          /\ credited'[d] = SumOf([n \in Payments |-> drawn'[n][d]])
                                            + handCredited'[d]
        BY DEF MoneyIsExplained
      <4>1. [t \in Triggers |-> refund'[d][t].paid] = [t \in Triggers |-> refund[d][t].paid]
        BY <3>4
      <4> QED
        BY <3>2, <4>1 DEF BillingRowsOK, MoneyIsExplained, handWritten
    <3>6. BillingRowsOK' /\ BillingSettles
      BY <1>5, <3>2, <3>3, <3>5 DEF BillingRowsOK, handWritten
    <3> QED
      BY <1>1, <3>2, <3>6, DeskTurns
  <2>2. CASE ~Doing(c, "decline")
    BY <1>11, <1>13, <2>2 DEF DeclineRefund
  <2> QED
    BY <2>1, <2>2
<1>14. ASSUME NEW c \in Clerks, ApplyCredit(c) PROVE \E next : Serves(c, next)
  <2>1. CASE ~Doing(c, "credit")
    <3>1. PICK to \in Engagements, amount \in 1..(PaidCents * Cardinality(Payments)) :
             LET sources == [n \in {k \in DOMAIN AvailableCredit : payment[k] # to} |->
                                AvailableCredit[n]]
             IN  /\ amount <= SumOf(sources)
                 /\ Begins(c, [op |-> "credit", on |-> to, cents |-> amount, from |-> sources])
                 /\ UNCHANGED billingRows
      BY <1>14, <2>1 DEF ApplyCredit
    <3> DEFINE from == {k \in DOMAIN AvailableCredit : payment[k] # to}
               sources == [n \in from |-> AvailableCredit[n]]
    <3>2. from \in SUBSET Payments /\ \A n \in from : payment[n] # 0
      BY DEF AvailableCredit
    <3>3. sources \in [from -> Nat]
      BY <3>2, CreditIsMoney
    <3>4. amount \in Nat
      <4>1. PaidCents * Cardinality(Payments) \in Nat
        BY BillingNumbers, BillingSets, FS_CardinalityType
      <4> QED
        BY <4>1
    <3>5. /\ amount <= SumOf(sources) /\ UNCHANGED billingRows
          /\ Begins(c, [op |-> "credit", on |-> to, cents |-> amount, from |-> sources])
      BY <3>1
    <3> HIDE DEF sources, from
    <3>6. PICK next : next = [op |-> "credit", on |-> to, cents |-> amount, from |-> sources]
      OBVIOUS
    <3>7. next.op = "credit" /\ next.on = to /\ next.cents = amount /\ next.from = sources
      BY <3>6
    <3>8. BillingRequestOK(next)
      BY <3>2, <3>3, <3>4, <3>5, <3>7 DEF BillingRequestOK
    <3> QED
      BY <1>3, <3>5, <3>6, <3>8, DeskTurns
  <2>2. CASE Doing(c, "credit")
    <3> DEFINE to == request[c].on
               cents == request[c].cents
               sources == request[c].from
    <3>1. to \in Engagements /\ cents \in Nat /\ cents <= SumOf(sources)
          /\ \E from \in SUBSET Payments : sources \in [from -> Nat]
      BY <1>2, <2>2 DEF BillingRequestOK, Doing
    <3>2. PICK from \in SUBSET Payments : sources \in [from -> Nat]
      BY <3>1
    <3>3. /\ drawn' = [n \in Payments |->
                          IF n \in DOMAIN Draws(sources, cents)
                          THEN [drawn[n] EXCEPT ![to] = @ + Draws(sources, cents)[n]]
                          ELSE drawn[n]]
          /\ credited' = [credited EXCEPT ![to] = @ + cents]
          /\ Finishes(c)
          /\ UNCHANGED <<offer, engagement, payment, refunded, refund, outcome, handWritten>>
      BY <1>14, <2>2 DEF ApplyCredit, Begins, Doing
    <3> HIDE DEF to, cents, sources
    <3>4. /\ drawn' \in [Payments -> [Engagements -> Nat]] /\ credited' \in [Engagements -> Nat]
          /\ MoneyIsExplained'
      BY <3>1, <3>2, <3>3, CreditIsExplained
    <3>5. BillingRowsOK' /\ BillingSettles
      BY <1>5, <3>3, <3>4 DEF BillingRowsOK, handWritten
    <3> QED
      BY <1>1, <3>3, <3>5, DeskTurns
  <2> QED
    BY <2>1, <2>2
<1>15. ASSUME NEW c \in Clerks, ClerkDies(c) /\ UNCHANGED billingRows
       PROVE  \E next : Serves(c, next)
  BY <1>1, <1>3, <1>15, DeskTurns
<1>16. CASE DayPasses /\ UNCHANGED billingRows
  <2>1. request' = request
        /\ UNCHANGED <<offer, engagement, payment, drawn, refunded, credited, refund, outcome,
                       handRefunded, handCredited>>
    BY <1>16 DEF DayPasses, billingRows, handWritten
  <2>2. BillingRowsOK'
    BY <2>1 DEF BillingRowsOK, OffersInOrder, MoneyIsExplained
  <2>3. BillingRequestsOK'
    BY <2>1 DEF BillingRequestsOK, BillingRequestOK, ReadOffer
  <2> QED
    BY <2>1, <2>2, <2>3, RequestsStay
<1>17. CASE ~(DayPasses /\ UNCHANGED billingRows)
  <2>1. PICK c, next : c \in Clerks /\ Serves(c, next)
    BY <1>6, <1>7, <1>8, <1>9, <1>10, <1>12, <1>13, <1>14, <1>15, <1>17 DEF BillingNext
  <2> QED
    BY <2>1, BillingRequestsKept
<1> QED
  BY <1>16, <1>17

-----------------------------------------------------------------------------
(***************************************************************************)
(* All desks.  Rows are sound wherever the behaviour is; requests are of   *)
(* the desk that is followed.                                              *)
(***************************************************************************)
RowsOK == /\ BillingRowsOK /\ PayoutRowsOK /\ ConductRowsOK /\ SalesRowsOK /\ RelatedRowsOK
          /\ CrossRowsOK /\ ContractsRowsOK

FollowedOK ==
    /\ desk = "billing"   => BillingRequestsOK
    /\ desk = "payouts"   => PayoutRequestsOK
    /\ desk = "conduct"   => ConductRequestsOK
    /\ desk = "sales"     => SalesRequestsOK
    /\ desk = "related"   => RelatedRequestsOK
    /\ desk = "cross"     => CrossRequestsOK
    /\ desk = "contracts" => ContractsRequestsOK

\* The inductive invariant.
MoneyInv == RequestsOK /\ today \in Nat /\ referrals \in Nat /\ RowsOK /\ FollowedOK

\* Rows that nobody writes stay as sound as they were.
LEMMA RowsStay ==
    /\ BillingRowsOK /\ UNCHANGED billingRows => BillingRowsOK'
    /\ PayoutRowsOK /\ UNCHANGED payoutRows => PayoutRowsOK'
    /\ ConductRowsOK /\ UNCHANGED conductRows => ConductRowsOK'
    /\ SalesRowsOK /\ UNCHANGED salesRows => SalesRowsOK'
    /\ RelatedRowsOK /\ UNCHANGED relatedRows => RelatedRowsOK'
    /\ CrossRowsOK /\ UNCHANGED crossRows => CrossRowsOK'
    /\ ContractsRowsOK /\ UNCHANGED contractRows => ContractsRowsOK'
<1>1. BillingRowsOK /\ UNCHANGED billingRows => BillingRowsOK'
  BY DEF billingRows, handWritten, BillingRowsOK, OffersInOrder, MoneyIsExplained
<1>2. PayoutRowsOK /\ UNCHANGED payoutRows => PayoutRowsOK'
  BY DEF payoutRows, PayoutRowsOK, LawfulRow
<1>3. ConductRowsOK /\ UNCHANGED conductRows => ConductRowsOK'
  BY DEF conductRows, ConductRowsOK, CompletionIsTaught
<1>4. SalesRowsOK /\ UNCHANGED salesRows => SalesRowsOK'
  BY DEF salesRows, SalesRowsOK, ConversionIsWhole
<1>5. RelatedRowsOK /\ UNCHANGED relatedRows => RelatedRowsOK'
  BY DEF relatedRows, RelatedRowsOK, RelatedTypeOK, BothAcknowledged, InvoiceIsDisclosed
<1>6. CrossRowsOK /\ UNCHANGED crossRows => CrossRowsOK'
  BY DEF crossRows, CrossRowsOK, Fits
<1>7. ContractsRowsOK /\ UNCHANGED contractRows => ContractsRowsOK'
  BY ContractsStay
<1> QED
  BY <1>1, <1>2, <1>3, <1>4, <1>5, <1>6, <1>7

\* Time passes a day at a time.
LEMMA DaysAreCounted ==
    ASSUME today \in Nat, MoneyNext
    PROVE  today' \in Nat
<1> USE DEF Begins, GoesOn, Finishes, ClerkDies, DayPasses
<1>1. BillingNext => today' \in Nat
  <2>1. ASSUME NEW c \in Clerks PROVE ClerkDies(c) => today' \in Nat
    BY DEF ClerkDies
  <2>2. ASSUME NEW c \in Clerks PROVE PublishOffer(c) => today' \in Nat
    BY DEF PublishOffer
  <2>3. ASSUME NEW c \in Clerks PROVE StartEngagement(c) => today' \in Nat
    BY DEF StartEngagement
  <2>4. ASSUME NEW c \in Clerks PROVE CancelEngagement(c) => today' \in Nat
    BY DEF CancelEngagement
  <2>5. ASSUME NEW c \in Clerks PROVE RecordBilling(c) => today' \in Nat
    BY DEF RecordBilling
  <2>6. ASSUME NEW c \in Clerks PROVE RecordFundingOutcome(c) => today' \in Nat
    BY DEF RecordFundingOutcome
  <2>7. ASSUME NEW c \in Clerks PROVE MarkFunded(c) => today' \in Nat
    BY DEF MarkFunded
  <2>8. ASSUME NEW c \in Clerks PROVE PayRefund(c) => today' \in Nat
    BY DEF PayRefund
  <2>9. ASSUME NEW c \in Clerks PROVE DeclineRefund(c) => today' \in Nat
    BY DEF DeclineRefund
  <2>10. ASSUME NEW c \in Clerks PROVE ApplyCredit(c) => today' \in Nat
    BY DEF ApplyCredit
  <2>11. DayPasses => today' \in Nat
    BY DEF DayPasses
  <2> QED
    BY <2>1, <2>2, <2>3, <2>4, <2>5, <2>6, <2>7, <2>8, <2>9, <2>10, <2>11 DEF BillingNext
<1>2. PayoutNext => today' \in Nat
  BY DEF PayoutNext, Receive, DraftAgreement, ActivateAgreement, ComputePayout, ApprovePayout,
         DeclinePayout, RecordClawback, deskVars
<1>3. PartnerConductNext => today' \in Nat
  <2>1. ASSUME NEW c \in Clerks PROVE ClerkDies(c) => today' \in Nat
    BY DEF ClerkDies
  <2>2. ASSUME NEW c \in Clerks PROVE RecordQualification(c) => today' \in Nat
    BY DEF RecordQualification, Sets
  <2>3. ASSUME NEW c \in Clerks PROVE CompleteOnboarding(c) => today' \in Nat
    BY DEF CompleteOnboarding, Sets
  <2>4. ASSUME NEW c \in Clerks PROVE SuspendPartner(c) => today' \in Nat
    BY DEF SuspendPartner, Sets
  <2>5. ASSUME NEW c \in Clerks PROVE TerminatePartner(c) => today' \in Nat
    BY DEF TerminatePartner, Sets
  <2>6. ASSUME NEW c \in Clerks PROVE RecordFinding(c) => today' \in Nat
    BY DEF RecordFinding, Sets
  <2>7. ASSUME NEW c \in Clerks PROVE ResolveFinding(c) => today' \in Nat
    BY DEF ResolveFinding
  <2>8. ASSUME NEW c \in Clerks PROVE PublishModule(c) => today' \in Nat
    BY DEF PublishModule
  <2>9. ASSUME NEW c \in Clerks PROVE RecordCompletion(c) => today' \in Nat
    BY DEF RecordCompletion
  <2>10. ASSUME NEW c \in Clerks PROVE CanRefer(c) => today' \in Nat
    BY DEF CanRefer
  <2>11. ASSUME NEW c \in Clerks PROVE Refer(c) => today' \in Nat
    BY DEF Refer
  <2>12. ASSUME NEW c \in Clerks PROVE ApproveBrandArrangement(c) => today' \in Nat
    BY DEF ApproveBrandArrangement
  <2>13. ASSUME NEW c \in Clerks PROVE RevokeBrandArrangement(c) => today' \in Nat
    BY DEF RevokeBrandArrangement
  <2>14. DayPasses => today' \in Nat
    BY DEF DayPasses
  <2> QED
    BY <2>1, <2>2, <2>3, <2>4, <2>5, <2>6, <2>7, <2>8, <2>9, <2>10, <2>11, <2>12, <2>13, <2>14
       DEF PartnerConductNext
<1>4. SalesNext => today' \in Nat
  <2>1. ASSUME NEW c \in Clerks PROVE ClerkDies(c) => today' \in Nat
    BY DEF ClerkDies
  <2>2. ASSUME NEW c \in Clerks PROVE QualifyLead(c) => today' \in Nat
    BY DEF QualifyLead
  <2>3. ASSUME NEW c \in Clerks PROVE RecordBlueprintDelivered(c) => today' \in Nat
    BY DEF RecordBlueprintDelivered
  <2>4. ASSUME NEW c \in Clerks PROVE ScheduleReviewCall(c) => today' \in Nat
    BY DEF ScheduleReviewCall
  <2>5. ASSUME NEW c \in Clerks PROVE RecordActivity(c) => today' \in Nat
    BY DEF RecordActivity
  <2>6. ASSUME NEW c \in Clerks PROVE ConvertLead(c) => today' \in Nat
    BY DEF ConvertLead, Records
  <2>7. ASSUME NEW c \in Clerks PROVE CloseLead(c) => today' \in Nat
    BY DEF CloseLead, Records
  <2>8. ASSUME NEW c \in Clerks PROVE CorrectAttribution(c) => today' \in Nat
    BY DEF CorrectAttribution
  <2>9. ASSUME NEW c \in Clerks PROVE EscalateStaleLeads(c) => today' \in Nat
    BY DEF EscalateStaleLeads
  <2>10. ASSUME NEW c \in Clerks PROVE ResolveChase(c) => today' \in Nat
    BY DEF ResolveChase
  <2>11. DayPasses => today' \in Nat
    BY DEF DayPasses
  <2> QED
    BY <2>1, <2>2, <2>3, <2>4, <2>5, <2>6, <2>7, <2>8, <2>9, <2>10, <2>11 DEF SalesNext
<1>5. RelatedNext => today' \in Nat
  BY DEF RelatedNext, TagVenture, GenerateDisclosure, AcknowledgeByVenture,
         AcknowledgeByGardner, WithdrawDisclosure, RaiseInvoice, RouteToGardnerLedger
<1>6. CrossNext => today' \in Nat
  BY DEF CrossNext, Expire, GrantConsent, RevokeConsent, ProposeHandoff, RecordConsent,
         TransferHandoff, DeclineHandoff, DetectOpportunity, RecordGardnerDecision, Route,
         DismissOpportunity, Becomes, Moves, deskVars
<1>7. ContractsNext => today' \in Nat
  BY DEF ContractsNext, PublishStateModule, ActivateState, WithdrawState, PublishTemplate,
         ReviewTemplate, PublishClause, GenerateContract, StandingFor, RequiredDisclosures,
         CurrentTemplate, SelectClause, GoesIf, Goes
<1> QED
  BY <1>1, <1>2, <1>3, <1>4, <1>5, <1>6, <1>7
     DEF MoneyNext, AtBilling, AtPayouts, AtConduct, AtSales, AtRelated, AtCross, AtContracts

\* So are referrals.
LEMMA ReferralsAreCounted ==
    ASSUME referrals \in Nat, MoneyNext
    PROVE  referrals' \in Nat
<1>1. PartnerConductNext => referrals' \in Nat
  <2>1. ASSUME NEW c \in Clerks PROVE UNCHANGED conductRows => referrals' \in Nat
    BY DEF conductRows
  <2>2. ASSUME NEW c \in Clerks PROVE RecordQualification(c) => referrals' \in Nat
    BY DEF RecordQualification, Sets, conductRows
  <2>3. ASSUME NEW c \in Clerks PROVE CompleteOnboarding(c) => referrals' \in Nat
    BY DEF CompleteOnboarding, Sets, conductRows
  <2>4. ASSUME NEW c \in Clerks PROVE SuspendPartner(c) => referrals' \in Nat
    BY DEF SuspendPartner, Sets, conductRows
  <2>5. ASSUME NEW c \in Clerks PROVE TerminatePartner(c) => referrals' \in Nat
    BY DEF TerminatePartner, Sets, conductRows
  <2>6. ASSUME NEW c \in Clerks PROVE RecordFinding(c) => referrals' \in Nat
    BY DEF RecordFinding, Sets, conductRows
  <2>7. ASSUME NEW c \in Clerks PROVE ResolveFinding(c) => referrals' \in Nat
    BY DEF ResolveFinding, conductRows
  <2>8. ASSUME NEW c \in Clerks PROVE PublishModule(c) => referrals' \in Nat
    BY DEF PublishModule, conductRows
  <2>9. ASSUME NEW c \in Clerks PROVE RecordCompletion(c) => referrals' \in Nat
    BY DEF RecordCompletion, conductRows
  <2>10. ASSUME NEW c \in Clerks PROVE CanRefer(c) => referrals' \in Nat
    BY DEF CanRefer, CanReferByStatus, conductRows
  <2>11. ASSUME NEW c \in Clerks PROVE Refer(c) => referrals' \in Nat
    BY DEF Refer, conductRows
  <2>12. ASSUME NEW c \in Clerks PROVE ApproveBrandArrangement(c) => referrals' \in Nat
    BY DEF ApproveBrandArrangement, conductRows
  <2>13. ASSUME NEW c \in Clerks PROVE RevokeBrandArrangement(c) => referrals' \in Nat
    BY DEF RevokeBrandArrangement, conductRows
  <2>14. UNCHANGED conductRows => referrals' \in Nat
    BY DEF conductRows
  <2> QED
    BY <2>1, <2>2, <2>3, <2>4, <2>5, <2>6, <2>7, <2>8, <2>9, <2>10, <2>11, <2>12, <2>13, <2>14
       DEF PartnerConductNext
<1>2. UNCHANGED conductRows => referrals' \in Nat
  BY DEF conductRows
<1> QED
  BY <1>1, <1>2
     DEF MoneyNext, AtBilling, AtPayouts, AtConduct, AtSales, AtRelated, AtCross, AtContracts

LEMMA MoneyInitInv ==
    ASSUME MoneyInit
    PROVE  MoneyInv
<1>1. /\ request = [c \in Clerks |-> AtRest] /\ today = 0
      /\ BillingInit /\ PayoutInit /\ PartnerConductInit /\ SalesInit /\ RelatedInit
      /\ CrossInit /\ ContractsInit
  BY DEF MoneyInit
<1>2. RequestsOK
  BY <1>1 DEF RequestsOK
<1>3. referrals \in Nat
  BY <1>1 DEF PartnerConductInit
<1> QED
  BY <1>1, <1>2, <1>3, BillingInitOK, PayoutInitOK, ConductInitOK, SalesInitOK, RelatedInitOK,
     CrossInitOK, ContractsInitOK
     DEF MoneyInv, RowsOK, FollowedOK

LEMMA MoneyNextInv ==
    ASSUME MoneyInv, [MoneyNext]_moneyVars
    PROVE  MoneyInv'
<1>1. CASE UNCHANGED moneyVars
  <2>1. /\ UNCHANGED moneyRows /\ UNCHANGED <<request, today, desk>>
    BY <1>1 DEF moneyVars, deskVars
  <2>2. RowsOK' /\ referrals' \in Nat
    BY <2>1, RowsStay DEF moneyRows, RowsOK, MoneyInv, conductRows
  <2>3. UNCHANGED <<billingRows, payoutRows, conductRows, salesRows, relatedRows, crossRows,
                    contractRows>>
    BY <2>1 DEF moneyRows
  <2>4. FollowedOK'
    <3>1. UNCHANGED <<offer, authorization, handoff, opportunity, disclosure, clients, engaged,
                      rule, payout, finding, lesson, stateModule, counselReviews, template,
                      templateReviews, clause>>
      BY <2>3 DEF billingRows, payoutRows, conductRows, salesRows, relatedRows, crossRows,
                  contractRows
    <3>2. /\ BillingRequestsOK => BillingRequestsOK'
          /\ PayoutRequestsOK => PayoutRequestsOK'
      BY <2>1, <3>1 DEF BillingRequestsOK, BillingRequestOK, ReadOffer,
                        PayoutRequestsOK, PayoutRequestOK, LawfulRow
    <3>3. /\ ConductRequestsOK => ConductRequestsOK'
          /\ SalesRequestsOK => SalesRequestsOK'
      BY <2>1, <3>1 DEF ConductRequestsOK, ConductRequestOK, Clear,
                        SalesRequestsOK, SalesRequestOK
    <3>4. /\ RelatedRequestsOK => RelatedRequestsOK'
          /\ CrossRequestsOK => CrossRequestsOK'
      BY <2>1, <3>1 DEF RelatedRequestsOK, RelatedRequestOK, BothAcknowledged,
                        CrossRequestsOK, CrossRequestOK, Fits, Dead
    <3>5. ContractsRequestsOK => ContractsRequestsOK'
      BY <2>1, <3>1 DEF ContractsRequestsOK, ContractsRequestOK, ReviewStands, MaterialSince,
                        ClauseRequestOK, ClauseInForce, ClauseStands, NoOlder
    <3> QED
      BY <2>1, <3>2, <3>3, <3>4, <3>5 DEF MoneyInv, FollowedOK
  <2> QED
    BY <2>1, <2>2, <2>4, RequestsStay DEF MoneyInv
<1>2. CASE MoneyNext
  <2>1. today' \in Nat /\ referrals' \in Nat
    BY <1>2, DaysAreCounted, ReferralsAreCounted DEF MoneyInv
  <2>2. CASE AtBilling(BillingNext)
    BY <2>1, <2>2, BillingStep, RowsStay DEF AtBilling, MoneyInv, RowsOK, FollowedOK
  <2>3. CASE AtPayouts(PayoutNext)
    BY <2>1, <2>3, PayoutStep, RowsStay DEF AtPayouts, MoneyInv, RowsOK, FollowedOK
  <2>4. CASE AtConduct(PartnerConductNext)
    BY <2>1, <2>4, ConductStep, RowsStay DEF AtConduct, MoneyInv, RowsOK, FollowedOK
  <2>5. CASE AtSales(SalesNext)
    BY <2>1, <2>5, SalesStep, RowsStay DEF AtSales, MoneyInv, RowsOK, FollowedOK
  <2>6. CASE AtRelated(RelatedNext)
    BY <2>1, <2>6, RelatedStep, RowsStay DEF AtRelated, MoneyInv, RowsOK, FollowedOK
  <2>7. CASE AtCross(CrossNext)
    BY <2>1, <2>7, CrossStep, RowsStay DEF AtCross, MoneyInv, RowsOK, FollowedOK
  <2>8. CASE AtContracts(ContractsNext)
    BY <2>1, <2>8, ContractsStep, RowsStay DEF AtContracts, MoneyInv, RowsOK, FollowedOK
  <2> QED
    BY <1>2, <2>2, <2>3, <2>4, <2>5, <2>6, <2>7, <2>8 DEF MoneyNext
<1> QED
  BY <1>1, <1>2

LEMMA MoneyInvariant == MoneySpec => []MoneyInv
<1>1. MoneyInit => MoneyInv
  BY MoneyInitInv
<1>2. MoneyInv /\ [MoneyNext]_moneyVars => MoneyInv'
  BY MoneyNextInv
<1> QED
  BY <1>1, <1>2, PTL DEF MoneySpec

\* Whatever a client buys, pays, is returned and is credited, by whatever clerks
\* at once, an offer has at most one version on sale, and every amount returned
\* is explained by refund records, every credit by what was drawn from payments,
\* or by the rows somebody wrote down by hand (publishOffer, payRefund,
\* applyCredit, recordBilling); and the rows of every package stay well formed.
THEOREM BooksAlwaysAgree == MoneySpec => []BooksAgree
<1>1. MoneyInv => BooksAgree
  BY BillingTypes, PayoutTypes, ConductTypes, SalesTypes, CrossTypes, ContractsTypes
     DEF MoneyInv, RowsOK, RelatedRowsOK, BooksAgree, MoneyTypeOK
<1> QED
  BY <1>1, MoneyInvariant, PTL

\* Counsel reviewed the template of every text a client signs; the clause in it,
\* which nobody reviews, was in force when the text was asked for or came later;
\* and none that carries disclosures of before the state's rules moved on passes
\* for up to date: whatever is published, reviewed or withdrawn while it is put
\* together (generateContract, templateIsGenerable, selectClause, staleContracts).
THEOREM SignedTextAlwaysStands == MoneySpec => []SignedTextStands
<1>1. MoneyInv => SignedTextStands
  BY ContractsStand DEF MoneyInv, RowsOK
<1> QED
  BY <1>1, MoneyInvariant, PTL

\* For any terms, shares, caps and clients' states, a partner is paid nothing
\* that the law of a client's state forbids or cannot answer for and nothing
\* above its cap, and an approval writes off no more than its payout deducted
\* (computePayout, applyShare, settleClawbacks).
THEOREM PartnersArePaidByLaw == MoneySpec => PayoutsAreLawful
<1>1. MoneyInv => LawfulPayout
  BY RowsAreLawful DEF MoneyInv, RowsOK
<1>2. MoneyInv /\ [MoneyNext]_moneyVars => [WritesOff]_payoutVars
  <2> SUFFICES ASSUME MoneyInv, MoneyNext, ~UNCHANGED payoutVars PROVE WritesOff
    BY DEF moneyVars, moneyRows, payoutVars
  <2>1. PayoutRowsOK
    BY DEF MoneyInv, RowsOK
  <2>2. CASE AtPayouts(PayoutNext)
    BY <2>1, <2>2, WriteOffsAreDeducted DEF AtPayouts, MoneyInv, FollowedOK, WritesOff
  <2>3. CASE clawback' = clawback
    BY <2>1, <2>3, NothingIsSettled DEF WritesOff
  <2> QED
    BY <2>2, <2>3
       DEF MoneyNext, AtBilling, AtConduct, AtSales, AtRelated, AtCross, AtContracts, payoutRows
<1>3. MoneySpec => [][WritesOff]_payoutVars
  BY <1>2, MoneyInvariant, PTL DEF MoneySpec
<1>4. MoneySpec => []LawfulPayout
  BY <1>1, MoneyInvariant, PTL
<1> QED
  BY <1>3, <1>4 DEF PayoutsAreLawful, WritesOffWhatItDeducted

\* A partner certified to refer or to use the name was taught what is taught
\* now, within the cadence, and what was found on a partner before a referral
\* was asked for stops it, whatever is published, recorded or resolved
\* meanwhile (deriveStanding, canRefer, recordFinding).
THEOREM ReferrersStayFit == MoneySpec => ReferrersAreFit
<1> DEFINE Stops == \A c \in Clerks :
                       referrals' > referrals /\ Doing(c, "certify") /\ request'[c] = AtRest
                          => ~UnderReview(request[c].known \intersect OpenFindings)
<1>1. MoneyInv => CertifiedIsTaught
  BY CertifiedWereTaught DEF MoneyInv, RowsOK
<1>2. MoneyInv /\ [MoneyNext]_moneyVars => [Stops]_conductVars
  <2> SUFFICES ASSUME MoneyInv, MoneyNext, ~UNCHANGED conductVars PROVE Stops
    BY DEF moneyVars, moneyRows, conductVars
  <2>1. CASE desk = "conduct"
    BY <2>1, FindingsStop DEF MoneyInv, FollowedOK
  <2>2. CASE desk # "conduct"
    <3>1. referrals' = referrals /\ referrals \in Nat
      BY <2>2 DEF MoneyInv, MoneyNext, AtBilling, AtPayouts, AtConduct, AtSales, AtRelated,
                  AtCross, AtContracts, conductRows
    <3>2. ~(referrals' > referrals)
      BY <3>1
    <3> QED
      BY <3>2
  <2> QED
    BY <2>1, <2>2
<1> HIDE DEF Stops
<1>3. MoneySpec => [][Stops]_conductVars
  BY <1>2, MoneyInvariant, PTL DEF MoneySpec
<1>4. MoneySpec => []CertifiedIsTaught
  BY <1>1, MoneyInvariant, PTL
<1> USE DEF Stops
<1> QED
  BY <1>3, <1>4 DEF ReferrersAreFit, FindingsStopReferrals

\* A lead that is converted has its client and the engagement that was asked
\* for, and once it is converted or lost it stays so, whoever decides second
\* (convertLead, closeLead).
THEOREM LeadsAlwaysEndWhole == MoneySpec => LeadsEndWhole
<1> DEFINE Stays == verdict # Undecided => verdict' = verdict
<1>1. MoneyInv => ConversionIsWhole
  BY DEF MoneyInv, RowsOK, SalesRowsOK
<1>2. [MoneyNext]_moneyVars => [Stays]_salesVars
  <2> SUFFICES ASSUME MoneyNext, ~UNCHANGED salesVars PROVE Stays
    BY DEF moneyVars, moneyRows, salesVars
  <2>1. CASE AtSales(SalesNext)
    BY <2>1, DecisionStands DEF AtSales
  <2>2. CASE verdict' = verdict
    BY <2>2
  <2> QED
    BY <2>1, <2>2
       DEF MoneyNext, AtBilling, AtPayouts, AtConduct, AtRelated, AtCross, AtContracts, salesRows
<1> HIDE DEF Stays
<1>3. MoneySpec => [][Stays]_salesVars
  BY <1>2, PTL DEF MoneySpec
<1>4. MoneySpec => []ConversionIsWhole
  BY <1>1, MoneyInvariant, PTL
<1> USE DEF Stays
<1> QED
  BY <1>3, <1>4 DEF LeadsEndWhole, LeadEndsOnce

\* No invoice goes between the companies before both sides acknowledged the
\* conflict, and no client's data on a consent that was gone before somebody
\* asked for the transfer (raiseInvoice, transferHandoff, route).
THEOREM NothingPassesUnconsented == MoneySpec => PassedWithConsent
<1> DEFINE Stops ==
      \A c \in Clerks :
         /\ Doing(c, "transfer") /\ request'[c] = AtRest /\ handoff' # handoff =>
               /\ request[c].consent \notin request[c].dead
               /\ authorization[request[c].consent].scope = handoff[request[c].on].scope
         /\ Doing(c, "route") /\ opportunity' # opportunity /\ opportunity'.state = "routed" =>
               \E a \in Authorizations \ request[c].dead :
                   authorization[a].scope = opportunity.scope
<1>1. MoneyInv => InvoiceIsDisclosed
  BY DEF MoneyInv, RowsOK, RelatedRowsOK
<1>2. MoneyInv /\ [MoneyNext]_moneyVars => [Stops]_crossVars
  <2> SUFFICES ASSUME MoneyInv, MoneyNext, ~UNCHANGED crossVars PROVE Stops
    BY DEF moneyVars, moneyRows, crossVars
  <2>1. CASE desk = "cross"
    BY <2>1, RevocationStops DEF MoneyInv, FollowedOK
  <2>2. CASE desk # "cross"
    <3>1. UNCHANGED <<handoff, opportunity>>
      BY <2>2 DEF MoneyNext, AtBilling, AtPayouts, AtConduct, AtSales, AtRelated, AtCross,
                  AtContracts, crossRows
    <3> QED
      BY <3>1
  <2> QED
    BY <2>1, <2>2
<1> HIDE DEF Stops
<1>3. MoneySpec => [][Stops]_crossVars
  BY <1>2, MoneyInvariant, PTL DEF MoneySpec
<1>4. MoneySpec => []InvoiceIsDisclosed
  BY <1>1, MoneyInvariant, PTL
<1> USE DEF Stops
<1> QED
  BY <1>3, <1>4 DEF PassedWithConsent, RevocationStopsTransfers
=============================================================================
