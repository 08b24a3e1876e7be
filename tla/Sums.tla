---------------------------------- MODULE Sums ----------------------------------
(***************************************************************************)
(* What the library's sum over a finite set obeys, whatever order its fold *)
(* takes the elements in; iterates of a function; sequences laid end to    *)
(* end.                                                                    *)
(***************************************************************************)
EXTENDS Naturals, Sequences, FiniteSets, FiniteSetsExt, Folds, FiniteSetTheorems,
        WellFoundedInduction, TLAPS

\* A set of natural numbers that has an element has a least one.
LEMMA LeastNat ==
    ASSUME NEW T \in SUBSET Nat, T # {}
    PROVE  \E n \in T : \A m \in T : n <= m
<1> DEFINE R == OpToRel(<, Nat)
<1>1. IsWellFoundedOn(R, Nat)
  BY NatLessThanWellFounded
<1>2. \A m, n \in Nat : <<m, n>> \in R <=> m < n
  BY DEF OpToRel
<1> HIDE DEF R
<1>3. PICK n \in T : \A m \in T : ~(<<m, n>> \in R)
  BY <1>1, WFMin
<1>4. \A m \in T : ~(m < n)
  <2> SUFFICES ASSUME NEW m \in T PROVE ~(m < n)
    OBVIOUS
  <2>1. m \in Nat /\ n \in Nat /\ ~(<<m, n>> \in R)
    BY <1>3
  <2> QED BY <1>2, <2>1
<1>5. n \in Nat /\ \A m \in T : m \in Nat
  OBVIOUS
<1>6. \A m \in T : n <= m
  BY <1>4, <1>5
<1> QED BY <1>6

-----------------------------------------------------------------------------
(* Sums over finite sets, by the smallest counterexample: what fails for     *)
(* some finite set fails for one of whose proper parts it holds.             *)

LEMMA SmallestSet ==
    ASSUME NEW S, IsFiniteSet(S), NEW T, T \subseteq SUBSET S, T # {}
    PROVE  \E s \in T : \A u \in T : ~(u \subseteq s /\ u # s)
<1> DEFINE R == StrictSubsetOrdering(S)
<1>1. IsWellFoundedOn(R, SUBSET S)
  BY FS_StrictSubsetOrderingWellFounded, FS_FiniteSubsetsOfFinite
<1>2. \A u, s \in SUBSET S : u \subseteq s /\ u # s => <<u, s>> \in R
  BY DEF StrictSubsetOrdering
<1> HIDE DEF R
<1>3. PICK s \in T : \A u \in T : ~(<<u, s>> \in R) BY <1>1, WFMin
<1>4. QED BY <1>2, <1>3

\* The sum of a function over a set, as the fold takes its elements.
Total(w, S) == MapThenSumSet(LAMBDA x : w[x], S)
First(s) == CHOOSE x \in s : TRUE
AddsUp(g, w, S) ==
    g = [s \in SUBSET S |-> IF s = {} THEN 0 ELSE w[First(s)] + g[s \ {First(s)}]]

LEMMA FirstIn == ASSUME NEW s, s # {} PROVE First(s) \in s
  BY DEF First

\* Two such functions agree where both are defined.
LEMMA AddsUpAgree ==
    ASSUME NEW w, NEW S, NEW g, AddsUp(g, w, S), NEW U, NEW h, AddsUp(h, w, U),
           NEW v \in SUBSET (S \cap U), IsFiniteSet(v)
    PROVE  g[v] = h[v]
<1> DEFINE T == {s \in SUBSET v : g[s] # h[s]}
<1> SUFFICES ASSUME T # {} PROVE FALSE
  OBVIOUS
<1>1. PICK s \in T : \A u \in T : ~(u \subseteq s /\ u # s)
  <2>1. T \subseteq SUBSET v OBVIOUS
  <2> HIDE DEF T
  <2>2. QED BY <2>1, SmallestSet
<1>2. s \in SUBSET S /\ s \in SUBSET U OBVIOUS
<1>3. CASE s = {} BY <1>1, <1>2, <1>3 DEF AddsUp
<1>4. CASE s # {}
  <2> DEFINE r == s \ {First(s)}
  <2>1. First(s) \in s /\ r \in SUBSET v /\ r \subseteq s /\ r # s BY <1>4, FirstIn
  <2>2. g[r] = h[r] BY <1>1, <2>1
  <2>3. g[s] = w[First(s)] + g[r] /\ h[s] = w[First(s)] + h[r] BY <1>2, <1>4 DEF AddsUp
  <2>4. QED BY <1>1, <2>2, <2>3
<1>5. QED BY <1>3, <1>4

\* There is one on every finite set.
LEMMA AddsUpExists ==
    ASSUME NEW w, NEW S, IsFiniteSet(S) PROVE \E g : AddsUp(g, w, S)
<1> DEFINE T == {s \in SUBSET S : ~\E g : AddsUp(g, w, s)}
<1> SUFFICES ASSUME T # {} PROVE FALSE
  OBVIOUS
<1>1. PICK s \in T : \A u \in T : ~(u \subseteq s /\ u # s)
  <2>1. T \subseteq SUBSET S OBVIOUS
  <2> HIDE DEF T
  <2>2. QED BY <2>1, SmallestSet
<1> DEFINE G(u) == CHOOSE g : AddsUp(g, w, u)
           h == [t \in SUBSET s |->
                   IF t = {} THEN 0 ELSE w[First(t)] + G(t \ {First(t)})[t \ {First(t)}]]
<1>2. \A u \in SUBSET s : u # s => AddsUp(G(u), w, u) BY <1>1
<1> HIDE DEF G
<1>3. ASSUME NEW t \in SUBSET s, t # {}
      PROVE  h[t \ {First(t)}] = G(t \ {First(t)})[t \ {First(t)}]
  <2> DEFINE r == t \ {First(t)}
             q == r \ {First(r)}
  <2>1. First(t) \in t /\ r \in SUBSET s /\ r # s BY <1>3, FirstIn
  <2>2. AddsUp(G(r), w, r) BY <1>2, <2>1
  <2>3. CASE r = {} BY <2>2, <2>3 DEF AddsUp
  <2>4. CASE r # {}
    <3>1. First(r) \in r /\ q \in SUBSET r /\ q # s /\ q \in SUBSET s BY <2>1, <2>4, FirstIn
    <3>2. AddsUp(G(q), w, q) BY <1>2, <3>1
    <3>3. IsFiniteSet(q) BY <3>1, FS_Subset
    <3>4. q \in SUBSET (r \cap q) BY <3>1
    <3>5. G(r)[q] = G(q)[q]
      <4> HIDE DEF r, q
      <4>1. QED BY <2>2, <3>2, <3>3, <3>4, AddsUpAgree
    <3>6. G(r)[r] = w[First(r)] + G(r)[q] BY <2>2, <2>4 DEF AddsUp
    <3>7. h[r] = w[First(r)] + G(q)[q] BY <2>1, <2>4
    <3>8. QED BY <3>5, <3>6, <3>7
  <2>5. QED BY <2>3, <2>4
<1>4. h = [t \in SUBSET s |-> IF t = {} THEN 0 ELSE w[First(t)] + h[t \ {First(t)}]]
  <2>1. \A t \in SUBSET s :
           h[t] = IF t = {} THEN 0 ELSE w[First(t)] + G(t \ {First(t)})[t \ {First(t)}]
    OBVIOUS
  <2>2. \A t \in SUBSET s : h[t] = IF t = {} THEN 0 ELSE w[First(t)] + h[t \ {First(t)}]
    BY <1>3, <2>1
  <2>3. h = [t \in SUBSET s |-> h[t]] OBVIOUS
  <2> HIDE DEF h
  <2>4. QED BY <2>2, <2>3
<1>5. AddsUp(h, w, s) BY <1>4 DEF AddsUp
<1>6. QED BY <1>1, <1>5

LEMMA TotalAddsUp ==
    ASSUME NEW w, NEW S, IsFiniteSet(S)
    PROVE  \E g : AddsUp(g, w, S) /\ Total(w, S) = g[S]
<1> DEFINE g == CHOOSE f : AddsUp(f, w, S)
<1>1. AddsUp(g, w, S) BY AddsUpExists
<1>2. Total(w, S) = g[S] BY DEF Total, MapThenSumSet, MapThenFoldSet, AddsUp, First
<1>3. QED BY <1>1, <1>2

LEMMA TotalEmpty == ASSUME NEW w PROVE Total(w, {}) = 0
<1>1. IsFiniteSet({}) BY FS_EmptySet
<1>2. PICK g : AddsUp(g, w, {}) /\ Total(w, {}) = g[{}] BY <1>1, TotalAddsUp
<1>3. QED BY <1>2 DEF AddsUp

LEMMA TotalFirst ==
    ASSUME NEW w, NEW S, IsFiniteSet(S), S # {}
    PROVE  Total(w, S) = w[First(S)] + Total(w, S \ {First(S)})
<1> DEFINE r == S \ {First(S)}
<1>1. IsFiniteSet(r) /\ r \in SUBSET S BY FS_Subset
<1>2. PICK g : AddsUp(g, w, S) /\ Total(w, S) = g[S] BY TotalAddsUp
<1>3. g[S] = w[First(S)] + g[r] BY <1>2 DEF AddsUp
<1>4. r \in SUBSET (S \cap r) BY <1>1
<1> HIDE DEF r
<1>5. PICK h : AddsUp(h, w, r) /\ Total(w, r) = h[r] BY <1>1, TotalAddsUp
<1>6. g[r] = h[r] BY <1>1, <1>2, <1>4, <1>5, AddsUpAgree
<1>7. QED BY <1>2, <1>3, <1>5, <1>6 DEF r

LEMMA TotalType ==
    ASSUME NEW w, NEW S, IsFiniteSet(S), \A x \in S : w[x] \in Nat
    PROVE  Total(w, S) \in Nat
<1> DEFINE T == {s \in SUBSET S : Total(w, s) \notin Nat}
<1> SUFFICES ASSUME T # {} PROVE FALSE
  OBVIOUS
<1>1. PICK s \in T : \A u \in T : ~(u \subseteq s /\ u # s)
  <2>1. T \subseteq SUBSET S OBVIOUS
  <2> HIDE DEF T
  <2>2. QED BY <2>1, SmallestSet
<1>2. s # {}
  <2>1. Total(w, {}) = 0 /\ 0 \in Nat BY TotalEmpty
  <2>2. QED BY <1>1, <2>1
<1>3. First(s) \in s /\ IsFiniteSet(s) BY <1>2, FirstIn, FS_Subset
<1>4. Total(w, s) = w[First(s)] + Total(w, s \ {First(s)}) BY <1>2, <1>3, TotalFirst
<1>5. Total(w, s \ {First(s)}) \in Nat BY <1>1, <1>3
<1>6. QED BY <1>1, <1>3, <1>4, <1>5

\* The order in which the fold takes the elements does not matter.
LEMMA TotalSplit ==
    ASSUME NEW w, NEW S, IsFiniteSet(S), \A x \in S : w[x] \in Nat, NEW x \in S
    PROVE  Total(w, S) = w[x] + Total(w, S \ {x})
<1> DEFINE T == {s \in SUBSET S : \E y \in s : Total(w, s) # w[y] + Total(w, s \ {y})}
<1> SUFFICES ASSUME T # {} PROVE FALSE
  OBVIOUS
<1>1. PICK s \in T : \A u \in T : ~(u \subseteq s /\ u # s)
  <2>1. T \subseteq SUBSET S OBVIOUS
  <2> HIDE DEF T
  <2>2. QED BY <2>1, SmallestSet
<1>2. PICK y \in s : Total(w, s) # w[y] + Total(w, s \ {y}) BY <1>1
<1> DEFINE c == First(s)
<1>3. c \in s /\ s \in SUBSET S BY <1>2, FirstIn
<1>4. IsFiniteSet(s) /\ IsFiniteSet(s \ {y}) /\ IsFiniteSet(s \ {c})
  BY <1>3, FS_Subset, FS_RemoveElement
<1>5. Total(w, s) = w[c] + Total(w, s \ {c}) BY <1>2, <1>4, TotalFirst
<1>6. y # c BY <1>2, <1>5
<1> HIDE DEF c
<1>7. s \ {c} \notin T /\ s \ {y} \notin T BY <1>1, <1>2, <1>3
<1>8. Total(w, s \ {c}) = w[y] + Total(w, (s \ {c}) \ {y}) BY <1>2, <1>3, <1>6, <1>7
<1>9. Total(w, s \ {y}) = w[c] + Total(w, (s \ {y}) \ {c}) BY <1>2, <1>3, <1>6, <1>7
<1>10. (s \ {c}) \ {y} = (s \ {y}) \ {c} /\ IsFiniteSet((s \ {y}) \ {c})
  BY <1>4, FS_RemoveElement
<1>11. Total(w, (s \ {y}) \ {c}) \in Nat /\ w[y] \in Nat /\ w[c] \in Nat
  <2>1. \A z \in (s \ {y}) \ {c} : w[z] \in Nat BY <1>3
  <2>2. Total(w, (s \ {y}) \ {c}) \in Nat BY <1>10, <2>1, TotalType
  <2>3. QED BY <1>2, <1>3, <2>2
<1>12. Total(w, s) = w[y] + Total(w, s \ {y})
  <2> DEFINE a == Total(w, (s \ {y}) \ {c})
  <2>1. a \in Nat /\ w[y] \in Nat /\ w[c] \in Nat BY <1>11
  <2>2. Total(w, s) = w[c] + (w[y] + a) BY <1>5, <1>8, <1>10
  <2>3. Total(w, s \ {y}) = w[c] + a BY <1>9
  <2> HIDE DEF a
  <2>4. w[c] + (w[y] + a) = w[y] + (w[c] + a) BY <2>1
  <2>5. QED BY <2>2, <2>3, <2>4
<1>13. QED BY <1>2, <1>12

\* Equal terms, equal sums.
LEMMA TotalSame ==
    ASSUME NEW w, NEW v, NEW S, IsFiniteSet(S), \A x \in S : w[x] = v[x]
    PROVE  Total(w, S) = Total(v, S)
<1> DEFINE T == {s \in SUBSET S : Total(w, s) # Total(v, s)}
<1> SUFFICES ASSUME T # {} PROVE FALSE
  OBVIOUS
<1>1. PICK s \in T : \A u \in T : ~(u \subseteq s /\ u # s)
  <2>1. T \subseteq SUBSET S OBVIOUS
  <2> HIDE DEF T
  <2>2. QED BY <2>1, SmallestSet
<1>2. s # {} BY <1>1, TotalEmpty
<1>3. First(s) \in s /\ IsFiniteSet(s) BY <1>2, FirstIn, FS_Subset
<1>4. Total(w, s \ {First(s)}) = Total(v, s \ {First(s)}) BY <1>1, <1>3
<1>5. /\ Total(w, s) = w[First(s)] + Total(w, s \ {First(s)})
      /\ Total(v, s) = v[First(s)] + Total(v, s \ {First(s)})
  BY <1>2, <1>3, TotalFirst
<1>6. w[First(s)] = v[First(s)] BY <1>3
<1>7. QED BY <1>1, <1>4, <1>5, <1>6

\* One term changes, and the sum by as much.
LEMMA TotalChange ==
    ASSUME NEW w, NEW v, NEW S, IsFiniteSet(S), NEW x \in S,
           \A y \in S : w[y] \in Nat /\ v[y] \in Nat, \A y \in S \ {x} : w[y] = v[y]
    PROVE  \E n \in Nat : Total(w, S) = w[x] + n /\ Total(v, S) = v[x] + n
<1>1. IsFiniteSet(S \ {x}) BY FS_RemoveElement
<1>2. Total(w, S \ {x}) = Total(v, S \ {x}) BY <1>1, TotalSame
<1>3. Total(w, S \ {x}) \in Nat BY <1>1, TotalType
<1>4. Total(w, S) = w[x] + Total(w, S \ {x}) /\ Total(v, S) = v[x] + Total(v, S \ {x})
  BY TotalSplit
<1>5. QED BY <1>2, <1>3, <1>4

LEMMA TotalZero ==
    ASSUME NEW w, NEW S, IsFiniteSet(S), \A x \in S : w[x] = 0
    PROVE  Total(w, S) = 0
<1> DEFINE T == {s \in SUBSET S : Total(w, s) # 0}
<1> SUFFICES ASSUME T # {} PROVE FALSE
  OBVIOUS
<1>1. PICK s \in T : \A u \in T : ~(u \subseteq s /\ u # s)
  <2>1. T \subseteq SUBSET S OBVIOUS
  <2> HIDE DEF T
  <2>2. QED BY <2>1, SmallestSet
<1>2. s # {} BY <1>1, TotalEmpty
<1>3. First(s) \in s /\ IsFiniteSet(s) BY <1>2, FirstIn, FS_Subset
<1>4. Total(w, s \ {First(s)}) = 0 /\ w[First(s)] = 0 BY <1>1, <1>3
<1>5. Total(w, s) = 0 + 0 BY <1>2, <1>3, <1>4, TotalFirst
<1>6. QED BY <1>1, <1>5

\* Terms that are larger by at most b, and only where m says, make a sum that is larger
\* by at most b for each of those.
LEMMA TotalBound ==
    ASSUME NEW w, NEW v, NEW S, IsFiniteSet(S), NEW b \in Nat, NEW M,
           \A x \in S : w[x] \in Nat /\ v[x] \in Nat,
           \A x \in S : v[x] <= w[x] + (IF x \in M THEN b ELSE 0)
    PROVE  Total(v, S) <= Total(w, S) + Cardinality(S \cap M) * b
<1> DEFINE Bad(s) == ~(Total(v, s) <= Total(w, s) + Cardinality(s \cap M) * b)
           T == {s \in SUBSET S : Bad(s)}
<1> SUFFICES ASSUME T # {} PROVE FALSE
  OBVIOUS
<1>1. PICK s \in T : \A u \in T : ~(u \subseteq s /\ u # s)
  <2>1. T \subseteq SUBSET S OBVIOUS
  <2> HIDE DEF T
  <2>2. QED BY <2>1, SmallestSet
<1>2. s # {}
  <2>1. Total(v, {}) = 0 /\ Total(w, {}) = 0 /\ Cardinality({} \cap M) = 0
    BY TotalEmpty, FS_EmptySet
  <2>2. 0 <= 0 + 0 * b OBVIOUS
  <2>3. QED BY <1>1, <2>1, <2>2
<1> DEFINE c == First(s)
           r == s \ {c}
<1>3. c \in s /\ c \in S /\ IsFiniteSet(s) /\ IsFiniteSet(r) /\ r \in SUBSET S
  BY <1>2, FirstIn, FS_Subset
<1>4. ~Bad(r) BY <1>1, <1>3
<1>5. Total(v, s) = v[c] + Total(v, r) /\ Total(w, s) = w[c] + Total(w, r)
  BY <1>2, <1>3, TotalFirst
<1>6. Total(v, r) \in Nat /\ Total(w, r) \in Nat BY <1>3, TotalType
<1>7. /\ IsFiniteSet(r \cap M) /\ Cardinality(r \cap M) \in Nat
      /\ Cardinality(s \cap M) = Cardinality(r \cap M) + (IF c \in M THEN 1 ELSE 0)
  <2>1. IsFiniteSet(r \cap M) BY <1>3, FS_Subset
  <2>2. CASE c \in M
    <3>1. s \cap M = (r \cap M) \cup {c} /\ c \notin r \cap M BY <1>3, <2>2
    <3> HIDE DEF c, r
    <3>2. QED BY <2>1, <2>2, <3>1, FS_AddElement, FS_CardinalityType
  <2>3. CASE c \notin M
    <3>1. s \cap M = r \cap M BY <2>3
    <3>2. Cardinality(r \cap M) \in Nat BY <2>1, FS_CardinalityType
    <3>3. Cardinality(s \cap M) = Cardinality(r \cap M) + 0
      <4>1. Cardinality(s \cap M) = Cardinality(r \cap M) BY <3>1
      <4> HIDE DEF c, r
      <4>2. QED BY <3>2, <4>1
    <3> HIDE DEF c, r
    <3>4. QED BY <2>1, <2>3, <3>2, <3>3
  <2>4. QED BY <2>2, <2>3
<1> HIDE DEF c, r
<1> DEFINE k == Cardinality(r \cap M)
<1>8. (k + 1) * b = k * b + b /\ (k + 0) * b = k * b /\ k * b \in Nat
  <2>1. k \in Nat BY <1>7
  <2> HIDE DEF k
  <2>2. QED BY <2>1
<1>9. Total(v, r) <= Total(w, r) + k * b BY <1>4
<1>10. Cardinality(s \cap M) * b = k * b + (IF c \in M THEN b ELSE 0)
  <2>1. CASE c \in M BY <1>7, <1>8, <2>1
  <2>2. CASE c \notin M BY <1>7, <1>8, <2>2
  <2>3. QED BY <2>1, <2>2
<1>11. v[c] \in Nat /\ w[c] \in Nat /\ v[c] <= w[c] + (IF c \in M THEN b ELSE 0) BY <1>3
<1>12. Total(v, s) <= Total(w, s) + Cardinality(s \cap M) * b
  <2> DEFINE kb == k * b
  <2>1. kb \in Nat /\ Total(v, r) <= Total(w, r) + kb BY <1>8, <1>9
  <2>2. Cardinality(s \cap M) * b = kb + (IF c \in M THEN b ELSE 0) BY <1>10
  <2> HIDE DEF kb
  <2>3. QED BY <1>5, <1>6, <1>11, <2>1, <2>2
<1>13. QED BY <1>1, <1>12

\* What is renamed one to one is as many as before.
LEMMA ImageCardinality ==
    ASSUME NEW A, IsFiniteSet(A), NEW f, \A x, y \in A : f[x] = f[y] => x = y
    PROVE  /\ IsFiniteSet({f[x] : x \in A})
           /\ Cardinality({f[x] : x \in A}) = Cardinality(A)
<1> DEFINE B == {f[x] : x \in A}
           g == [x \in A |-> f[x]]
<1>1. g \in Bijection(A, B) BY DEF Bijection, Injection, Surjection, IsInjective
<1>2. ExistsBijection(A, B) BY <1>1 DEF ExistsBijection
<1> HIDE DEF B
<1>3. QED BY <1>2, FS_Bijection DEF B

LEMMA ImageFinite ==
    ASSUME NEW A, IsFiniteSet(A), NEW f PROVE IsFiniteSet({f[x] : x \in A})
<1> DEFINE B == {f[x] : x \in A}
           g == [x \in A |-> f[x]]
<1>1. g \in Surjection(A, B) BY DEF Surjection
<1> HIDE DEF B, g
<1>2. QED BY <1>1, FS_Surjection DEF B

\* The same terms under other names, each k times as large, make k times the sum.
LEMMA TotalImage ==
    ASSUME NEW A, IsFiniteSet(A), NEW w, NEW f, NEW v, NEW k \in Nat,
           \A x, y \in A : f[x] = f[y] => x = y,
           \A x \in A : w[x] \in Nat /\ v[f[x]] = w[x] * k
    PROVE  Total(v, {f[x] : x \in A}) = Total(w, A) * k
<1> DEFINE I(s) == {f[x] : x \in s}
           T == {s \in SUBSET A : Total(v, I(s)) # Total(w, s) * k}
<1> SUFFICES ASSUME T # {} PROVE FALSE
  OBVIOUS
<1>1. PICK s \in T : \A u \in T : ~(u \subseteq s /\ u # s)
  <2>1. T \subseteq SUBSET A OBVIOUS
  <2> HIDE DEF T
  <2>2. QED BY <2>1, SmallestSet
<1>2. s # {}
  <2>1. I({}) = {} OBVIOUS
  <2>2. Total(v, I({})) = 0 /\ Total(w, {}) = 0 BY <2>1, TotalEmpty
  <2>3. 0 * k = 0 OBVIOUS
  <2>4. QED BY <1>1, <2>2, <2>3
<1> DEFINE c == First(s)
           r == s \ {c}
<1>3. c \in s /\ c \in A /\ s \in SUBSET A /\ r \in SUBSET A BY <1>1, <1>2, FirstIn
<1>4. IsFiniteSet(s) /\ IsFiniteSet(r) /\ IsFiniteSet(I(s))
  <2>1. IsFiniteSet(s) /\ IsFiniteSet(r) BY <1>3, FS_Subset
  <2>2. \A x, y \in s : f[x] = f[y] => x = y BY <1>3
  <2>3. QED BY <2>1, <2>2, ImageCardinality
<1>5. Total(v, I(r)) = Total(w, r) * k BY <1>1, <1>3
<1>6. Total(w, s) = w[c] + Total(w, r) BY <1>2, <1>4, TotalFirst
<1>7. I(s) \ {f[c]} = I(r) /\ f[c] \in I(s) BY <1>3
<1>8. \A y \in I(s) : v[y] \in Nat BY <1>3
<1>9. Total(v, I(s)) = v[f[c]] + Total(v, I(r))
  <2>1. Total(v, I(s)) = v[f[c]] + Total(v, I(s) \ {f[c]})
    <3> HIDE DEF I, c
    <3>1. QED BY <1>4, <1>7, <1>8, TotalSplit
  <2>2. QED BY <1>7, <2>1
<1>10. w[c] \in Nat /\ v[f[c]] = w[c] * k BY <1>3
<1>11. Total(w, r) \in Nat BY <1>3, <1>4, TotalType
<1> DEFINE a == Total(w, r)
           b == w[c]
<1>12. (b + a) * k = b * k + a * k
  <2>1. a \in Nat /\ b \in Nat BY <1>10, <1>11
  <2> HIDE DEF a, b
  <2>2. QED BY <2>1
<1>13. Total(v, I(s)) = Total(w, s) * k BY <1>5, <1>6, <1>9, <1>10, <1>12
<1>14. QED BY <1>1, <1>13

-----------------------------------------------------------------------------
(* A function given by its first value and a step.                           *)

Iterates(g, x, f, n) == g = [i \in 0..n |-> IF i = 0 THEN x ELSE f[g[i - 1]]]

LEMMA IteratesExist ==
    ASSUME NEW S, NEW x \in S, NEW f \in [S -> S], NEW n \in Nat
    PROVE  \E g \in [0..n -> S] : Iterates(g, x, f, n)
<1> DEFINE T == {m \in Nat : ~\E g \in [0..m -> S] : Iterates(g, x, f, m)}
<1> SUFFICES ASSUME T # {} PROVE FALSE
  OBVIOUS
<1>1. PICK m \in T : \A l \in T : m <= l
  <2>1. T \subseteq Nat OBVIOUS
  <2> HIDE DEF T
  <2>2. QED BY <2>1, LeastNat
<1>2. CASE m = 0
  <2> DEFINE g == [i \in 0..0 |-> x]
  <2>1. g \in [0..0 -> S] /\ Iterates(g, x, f, 0) BY DEF Iterates
  <2>2. QED BY <1>1, <1>2, <2>1
<1>3. CASE m # 0
  <2>1. m \in Nat /\ m - 1 \in Nat /\ ~(m <= m - 1) BY <1>3
  <2>2. PICK g \in [0..(m - 1) -> S] : Iterates(g, x, f, m - 1) BY <1>1, <2>1
  <2> DEFINE h == [i \in 0..m |-> IF i = m THEN f[g[m - 1]] ELSE g[i]]
  <2>3. h \in [0..m -> S]
    <3>1. g[m - 1] \in S BY <2>1
    <3>2. \A i \in 0..m : i # m => i \in 0..(m - 1) BY <2>1
    <3>3. QED BY <3>1, <3>2
  <2>4. \A i \in 0..m : h[i] = IF i = 0 THEN x ELSE f[h[i - 1]]
    <3> TAKE i \in 0..m
    <3>1. CASE i = m
      <4>1. h[i] = f[g[m - 1]] /\ h[m - 1] = g[m - 1] BY <2>1, <3>1
      <4>2. QED BY <1>3, <3>1, <4>1
    <3>2. CASE i # m
      <4>1. i \in 0..(m - 1) /\ h[i] = g[i] BY <2>1, <3>2
      <4>2. i # 0 => i - 1 \in 0..(m - 1) /\ h[i - 1] = g[i - 1] BY <2>1, <3>2
      <4>3. g[i] = IF i = 0 THEN x ELSE f[g[i - 1]] BY <2>2, <4>1 DEF Iterates
      <4>4. QED BY <4>1, <4>2, <4>3
    <3>3. QED BY <3>1, <3>2
  <2>5. h = [i \in 0..m |-> h[i]] OBVIOUS
  <2>6. Iterates(h, x, f, m)
    <3> HIDE DEF h
    <3>1. QED BY <2>4, <2>5 DEF Iterates
  <2>7. QED BY <1>1, <2>3, <2>6
<1>4. QED BY <1>2, <1>3

\* The rank of a number in a set: how many of the set are below it.
Rank(v, S) == Cardinality({w \in S : w < v})

LEMMA RankIs ==
    ASSUME NEW S, S \subseteq Nat, IsFiniteSet(S)
    PROVE  /\ \A v \in S : Rank(v, S) \in 0..(Cardinality(S) - 1)
           /\ \A u, v \in S : Rank(u, S) = Rank(v, S) => u = v
           /\ \A k \in 0..(Cardinality(S) - 1) : \E v \in S : Rank(v, S) = k
           /\ \A v \in S : Cardinality({w \in S : w > v}) = Cardinality(S) - 1 - Rank(v, S)
<1> DEFINE n == Cardinality(S)
           Below(v) == {w \in S : w < v}
           Above(v) == {w \in S : w > v}
<1>1. n \in Nat BY FS_CardinalityType
<1>2. \A v : IsFiniteSet(Below(v)) /\ Cardinality(Below(v)) \in Nat
  <2> TAKE v
  <2>1. Below(v) \in SUBSET S OBVIOUS
  <2> HIDE DEF Below
  <2>2. QED BY <2>1, FS_Subset, FS_CardinalityType
<1>3. ASSUME NEW v \in S
      PROVE  /\ IsFiniteSet(Above(v)) /\ Cardinality(Above(v)) \in Nat
             /\ n = Cardinality(Below(v)) + 1 + Cardinality(Above(v))
  <2>1. Above(v) \in SUBSET S OBVIOUS
  <2>0. \A w \in S : w \in Nat /\ v \in Nat OBVIOUS
  <2>2. v \notin Below(v) /\ (Below(v) \cup {v}) \cap Above(v) = {}
    <3>1. \A w \in S : ~(w > v /\ (w < v \/ w = v)) /\ ~(v < v) BY <2>0
    <3>2. QED BY <3>1
  <2>3. S = (Below(v) \cup {v}) \cup Above(v)
    <3>1. \A w \in S : w < v \/ w = v \/ w > v BY <2>0
    <3>2. QED BY <3>1
  <2> HIDE DEF Below, Above
  <2>4. IsFiniteSet(Above(v)) BY <2>1, FS_Subset
  <2>5. /\ IsFiniteSet(Below(v) \cup {v})
        /\ Cardinality(Below(v) \cup {v}) = Cardinality(Below(v)) + 1
    BY <1>2, <2>2, FS_AddElement
  <2>6. Cardinality((Below(v) \cup {v}) \cup Above(v))
          = Cardinality(Below(v) \cup {v}) + Cardinality(Above(v)) - Cardinality((Below(v) \cup {v}) \cap Above(v))
    BY <2>4, <2>5, FS_Union
  <2>7. Cardinality((Below(v) \cup {v}) \cap Above(v)) = 0 BY <2>2, FS_EmptySet
  <2>8. Cardinality(Above(v)) \in Nat BY <2>4, FS_CardinalityType
  <2>9. QED BY <1>2, <2>3, <2>4, <2>5, <2>6, <2>7, <2>8
<1>4. ASSUME NEW u \in S, NEW v \in S, u < v PROVE Rank(u, S) < Rank(v, S)
  <2>1. u \notin Below(u) /\ Below(u) \cup {u} \in SUBSET Below(v)
    <3>1. \A w \in S : w \in Nat /\ u \in Nat /\ v \in Nat OBVIOUS
    <3>2. \A w \in S : w < u => w < v BY <1>4, <3>1
    <3>3. ~(u < u) BY <3>1
    <3>4. QED BY <1>4, <3>2, <3>3
  <2> HIDE DEF Below
  <2>2. Cardinality(Below(u) \cup {u}) = Cardinality(Below(u)) + 1 BY <1>2, <2>1, FS_AddElement
  <2>3. Cardinality(Below(u) \cup {u}) <= Cardinality(Below(v)) BY <1>2, <2>1, FS_Subset
  <2>4. Rank(u, S) = Cardinality(Below(u)) /\ Rank(v, S) = Cardinality(Below(v)) BY DEF Rank, Below
  <2>5. QED BY <1>2, <2>2, <2>3, <2>4
<1>5. \A v : Rank(v, S) \in Nat BY <1>2 DEF Rank
<1>6. \A u, v \in S : Rank(u, S) = Rank(v, S) => u = v
  <2> TAKE u, v \in S
  <2>1. u \in Nat /\ v \in Nat OBVIOUS
  <2>2. u < v \/ v < u \/ u = v BY <2>1
  <2>3. QED BY <1>4, <1>5, <2>2
<1>7. \A v \in S : Rank(v, S) \in 0..(n - 1) /\ Cardinality(Above(v)) = n - 1 - Rank(v, S)
  <2> TAKE v \in S
  <2>1. Rank(v, S) = Cardinality(Below(v)) BY DEF Rank
  <2> HIDE DEF Below, Above
  <2>2. QED BY <1>1, <1>2, <1>3, <2>1
<1>8. ASSUME NEW k \in 0..(n - 1) PROVE \E v \in S : Rank(v, S) = k
  <2> DEFINE f == [v \in S |-> Rank(v, S)]
             R == {f[v] : v \in S}
             I == 0..(n - 1)
  <2>1. \A u, v \in S : f[u] = f[v] => u = v BY <1>6
  <2>2. R \in SUBSET I BY <1>7
  <2>3. IsFiniteSet(I) /\ Cardinality(I) = n
    <3>1. 0 \in Int /\ n - 1 \in Int /\ ~(0 > n - 1) /\ (n - 1) - 0 + 1 = n BY <1>1
    <3>2. QED BY <3>1, FS_Interval
  <2>4. Cardinality(R) = n
    <3> HIDE DEF f
    <3>1. QED BY <2>1, ImageCardinality
  <2>5. k \in I OBVIOUS
  <2> HIDE DEF R, I
  <2>6. R = I BY <2>2, <2>3, <2>4, FS_Subset
  <2>7. k \in R BY <2>5, <2>6
  <2>8. QED BY <2>7 DEF R
<1>9. QED BY <1>6, <1>7, <1>8

\* Short sums, written out.
LEMMA TotalOne ==
    ASSUME NEW w, NEW a, w[a] \in Nat
    PROVE  Total(w, {a}) = w[a]
<1>1. IsFiniteSet({a}) BY FS_Singleton
<1>2. {a} \ {a} = {} OBVIOUS
<1>3. Total(w, {a}) = w[a] + Total(w, {a} \ {a}) BY <1>1, TotalSplit
<1>4. Total(w, {a}) = w[a] + 0 BY <1>2, <1>3, TotalEmpty
<1>5. QED BY <1>4

LEMMA TotalTwo ==
    ASSUME NEW w, NEW a, NEW b, b # a, w[a] \in Nat, w[b] \in Nat
    PROVE  Total(w, {a, b}) = w[a] + w[b]
<1>1. IsFiniteSet({a} \cup {b}) BY FS_Singleton, FS_AddElement
<1>2. {a} \cup {b} = {a, b} /\ {a, b} \ {b} = {a} OBVIOUS
<1>3. \A x \in {a, b} : w[x] \in Nat OBVIOUS
<1>4. Total(w, {a, b}) = w[b] + Total(w, {a, b} \ {b}) BY <1>1, <1>2, <1>3, TotalSplit
<1>5. Total(w, {a, b}) = w[b] + w[a] BY <1>2, <1>4, TotalOne
<1>6. QED BY <1>5

LEMMA TotalThree ==
    ASSUME NEW w, NEW a, NEW b, NEW c, b # a, c # a, c # b,
           w[a] \in Nat, w[b] \in Nat, w[c] \in Nat
    PROVE  Total(w, {a, b, c}) = w[a] + w[b] + w[c]
<1>1. IsFiniteSet({a, b, c})
  <2>1. IsFiniteSet(({a} \cup {b}) \cup {c}) BY FS_Singleton, FS_AddElement
  <2>2. ({a} \cup {b}) \cup {c} = {a, b, c} OBVIOUS
  <2>3. QED BY <2>1, <2>2
<1>2. {a, b, c} \ {c} = {a, b} OBVIOUS
<1>3. \A x \in {a, b, c} : w[x] \in Nat OBVIOUS
<1>4. Total(w, {a, b, c}) = w[c] + Total(w, {a, b, c} \ {c}) BY <1>1, <1>3, TotalSplit
<1>5. Total(w, {a, b}) = w[a] + w[b] BY TotalTwo
<1>6. Total(w, {a, b, c}) = w[c] + (w[a] + w[b]) BY <1>2, <1>4, <1>5
<1>7. QED BY <1>6

LEMMA TotalFour ==
    ASSUME NEW w, NEW a, NEW b, NEW c, NEW d, b # a, c # a, c # b,
           d # a, d # b, d # c,
           w[a] \in Nat, w[b] \in Nat, w[c] \in Nat, w[d] \in Nat
    PROVE  Total(w, {a, b, c, d}) = w[a] + w[b] + w[c] + w[d]
<1>1. IsFiniteSet({a, b, c, d})
  <2>1. IsFiniteSet(({a} \cup {b}) \cup {c}) BY FS_Singleton, FS_AddElement
  <2>2. IsFiniteSet((({a} \cup {b}) \cup {c}) \cup {d}) BY <2>1, FS_AddElement
  <2>3. (({a} \cup {b}) \cup {c}) \cup {d} = {a, b, c, d} OBVIOUS
  <2>4. QED BY <2>2, <2>3
<1>2. {a, b, c, d} \ {d} = {a, b, c} OBVIOUS
<1>3. \A x \in {a, b, c, d} : w[x] \in Nat OBVIOUS
<1>4. Total(w, {a, b, c, d}) = w[d] + Total(w, {a, b, c, d} \ {d}) BY <1>1, <1>3, TotalSplit
<1>5. Total(w, {a, b, c}) = w[a] + w[b] + w[c]
  <2>1. b # a /\ c # a /\ c # b /\ w[a] \in Nat /\ w[b] \in Nat /\ w[c] \in Nat OBVIOUS
  <2>2. IsFiniteSet({a, b, c}) /\ \A x \in {a, b, c} : w[x] \in Nat
    <3>1. IsFiniteSet(({a} \cup {b}) \cup {c}) BY FS_Singleton, FS_AddElement
    <3>2. ({a} \cup {b}) \cup {c} = {a, b, c} OBVIOUS
    <3>3. QED BY <3>1, <3>2
  <2>3. {a, b, c} \ {c} = {a, b} BY <2>1
  <2>4. Total(w, {a, b, c}) = w[c] + Total(w, {a, b, c} \ {c}) BY <2>2, TotalSplit
  <2>5. Total(w, {a, b}) = w[a] + w[b] BY <2>1, TotalTwo
  <2>6. Total(w, {a, b, c}) = w[c] + (w[a] + w[b]) BY <2>3, <2>4, <2>5
  <2>7. w[c] + (w[a] + w[b]) = w[a] + w[b] + w[c] BY <2>1
  <2>8. QED BY <2>6, <2>7
<1>6. Total(w, {a, b, c, d}) = w[d] + (w[a] + w[b] + w[c]) BY <1>2, <1>4, <1>5
<1>7. QED BY <1>6

\* Two functions given by one value and one step agree as far as both go.
LEMMA IteratesAgree ==
    ASSUME NEW x, NEW f, NEW n \in Nat, NEW m \in Nat, NEW g, NEW h,
           Iterates(g, x, f, n), Iterates(h, x, f, m)
    PROVE  \A i \in Nat : i <= n /\ i <= m => g[i] = h[i]
<1> DEFINE T == {i \in Nat : i <= n /\ i <= m /\ g[i] # h[i]}
<1> SUFFICES ASSUME T # {} PROVE FALSE
  OBVIOUS
<1>1. PICK i \in T : \A j \in T : i <= j
  <2>1. T \subseteq Nat OBVIOUS
  <2> HIDE DEF T
  <2>2. QED BY <2>1, LeastNat
<1>2. i \in 0..n /\ i \in 0..m OBVIOUS
<1>3. CASE i = 0 BY <1>1, <1>2, <1>3 DEF Iterates
<1>4. CASE i # 0
  <2>1. i - 1 \in Nat /\ i - 1 <= n /\ i - 1 <= m /\ ~(i <= i - 1) BY <1>2, <1>4
  <2>2. g[i - 1] = h[i - 1] BY <1>1, <2>1
  <2>3. g[i] = f[g[i - 1]] /\ h[i] = f[h[i - 1]] BY <1>2, <1>4 DEF Iterates
  <2>4. QED BY <1>1, <2>2, <2>3
<1>5. QED BY <1>3, <1>4

LEMMA NatIteratesExist ==
    ASSUME NEW S, NEW x \in S, NEW f \in [S -> S]
    PROVE  \E g \in [Nat -> S] : g = [i \in Nat |-> IF i = 0 THEN x ELSE f[g[i - 1]]]
<1> DEFINE H(n) == CHOOSE h : h \in [0..n -> S] /\ Iterates(h, x, f, n)
           g == [n \in Nat |-> H(n)[n]]
<1>1. \A n \in Nat : H(n) \in [0..n -> S] /\ Iterates(H(n), x, f, n) BY IteratesExist
<1> HIDE DEF H
<1>2. \A n \in Nat : n \in 0..n OBVIOUS
<1>3. g \in [Nat -> S] BY <1>1, <1>2
<1>4. \A i \in Nat : g[i] = IF i = 0 THEN x ELSE f[g[i - 1]]
  <2> TAKE i \in Nat
  <2>1. g[i] = H(i)[i] /\ Iterates(H(i), x, f, i) BY <1>1
  <2>2. CASE i = 0 BY <1>2, <2>1, <2>2 DEF Iterates
  <2>3. CASE i # 0
    <3>1. i - 1 \in Nat /\ i - 1 <= i /\ i - 1 <= i - 1 BY <2>3
    <3>2. H(i)[i] = f[H(i)[i - 1]] BY <1>2, <2>1, <2>3 DEF Iterates
    <3>3. Iterates(H(i - 1), x, f, i - 1) BY <1>1, <3>1
    <3>4. H(i)[i - 1] = H(i - 1)[i - 1] BY <2>1, <3>1, <3>3, IteratesAgree
    <3>5. g[i - 1] = H(i - 1)[i - 1] BY <3>1
    <3>6. QED BY <2>1, <2>3, <3>2, <3>4, <3>5
  <2>4. QED BY <2>2, <2>3
<1>5. g = [i \in Nat |-> g[i]] OBVIOUS
<1> HIDE DEF g
<1>6. QED BY <1>3, <1>4, <1>5

-----------------------------------------------------------------------------
(* Sequences laid end to end, as FlattenSeq of the library does.             *)

Joins(f, ss) == f = [i \in 1..Len(ss) |-> IF i = 1 THEN ss[i] ELSE f[i - 1] \o ss[i]]
Joined(ss) == IF Len(ss) = 0 THEN ss ELSE (CHOOSE f : Joins(f, ss))[Len(ss)]

LEMMA JoinsExist ==
    ASSUME NEW S, NEW ss \in Seq(Seq(S)) PROVE \E f : Joins(f, ss)
<1> DEFINE N == Len(ss)
           Upto(f, m) == f = [i \in 1..m |-> IF i = 1 THEN ss[i] ELSE f[i - 1] \o ss[i]]
           T == {m \in 0..N : ~\E f : Upto(f, m)}
<1>1. N \in Nat OBVIOUS
<1>2. T # {} => FALSE
  <2> SUFFICES ASSUME T # {} PROVE FALSE OBVIOUS
  <2>1. PICK m \in T : \A l \in T : m <= l
    <3> HIDE DEF Upto, N
    <3>1. \A l \in 0..N : l \in Nat BY <1>1
    <3>2. T \subseteq Nat BY <3>1
    <3> HIDE DEF T
    <3>3. QED BY <3>2, LeastNat
  <2>2. m # 0
    <3>1. Upto([i \in 1..0 |-> 0], 0) OBVIOUS
    <3> HIDE DEF Upto
    <3>2. QED BY <2>1, <3>1
  <2>3. m \in Nat /\ m - 1 \in 0..N /\ ~(m <= m - 1) BY <1>1, <2>1, <2>2
  <2>4. PICK g : Upto(g, m - 1)
    <3> HIDE DEF Upto
    <3>1. QED BY <2>1, <2>3
  <2> DEFINE last == IF m = 1 THEN ss[m] ELSE g[m - 1] \o ss[m]
             h == [i \in 1..m |-> IF i = m THEN last ELSE g[i]]
  <2>5. \A i \in 1..m : h[i] = IF i = 1 THEN ss[i] ELSE h[i - 1] \o ss[i]
    <3> TAKE i \in 1..m
    <3>1. CASE i = m
      <4>1. h[i] = last BY <3>1
      <4>2. m # 1 => h[m - 1] = g[m - 1] BY <2>2, <2>3
      <4>3. QED BY <3>1, <4>1, <4>2
    <3>2. CASE i # m
      <4>1. i \in 1..(m - 1) /\ h[i] = g[i] BY <2>3, <3>2
      <4>2. i # 1 => i - 1 \in 1..(m - 1) /\ h[i - 1] = g[i - 1] BY <2>3, <3>2
      <4>3. g[i] = IF i = 1 THEN ss[i] ELSE g[i - 1] \o ss[i] BY <2>4, <4>1
      <4>4. QED BY <4>1, <4>2, <4>3
    <3>3. QED BY <3>1, <3>2
  <2>6. h = [i \in 1..m |-> h[i]] OBVIOUS
  <2>7. Upto(h, m)
    <3> HIDE DEF h
    <3>1. QED BY <2>5, <2>6
  <2> HIDE DEF Upto, h
  <2>8. QED BY <2>1, <2>7
<1>3. N \notin T BY <1>2
<1>4. \E f : Upto(f, N)
  <2>1. N \in 0..N BY <1>1
  <2> HIDE DEF Upto, N
  <2>2. QED BY <1>3, <2>1
<1>5. QED BY <1>4 DEF Joins

\* What has become of the first k sequences, and where.
Laid(f, ss, S, k) ==
    /\ f[k] \in Seq(S)
    /\ \A j \in 1..k :
          /\ Len(ss[j]) <= Len(f[j]) /\ Len(f[j]) <= Len(f[k])
          /\ j < k => Len(f[j]) <= Len(f[k]) - Len(ss[k])
          /\ \A b \in 1..Len(ss[j]) : f[k][(Len(f[j]) - Len(ss[j])) + b] = ss[j][b]
    /\ \A i \in 1..Len(f[k]) :
          \E j \in 1..k : \E b \in 1..Len(ss[j]) : f[k][i] = ss[j][b]

LEMMA JoinsAreLaid ==
    ASSUME NEW S, NEW ss \in Seq(Seq(S)), NEW f, Joins(f, ss)
    PROVE  \A k \in 1..Len(ss) : Laid(f, ss, S, k)
<1> DEFINE At(k) == f[k] \in Seq(S)
           Places(k) == \A j \in 1..k :
                    /\ Len(ss[j]) <= Len(f[j]) /\ Len(f[j]) <= Len(f[k])
                    /\ j < k => Len(f[j]) <= Len(f[k]) - Len(ss[k])
                    /\ \A b \in 1..Len(ss[j]) :
                          f[k][(Len(f[j]) - Len(ss[j])) + b] = ss[j][b]
           Only(k) == \A i \in 1..Len(f[k]) :
                    \E j \in 1..k : \E b \in 1..Len(ss[j]) : f[k][i] = ss[j][b]
           P(k) == At(k) /\ Places(k) /\ Only(k)
           T == {k \in 1..Len(ss) : ~P(k)}
<1> SUFFICES ASSUME T # {} PROVE FALSE
  BY ZenonT(40) DEF Laid
<1>1. PICK k \in T : \A l \in T : k <= l
  <2> HIDE DEF P
  <2>1. T \subseteq Nat OBVIOUS
  <2> HIDE DEF T
  <2>2. QED BY <2>1, LeastNat
<1>2. k \in 1..Len(ss) /\ ss[k] \in Seq(S) /\ Len(ss) \in Nat
  <2> HIDE DEF P
  <2>1. k \in 1..Len(ss) OBVIOUS
  <2>2. QED BY <2>1
<1>3. CASE k = 1
  <2>1. f[1] = ss[1] BY <1>2, <1>3 DEF Joins
  <2>2. P(1) BY <1>2, <1>3, <2>1
  <2> HIDE DEF P
  <2>3. QED BY <1>1, <1>3, <2>2
<1>4. CASE k # 1
  <2> DEFINE g == f[k - 1]
             t == ss[k]
  <2>1. k - 1 \in 1..Len(ss) /\ ~(k <= k - 1) BY <1>2, <1>4
  <2>2. P(k - 1)
    <3> HIDE DEF P
    <3>1. QED BY <1>1, <2>1
  <2>3. f[k] = g \o t BY <1>2, <1>4 DEF Joins
  <2>4. g \in Seq(S) /\ t \in Seq(S) BY <1>2, <2>2
  <2>5. /\ f[k] \in Seq(S) /\ Len(f[k]) = Len(g) + Len(t)
        /\ \A i \in 1..Len(g) : f[k][i] = g[i]
        /\ \A b \in 1..Len(t) : f[k][Len(g) + b] = t[b]
    <3> HIDE DEF g, t
    <3>1. DOMAIN g = 1..Len(g) /\ DOMAIN t = 1..Len(t) /\ Len(g) \in Nat /\ Len(t) \in Nat
      BY <2>4
    <3>2. f[k] \in Seq(S) /\ Len(f[k]) = Len(g) + Len(t) BY <2>3, <2>4
    <3>3. \A i \in 1..Len(g) : f[k][i] = g[i] BY <2>3, <2>4, <3>1
    <3>4. \A b \in 1..Len(t) : f[k][Len(g) + b] = t[b] BY <2>3, <2>4, <3>1
    <3>5. QED BY <3>2, <3>3, <3>4
  <2>6. Places(k)
    <3> SUFFICES ASSUME NEW j \in 1..k
                 PROVE  /\ Len(ss[j]) <= Len(f[j]) /\ Len(f[j]) <= Len(f[k])
                        /\ j < k => Len(f[j]) <= Len(f[k]) - Len(ss[k])
                        /\ \A b \in 1..Len(ss[j]) :
                              f[k][(Len(f[j]) - Len(ss[j])) + b] = ss[j][b]
      OBVIOUS
    <3>1. Len(g) \in Nat /\ Len(t) \in Nat BY <2>4
    <3>2. CASE j = k
      <4> HIDE DEF g, t
      <4>1. ss[j] = t /\ f[j] = f[k] /\ ss[k] = t BY <3>2 DEF t
      <4>2. Len(f[j]) - Len(ss[j]) = Len(g) BY <2>5, <3>1, <4>1
      <4>3. \A b \in 1..Len(ss[j]) : f[k][(Len(f[j]) - Len(ss[j])) + b] = ss[j][b]
        BY <2>5, <4>1, <4>2
      <4>4. Len(t) <= Len(f[k]) /\ Len(f[k]) <= Len(f[k]) BY <2>5, <3>1
      <4>5. ~(j < k) BY <1>2, <3>2
      <4>6. QED BY <4>1, <4>3, <4>4, <4>5
    <3>3. CASE j # k
      <4>1. j \in 1..(k - 1) /\ ss[j] \in Seq(S) BY <1>2, <3>3
      <4>2. /\ Len(ss[j]) <= Len(f[j]) /\ Len(f[j]) <= Len(g)
            /\ \A b \in 1..Len(ss[j]) : g[(Len(f[j]) - Len(ss[j])) + b] = ss[j][b]
        BY <2>2, <4>1
      <4>3. f[j] \in Seq(S)
        <5>1. j \in 1..Len(ss) /\ ~(k <= j) BY <1>2, <4>1
        <5>2. P(j)
          <6> HIDE DEF P
          <6>1. QED BY <1>1, <5>1
        <5>3. QED BY <5>2
      <4>4. Len(f[j]) \in Nat /\ Len(ss[j]) \in Nat BY <4>1, <4>3
      <4>5. \A b \in 1..Len(ss[j]) : (Len(f[j]) - Len(ss[j])) + b \in 1..Len(g)
        <5> DEFINE x == Len(f[j])
                   y == Len(ss[j])
                   z == Len(g)
        <5>1. x \in Nat /\ y \in Nat /\ z \in Nat /\ y <= x /\ x <= z BY <3>1, <4>2, <4>4
        <5> HIDE DEF x, y, z
        <5>2. \A b \in 1..y : (x - y) + b \in 1..z BY <5>1
        <5>3. QED BY <5>2 DEF x, y, z
      <4> HIDE DEF g, t
      <4>6. \A b \in 1..Len(ss[j]) : f[k][(Len(f[j]) - Len(ss[j])) + b] = ss[j][b]
        BY <2>5, <4>2, <4>5
      <4>7. Len(f[j]) <= Len(f[k]) /\ Len(f[j]) <= Len(f[k]) - Len(t)
        BY <2>5, <3>1, <4>2, <4>4
      <4>8. QED BY <4>2, <4>6, <4>7 DEF t
    <3>4. QED BY <3>2, <3>3
  <2>7. Only(k)
    <3> SUFFICES ASSUME NEW i \in 1..Len(f[k])
                 PROVE  \E j \in 1..k : \E b \in 1..Len(ss[j]) : f[k][i] = ss[j][b]
      OBVIOUS
    <3>1. Len(g) \in Nat /\ Len(t) \in Nat BY <2>4
    <3>2. CASE i \in 1..Len(g)
      <4>1. PICK j \in 1..(k - 1) : \E b \in 1..Len(ss[j]) : g[i] = ss[j][b]
        BY <2>2, <3>2
      <4>2. j \in 1..k /\ f[k][i] = g[i] BY SMTT(30), <1>2, <2>5, <3>2
      <4>3. QED BY <4>1, <4>2
    <3>3. CASE i \notin 1..Len(g)
      <4>1. i - Len(g) \in 1..Len(t) /\ i = Len(g) + (i - Len(g))
        <5> HIDE DEF g, t
        <5>1. i \in 1..(Len(g) + Len(t)) BY <2>5
        <5>2. QED BY <3>1, <3>3, <5>1
      <4>2. f[k][i] = t[i - Len(g)] BY <2>5, <4>1
      <4>3. k \in 1..k BY <1>2
      <4>4. QED BY <4>1, <4>2, <4>3
    <3>4. QED BY <3>2, <3>3
  <2>8. P(k) BY <2>5, <2>6, <2>7
  <2> HIDE DEF P
  <2>9. QED BY <1>1, <2>8
<1>5. QED BY <1>3, <1>4

\* The whole has the elements of its parts and no others; when none comes in it twice,
\* none comes in two of them, nor in one of them twice.
LEMMA JoinedIs ==
    ASSUME NEW S, NEW ss \in Seq(Seq(S))
    PROVE  /\ Joined(ss) \in Seq(S)
           /\ \A j \in DOMAIN ss : \A b \in DOMAIN ss[j] :
                 \E i \in DOMAIN Joined(ss) : Joined(ss)[i] = ss[j][b]
           /\ \A i \in DOMAIN Joined(ss) :
                 \E j \in DOMAIN ss : \E b \in DOMAIN ss[j] : Joined(ss)[i] = ss[j][b]
           /\ (\A a, b \in DOMAIN Joined(ss) : Joined(ss)[a] = Joined(ss)[b] => a = b) =>
                 \A j, l \in DOMAIN ss : \A b \in DOMAIN ss[j], c \in DOMAIN ss[l] :
                    ss[j][b] = ss[l][c] => j = l /\ b = c
<1> DEFINE n == Len(ss)
           s == Joined(ss)
<1>1. n \in Nat /\ DOMAIN ss = 1..n /\ \A j \in 1..n : ss[j] \in Seq(S) OBVIOUS
<1>2. CASE n = 0
  <2>1. s = ss /\ DOMAIN ss = {} BY <1>1, <1>2 DEF Joined
  <2>2. ss \in Seq(S) BY <1>1, <1>2
  <2>3. QED BY <2>1, <2>2
<1>3. CASE n # 0
  <2> DEFINE f == CHOOSE g : Joins(g, ss)
  <2>1. Joins(f, ss) BY JoinsExist
  <2>2. s = f[n] /\ n \in 1..n BY <1>1, <1>3 DEF Joined
  <2> HIDE DEF f
  <2> HIDE DEF s, n
  <2>3. \A k \in 1..n : Laid(f, ss, S, k) BY <2>1, JoinsAreLaid DEF n
  <2>4. /\ s \in Seq(S)
        /\ \A i \in 1..Len(s) : \E j \in 1..n : \E b \in 1..Len(ss[j]) : s[i] = ss[j][b]
    BY <2>2, <2>3 DEF Laid
  <2>5. ASSUME NEW j \in 1..n
        PROVE  /\ Len(f[j]) \in Nat /\ Len(ss[j]) \in Nat
               /\ Len(ss[j]) <= Len(f[j]) /\ Len(f[j]) <= Len(s)
               /\ \A b \in 1..Len(ss[j]) : s[(Len(f[j]) - Len(ss[j])) + b] = ss[j][b]
               /\ \A l \in 1..n : j < l => Len(f[j]) <= Len(f[l]) - Len(ss[l])
    <3>1. f[j] \in Seq(S) /\ ss[j] \in Seq(S) BY <1>1, <2>3 DEF n, Laid
    <3>2. /\ Len(ss[j]) <= Len(f[j]) /\ Len(f[j]) <= Len(s)
          /\ \A b \in 1..Len(ss[j]) : s[(Len(f[j]) - Len(ss[j])) + b] = ss[j][b]
      BY <2>2, <2>3 DEF Laid
    <3>3. ASSUME NEW l \in 1..n, j < l PROVE Len(f[j]) <= Len(f[l]) - Len(ss[l])
      <4>1. j \in 1..l BY <1>1, <3>3
      <4>2. QED BY <2>3, <3>3, <4>1 DEF Laid
    <3>4. Len(f[j]) \in Nat /\ Len(ss[j]) \in Nat BY <3>1
    <3>5. QED BY <3>2, <3>3, <3>4
  <2>6. DOMAIN s = 1..Len(s) /\ Len(s) \in Nat BY <2>4
  <2>7. \A j \in 1..n : DOMAIN ss[j] = 1..Len(ss[j]) BY <1>1 DEF n
  <2>8. \A j \in 1..n : \A b \in 1..Len(ss[j]) :
           (Len(f[j]) - Len(ss[j])) + b \in 1..Len(s)
    <3> TAKE j \in 1..n
    <3> TAKE b \in 1..Len(ss[j])
    <3> DEFINE x == Len(f[j])
               y == Len(ss[j])
    <3>1. x \in Nat /\ y \in Nat /\ b \in 1..y /\ y <= x /\ x <= Len(s) BY <2>5
    <3> HIDE DEF x, y
    <3>2. (x - y) + b \in 1..Len(s) BY <2>6, <3>1
    <3>3. QED BY <3>2 DEF x, y
  <2>9. \A j \in 1..n : \A b \in DOMAIN ss[j] : \E i \in DOMAIN s : s[i] = ss[j][b]
    <3> TAKE j \in 1..n
    <3> TAKE b \in DOMAIN ss[j]
    <3>1. b \in 1..Len(ss[j]) BY <2>7
    <3>2. (Len(f[j]) - Len(ss[j])) + b \in DOMAIN s BY <2>6, <2>8, <3>1
    <3>3. s[(Len(f[j]) - Len(ss[j])) + b] = ss[j][b] BY <2>5, <3>1
    <3>4. QED BY <3>2, <3>3
  <2>10. \A i \in DOMAIN s : \E j \in 1..n : \E b \in DOMAIN ss[j] : s[i] = ss[j][b]
    BY <2>4, <2>6, <2>7
  <2>11. ASSUME \A a, b \in DOMAIN s : s[a] = s[b] => a = b,
                NEW j \in 1..n, NEW l \in 1..n,
                NEW b \in DOMAIN ss[j], NEW c \in DOMAIN ss[l], ss[j][b] = ss[l][c]
         PROVE  j = l /\ b = c
    <3>1. b \in 1..Len(ss[j]) /\ c \in 1..Len(ss[l]) BY <2>7
    <3> DEFINE x == Len(f[j])
               y == Len(ss[j])
               u == Len(f[l])
               v == Len(ss[l])
    <3>2. (x - y) + b = (u - v) + c
      <4>1. s[(x - y) + b] = ss[j][b] /\ s[(u - v) + c] = ss[l][c] BY <2>5, <3>1
      <4>2. (x - y) + b \in DOMAIN s /\ (u - v) + c \in DOMAIN s BY <2>6, <2>8, <3>1
      <4> HIDE DEF x, y, u, v
      <4>3. QED BY <2>11, <4>1, <4>2
    <3>3. x \in Nat /\ y \in Nat /\ y <= x /\ u \in Nat /\ v \in Nat /\ v <= u
      BY <2>5
    <3>4. (j < l => x <= u - v) /\ (l < j => u <= x - y) BY <2>5
    <3>5. b \in 1..y /\ c \in 1..v /\ j \in Nat /\ l \in Nat BY <3>1
    <3>6. j = l => x = u /\ y = v OBVIOUS
    <3> HIDE DEF x, y, u, v
    <3>7. ~(j < l) /\ ~(l < j) BY SMTT(30), <3>2, <3>3, <3>4, <3>5
    <3>8. j = l BY <3>5, <3>7
    <3>9. QED BY <3>2, <3>3, <3>5, <3>6, <3>8
  <2>12. DOMAIN ss = 1..n BY <1>1 DEF n
  <2>13. (\A a, b \in DOMAIN s : s[a] = s[b] => a = b) =>
            \A j, l \in DOMAIN ss : \A b \in DOMAIN ss[j], c \in DOMAIN ss[l] :
               ss[j][b] = ss[l][c] => j = l /\ b = c
    BY <2>11, <2>12
  <2>14. \A j \in DOMAIN ss : \A b \in DOMAIN ss[j] : \E i \in DOMAIN s : s[i] = ss[j][b]
    BY <2>9, <2>12
  <2>15. \A i \in DOMAIN s : \E j \in DOMAIN ss : \E b \in DOMAIN ss[j] : s[i] = ss[j][b]
    BY <2>10, <2>12
  <2>16. QED BY <2>4, <2>13, <2>14, <2>15 DEF s
<1>4. QED BY <1>2, <1>3
=================================================================================
