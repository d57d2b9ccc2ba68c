-------------------------- MODULE CollectionTheorems --------------------------
(***************************************************************************)
(* Facts about the collections the models are built from, for the proofs   *)
(* of several components: sequences without repetitions, which model the   *)
(* channels and queues, and sums over finite sets, which the memory and    *)
(* byte counters are.                                                      *)
(*                                                                         *)
(* MapThenSumSet is a fold that picks the members of its set in an order   *)
(* CHOOSE fixes.  That the order does not matter needs an induction over   *)
(* the size of the set; it is carried out with a least counterexample      *)
(* (LeastNat), a set of naturals, since a predicate cannot be passed to    *)
(* the induction theorems of the library.                                  *)
(***************************************************************************)
EXTENDS Naturals, Sequences, FiniteSets, FiniteSetsExt, Functions,
        SequenceTheorems, FiniteSetTheorems, WellFoundedInduction, TLAPS

InSeq(s, x) == \E k \in DOMAIN s : s[k] = x
Distinct(s) == \A j, k \in DOMAIN s : s[j] = s[k] => j = k

-----------------------------------------------------------------------------
(* Sequences without repetitions.                                          *)

(* Sending to the channel and requeueing a record. *)
LEMMA AppendFacts ==
    ASSUME NEW S, NEW s \in Seq(S), NEW x \in S
    PROVE  /\ Append(s, x) \in Seq(S)
           /\ \A y : InSeq(Append(s, x), y) <=> InSeq(s, y) \/ y = x
           /\ Distinct(s) /\ ~InSeq(s, x) => Distinct(Append(s, x))
<1> DEFINE r == Append(s, x)
<1>1. /\ r \in Seq(S) /\ Len(r) = Len(s) + 1
      /\ DOMAIN r = 1 .. Len(s) + 1 /\ DOMAIN s = 1 .. Len(s) /\ Len(s) \in Nat
      /\ r[Len(s) + 1] = x /\ \A k \in 1 .. Len(s) : r[k] = s[k]
  OBVIOUS
<1> HIDE DEF r
<1>2. \A y : InSeq(r, y) <=> InSeq(s, y) \/ y = x
  BY <1>1 DEF InSeq
<1>3. Distinct(s) /\ ~InSeq(s, x) => Distinct(r)
  BY <1>1 DEF InSeq, Distinct
<1> QED BY <1>1, <1>2, <1>3 DEF r

(* The writer receiving from the channel. *)
LEMMA TailFacts ==
    ASSUME NEW S, NEW s \in Seq(S), s # <<>>, Distinct(s)
    PROVE  /\ Head(s) \in S /\ InSeq(s, Head(s))
           /\ Tail(s) \in Seq(S) /\ Distinct(Tail(s))
           /\ \A y : InSeq(Tail(s), y) <=> InSeq(s, y) /\ y # Head(s)
<1> DEFINE r == Tail(s)
<1>1. /\ Head(s) \in S /\ Head(s) = s[1] /\ Len(s) \in Nat \ {0}
      /\ r \in Seq(S) /\ DOMAIN r = 1 .. Len(s) - 1 /\ DOMAIN s = 1 .. Len(s)
      /\ \A k \in 1 .. Len(s) - 1 : r[k] = s[k + 1]
  OBVIOUS
<1> HIDE DEF r
<1>2. Distinct(r)
  BY <1>1 DEF Distinct
<1>3. ASSUME NEW y, InSeq(s, y), y # Head(s) PROVE InSeq(r, y)
  <2>1. PICK k \in 1 .. Len(s) : s[k] = y BY <1>1, <1>3 DEF InSeq
  <2>2. k - 1 \in 1 .. Len(s) - 1 /\ r[k - 1] = y BY <1>1, <1>3, <2>1
  <2> QED BY <1>1, <2>2 DEF InSeq
<1>4. ASSUME NEW y, InSeq(r, y) PROVE InSeq(s, y) /\ y # Head(s)
  <2>1. PICK k \in 1 .. Len(s) - 1 : s[k + 1] = y BY <1>1, <1>4 DEF InSeq
  <2>2. k + 1 \in DOMAIN s /\ 1 \in DOMAIN s /\ k + 1 # 1 BY <1>1, <2>1
  <2> QED BY <1>1, <2>1, <2>2 DEF InSeq, Distinct
<1>5. InSeq(s, Head(s)) BY <1>1 DEF InSeq
<1> QED BY <1>1, <1>2, <1>3, <1>4, <1>5 DEF r

(* Journal::claim taking the record at position k, the ones before it      *)
(* going to the back.                                                      *)
LEMMA RotateFacts ==
    ASSUME NEW S, NEW s \in Seq(S), NEW k \in 1 .. Len(s), Distinct(s)
    PROVE  LET r == SubSeq(s, k + 1, Len(s)) \o SubSeq(s, 1, k - 1)
           IN  /\ r \in Seq(S) /\ Distinct(r)
               /\ \A y : InSeq(r, y) <=> InSeq(s, y) /\ y # s[k]
<1> DEFINE a == SubSeq(s, k + 1, Len(s))
           b == SubSeq(s, 1, k - 1)
           r == a \o b
           n == Len(s) - k
<1>0. Len(s) \in Nat /\ k \in Nat /\ k >= 1 /\ k <= Len(s) /\ DOMAIN s = 1 .. Len(s)
      /\ \A m \in 1 .. Len(s) : s[m] \in S
  OBVIOUS
<1>1. /\ a \in Seq(S) /\ Len(a) = n /\ \A m \in 1 .. n : a[m] = s[m + k]
  <2>1. \A m \in (k + 1) .. Len(s) : s[m] \in S BY <1>0
  <2>2. a \in Seq(S) /\ Len(a) = IF k + 1 <= Len(s) THEN Len(s) - (k + 1) + 1 ELSE 0
    BY <1>0, <2>1, SubSeqProperties
  <2>3. ASSUME NEW m \in 1 .. n PROVE a[m] = s[m + k]
    <3>1. k + 1 + m - 1 = m + k /\ m \in 1 .. Len(s) - (k + 1) + 1 BY <1>0
    <3>2. a[m] = s[k + 1 + m - 1] BY <1>0, <3>1, SubSeqProperties
    <3> QED BY <3>1, <3>2
  <2>4. Len(a) = n
    <3>1. CASE k + 1 <= Len(s)
      <4>1. Len(a) = Len(s) - (k + 1) + 1 BY <2>2, <3>1
      <4>2. Len(s) - (k + 1) + 1 = Len(s) - k BY <1>0
      <4> QED BY <4>1, <4>2
    <3>2. CASE k = Len(s)
      <4>1. ~(k + 1 <= Len(s)) /\ Len(s) - k = 0 BY <1>0, <3>2
      <4> QED BY <2>2, <4>1
    <3>3. k + 1 <= Len(s) \/ k = Len(s)
      <4>1. \A x, y \in Nat : x <= y => x + 1 <= y \/ x = y OBVIOUS
      <4> QED BY <1>0, <4>1
    <3> QED BY <3>1, <3>2, <3>3
  <2> QED BY <2>2, <2>3, <2>4
<1>2. /\ b \in Seq(S) /\ Len(b) = k - 1 /\ \A m \in 1 .. k - 1 : b[m] = s[m]
  BY <1>0, SubSeqProperties
<1> HIDE DEF a, b
<1>3. /\ r \in Seq(S) /\ Len(r) = Len(s) - 1 /\ DOMAIN r = 1 .. Len(s) - 1
      /\ \A m \in 1 .. Len(s) - 1 :
            r[m] = IF m <= n THEN s[m + k] ELSE s[m - n]
  <2>1. a \in Seq(S) /\ b \in Seq(S) BY <1>1, <1>2
  <2>3. r \in Seq(S) /\ Len(r) = Len(a) + Len(b) BY <2>1, ConcatProperties
  <2>4. Len(r) = Len(s) - 1 BY <1>0, <1>1, <1>2, <2>3
  <2>5. DOMAIN r = 1 .. Len(s) - 1 BY <2>3, <2>4
  <2>2. ASSUME NEW m \in 1 .. Len(s) - 1
        PROVE  r[m] = IF m <= n THEN s[m + k] ELSE s[m - n]
    <3>1. r[m] = IF m <= Len(a) THEN a[m] ELSE b[m - Len(a)]
      BY <1>0, <1>1, <1>2, ConcatProperties
    <3>2. CASE m <= n BY <1>0, <1>1, <3>1, <3>2
    <3>3. CASE ~(m <= n)
      <4>1. m - n \in 1 .. k - 1 BY <1>0, <3>3
      <4> QED BY <1>0, <1>1, <1>2, <3>1, <3>3, <4>1
    <3> QED BY <3>2, <3>3
  <2> QED BY <2>2, <2>3, <2>4, <2>5
<1> HIDE DEF r
<1>4. Distinct(r)
  <2> SUFFICES ASSUME NEW i \in 1 .. Len(s) - 1, NEW j \in 1 .. Len(s) - 1, r[i] = r[j]
               PROVE  i = j
    BY <1>3 DEF Distinct
  <2> DEFINE p(m) == IF m <= n THEN m + k ELSE m - n
  <2>1. p(i) \in DOMAIN s /\ p(j) \in DOMAIN s BY <1>0
  <2>2. s[p(i)] = s[p(j)] BY <1>3
  <2>3. p(i) = p(j) BY <2>1, <2>2 DEF Distinct
  <2> QED BY <1>0, <2>3
<1>5. ASSUME NEW y, InSeq(r, y) PROVE InSeq(s, y) /\ y # s[k]
  <2>1. PICK m \in 1 .. Len(s) - 1 : r[m] = y BY <1>3, <1>5 DEF InSeq
  <2> DEFINE q == IF m <= n THEN m + k ELSE m - n
  <2>2. q \in DOMAIN s /\ q # k BY <1>0
  <2>3. s[q] = y BY <1>3, <2>1
  <2> QED BY <1>0, <2>2, <2>3 DEF InSeq, Distinct
<1>6. ASSUME NEW y, InSeq(s, y), y # s[k] PROVE InSeq(r, y)
  <2>1. PICK m \in 1 .. Len(s) : s[m] = y BY <1>0, <1>6 DEF InSeq
  <2>2. m # k BY <1>6, <2>1
  <2> DEFINE q == IF m > k THEN m - k ELSE m + n
  <2>3. q \in 1 .. Len(s) - 1 /\ (IF q <= n THEN q + k ELSE q - n) = m
    BY <1>0, <2>2
  <2>4. r[q] = y BY <1>3, <2>1, <2>3
  <2> QED BY <1>3, <2>3, <2>4 DEF InSeq
<1> QED BY <1>3, <1>4, <1>5, <1>6 DEF r, a, b

(* A queue without repetitions is as long as it has members. *)
LEMMA DistinctCount ==
  ASSUME NEW S, NEW s \in Seq(S), Distinct(s)
  PROVE  Cardinality(Range(s)) = Len(s)
<1>1. Len(s) \in Nat /\ DOMAIN s = 1 .. Len(s) /\ s \in [1 .. Len(s) -> Range(s)]
  BY DEF Range
<1>2. s \in Bijection(1 .. Len(s), Range(s))
  BY <1>1 DEF Distinct, Range, Bijection, Injection, Surjection, IsInjective
<1>3. ExistsBijection(1 .. Len(s), Range(s)) BY <1>2 DEF ExistsBijection
<1> QED BY <1>1, <1>3, FS_CountingElements

-----------------------------------------------------------------------------
(* Sums over finite sets.                                                  *)

(* The sum of f over S, as the models write it. *)
SumOf(f, S) == MapThenSumSet(LAMBDA x : f[x], S)

(* The member the fold takes out first, and the function the fold is. *)
Pick(s) == CHOOSE x \in s : TRUE

Sums(g, f, T) ==
    g = [s \in T |-> IF s = {} THEN 0 ELSE f[Pick(s)] + g[s \ {Pick(s)}]]

(* The subsets of at most n members. *)
UpTo(S, n) == {s \in SUBSET S : Cardinality(s) <= n}

(* A nonempty set of naturals has a least one: the form of every induction *)
(* below.                                                                  *)
LEMMA LeastNat ==
  ASSUME NEW B, B \subseteq Nat, B # {}
  PROVE  \E n \in B : \A m \in B : n <= m
<1>1. \E n \in B : \A m \in B : ~ (<<m, n>> \in OpToRel(<, Nat))
  BY WFMin, NatLessThanWellFounded
<1>2. PICK n \in B : \A m \in B : ~ (<<m, n>> \in OpToRel(<, Nat)) BY <1>1
<1>3. \A m \in B : ~ (m < n) BY <1>2 DEF OpToRel
<1> QED BY <1>3

LEMMA PickIn == ASSUME NEW s, s # {} PROVE Pick(s) \in s
  BY DEF Pick

(* The fold is a recursive function on the subsets of S. *)
LEMMA SumUnfolds ==
  ASSUME NEW f, NEW S PROVE SumOf(f, S) = (CHOOSE g : Sums(g, f, SUBSET S))[S]
  BY DEF SumOf, MapThenSumSet, MapThenFoldSet, Sums, Pick

(* Taking a member out of a finite set. *)
LEMMA Smaller ==
  ASSUME NEW S, IsFiniteSet(S), NEW s \in SUBSET S, NEW x \in s
  PROVE  /\ s \ {x} \in SUBSET S
         /\ Cardinality(s) \in Nat \ {0}
         /\ Cardinality(s \ {x}) = Cardinality(s) - 1
<1>1. IsFiniteSet(s) BY FS_Subset
<1>2. Cardinality(s) \in Nat /\ Cardinality(s \ {x}) = Cardinality(s) - 1 BY <1>1, FS_RemoveElement, FS_CardinalityType
<1>3. Cardinality(s \ {x}) \in Nat BY <1>1, FS_RemoveElement, FS_CardinalityType
<1> QED BY <1>2, <1>3

(* The recursive function exists: up to every size, hence on all subsets. *)
LEMMA SumsExistUpTo ==
  ASSUME NEW f, NEW S, IsFiniteSet(S), NEW n \in Nat
  PROVE  \E g : Sums(g, f, UpTo(S, n))
<1> DEFINE Bad == {k \in Nat : ~\E g : Sums(g, f, UpTo(S, k))}
<1> SUFFICES ASSUME Bad # {} PROVE FALSE OBVIOUS
<1>1. PICK k \in Bad : \A m \in Bad : k <= m BY LeastNat
<1>2. \A s \in SUBSET S : Cardinality(s) \in Nat /\ (Cardinality(s) = 0 <=> s = {})
  BY FS_Subset, FS_CardinalityType, FS_EmptySet
<1>3. CASE k = 0
  <2> DEFINE g == [s \in UpTo(S, 0) |-> 0]
  <2>1. UpTo(S, 0) = {{}} BY <1>2 DEF UpTo
  <2>2. Sums(g, f, UpTo(S, 0)) BY <2>1 DEF Sums
  <2> QED BY <2>2, <1>3
<1>4. CASE k # 0
  <2>1. k - 1 \in Nat /\ k - 1 \notin Bad BY <1>1, <1>4
  <2>2. PICK h : Sums(h, f, UpTo(S, k - 1)) BY <2>1
  <2> DEFINE g == [s \in UpTo(S, k) |-> IF s = {} THEN 0 ELSE f[Pick(s)] + h[s \ {Pick(s)}]]
  <2>3. \A s \in UpTo(S, k) : s # {} => s \ {Pick(s)} \in UpTo(S, k - 1) /\ s \ {Pick(s)} \in UpTo(S, k)
    <3> SUFFICES ASSUME NEW s \in UpTo(S, k), s # {} PROVE s \ {Pick(s)} \in UpTo(S, k - 1) /\ s \ {Pick(s)} \in UpTo(S, k)
      OBVIOUS
    <3>1. Pick(s) \in s BY PickIn
    <3>2. Cardinality(s \ {Pick(s)}) = Cardinality(s) - 1 /\ Cardinality(s) \in Nat BY <3>1, Smaller DEF UpTo
    <3> QED BY <3>2, <2>1 DEF UpTo
  <2>4. \A s \in UpTo(S, k - 1) : g[s] = h[s]
    <3> SUFFICES ASSUME NEW s \in UpTo(S, k - 1) PROVE g[s] = h[s] OBVIOUS
    <3>1. s \in UpTo(S, k) BY <1>2, <2>1 DEF UpTo
    <3> QED BY <3>1, <2>2 DEF Sums
  <2>5. Sums(g, f, UpTo(S, k)) BY <2>3, <2>4 DEF Sums
  <2> QED BY <2>5
<1> QED BY <1>3, <1>4

LEMMA SumsExist ==
  ASSUME NEW f, NEW S, IsFiniteSet(S)
  PROVE  Sums(CHOOSE g : Sums(g, f, SUBSET S), f, SUBSET S)
<1>1. Cardinality(S) \in Nat BY FS_CardinalityType
<1>2. \A s \in SUBSET S : Cardinality(s) <= Cardinality(S)
  BY FS_Subset
<1>3. UpTo(S, Cardinality(S)) = SUBSET S BY <1>2 DEF UpTo
<1>4. \E g : Sums(g, f, UpTo(S, Cardinality(S))) BY <1>1, SumsExistUpTo
<1>5. \E g : Sums(g, f, SUBSET S) BY <1>3, <1>4
<1> QED BY <1>5

(* Two such functions agree where both are defined. *)
LEMMA SumsAgree ==
  ASSUME NEW f, NEW S, NEW T, IsFiniteSet(S), NEW g, NEW h,
         Sums(g, f, SUBSET S), Sums(h, f, SUBSET T),
         NEW s, s \subseteq S, s \subseteq T
  PROVE  g[s] = h[s]
<1> DEFINE Bad == {n \in Nat : \E u \in SUBSET S : u \subseteq T /\ Cardinality(u) = n /\ g[u] # h[u]}
<1>0. Cardinality(s) \in Nat BY FS_Subset, FS_CardinalityType
<1> SUFFICES ASSUME Bad # {} PROVE FALSE BY <1>0
<1>1. PICK n \in Bad : \A m \in Bad : n <= m BY LeastNat
<1>2. PICK u \in SUBSET S : u \subseteq T /\ Cardinality(u) = n /\ g[u] # h[u] BY <1>1
<1>3. u # {} BY <1>2 DEF Sums
<1>4. Pick(u) \in u BY <1>3, PickIn
<1> DEFINE v == u \ {Pick(u)}
<1>5. v \in SUBSET S /\ v \subseteq T /\ Cardinality(v) = n - 1 /\ n - 1 \in Nat BY <1>2, <1>4, Smaller
<1>6. g[v] = h[v] BY <1>1, <1>5
<1>7. g[u] = f[Pick(u)] + g[v] BY <1>3 DEF Sums
<1>8. h[u] = f[Pick(u)] + h[v] BY <1>2, <1>3 DEF Sums
<1> QED BY <1>2, <1>6, <1>7, <1>8

(* Sums of naturals are naturals. *)
LEMMA SumsNat ==
  ASSUME NEW f, NEW S, IsFiniteSet(S), \A x \in S : f[x] \in Nat, NEW g,
         Sums(g, f, SUBSET S), NEW s \in SUBSET S
  PROVE  g[s] \in Nat
<1> DEFINE Bad == {n \in Nat : \E u \in SUBSET S : Cardinality(u) = n /\ g[u] \notin Nat}
<1>0. Cardinality(s) \in Nat BY FS_Subset, FS_CardinalityType
<1> SUFFICES ASSUME Bad # {} PROVE FALSE BY <1>0
<1>1. PICK n \in Bad : \A m \in Bad : n <= m BY LeastNat
<1>2. PICK u \in SUBSET S : Cardinality(u) = n /\ g[u] \notin Nat BY <1>1
<1>3. u # {} BY <1>2 DEF Sums
<1>4. Pick(u) \in u BY <1>3, PickIn
<1> DEFINE v == u \ {Pick(u)}
<1>5. v \in SUBSET S /\ Cardinality(v) = n - 1 /\ n - 1 \in Nat BY <1>2, <1>4, Smaller
<1>6. g[v] \in Nat BY <1>1, <1>5
<1>7. g[u] = f[Pick(u)] + g[v] BY <1>3 DEF Sums
<1> QED BY <1>2, <1>4, <1>6, <1>7

(* Whichever member is taken out first, the sum is the same. *)
LEMMA SumsAnyOrder ==
  ASSUME NEW f, NEW S, IsFiniteSet(S), \A x \in S : f[x] \in Nat, NEW g,
         Sums(g, f, SUBSET S), NEW s \in SUBSET S, NEW y \in s
  PROVE  g[s] = f[y] + g[s \ {y}]
<1> DEFINE Bad == {n \in Nat : \E u \in SUBSET S : Cardinality(u) = n /\ \E z \in u : g[u] # f[z] + g[u \ {z}]}
<1>0. Cardinality(s) \in Nat BY FS_Subset, FS_CardinalityType
<1> SUFFICES ASSUME Bad # {} PROVE FALSE BY <1>0
<1>1. PICK n \in Bad : \A m \in Bad : n <= m BY LeastNat
<1>2. PICK u \in SUBSET S : Cardinality(u) = n /\ \E z \in u : g[u] # f[z] + g[u \ {z}] BY <1>1
<1>3. PICK z \in u : g[u] # f[z] + g[u \ {z}] BY <1>2
<1> DEFINE p == Pick(u)
<1>4. p \in u BY PickIn
<1>5. g[u] = f[p] + g[u \ {p}] BY <1>3 DEF Sums
<1>6. p # z BY <1>5, <1>3
<1>7. u \ {p} \in SUBSET S /\ Cardinality(u \ {p}) = n - 1 /\ n - 1 \in Nat /\ n - 1 < n BY <1>2, <1>4, Smaller
<1>8. u \ {z} \in SUBSET S /\ Cardinality(u \ {z}) = n - 1 BY <1>2, <1>3, Smaller
<1>9. \A w \in SUBSET S : Cardinality(w) = n - 1 => \A x \in w : g[w] = f[x] + g[w \ {x}]
  <2> SUFFICES ASSUME NEW w \in SUBSET S, Cardinality(w) = n - 1, NEW x \in w, g[w] # f[x] + g[w \ {x}]
               PROVE  FALSE
    OBVIOUS
  <2>1. n - 1 \in Bad BY <1>7
  <2> QED BY <1>1, <1>7, <2>1
<1> HIDE DEF Bad
<1>10. g[u \ {p}] = f[z] + g[(u \ {p}) \ {z}] BY <1>3, <1>6, <1>7, <1>9
<1>11. g[u \ {z}] = f[p] + g[(u \ {z}) \ {p}] BY <1>4, <1>6, <1>8, <1>9
<1>12. PICK v : v = (u \ {p}) \ {z} /\ v = (u \ {z}) \ {p} OBVIOUS
<1>13. f[p] \in Nat /\ f[z] \in Nat /\ g[v] \in Nat
  BY <1>3, <1>4, <1>7, <1>12, SumsNat
<1>14. /\ g[u \ {p}] = f[z] + g[v]
       /\ g[u \ {z}] = f[p] + g[v]
  BY <1>10, <1>11, <1>12
<1> HIDE DEF p
<1>15. g[u] = f[z] + g[u \ {z}]
  BY <1>5, <1>13, <1>14
<1> QED BY <1>3, <1>15

(* The sum over S from the function on the subsets of a larger set. *)
LEMMA SumBySums ==
  ASSUME NEW f, NEW S, IsFiniteSet(S), NEW T, S \subseteq T, IsFiniteSet(T), NEW g, Sums(g, f, SUBSET T)
  PROVE  SumOf(f, S) = g[S]
<1>1. PICK h : h = (CHOOSE k : Sums(k, f, SUBSET S)) /\ Sums(h, f, SUBSET S)
  BY SumsExist
<1>2. Sums(h, f, SUBSET S) /\ S \subseteq S BY <1>1
<1>3. h[S] = g[S] BY <1>2, SumsAgree, SMTT(30)
<1> QED BY <1>1, <1>3, SumUnfolds

(* Nothing adds up to 0. *)
LEMMA SumEmpty == ASSUME NEW f PROVE SumOf(f, {}) = 0
<1>1. PICK h : h = (CHOOSE g : Sums(g, f, SUBSET {})) /\ Sums(h, f, SUBSET {})
  BY SumsExist, FS_EmptySet
<1>2. h[{}] = 0 BY <1>1 DEF Sums
<1> QED BY <1>1, <1>2, SumUnfolds

(* A counter that is a sum is a natural. *)
LEMMA SumType ==
  ASSUME NEW f, NEW S, IsFiniteSet(S), \A x \in S : f[x] \in Nat
  PROVE  SumOf(f, S) \in Nat
<1>1. PICK h : h = (CHOOSE g : Sums(g, f, SUBSET S)) /\ Sums(h, f, SUBSET S)
  BY SumsExist
<1>2. h[S] \in Nat BY <1>1, SumsNat
<1> QED BY <1>1, <1>2, SumUnfolds

(* A member leaves. *)
LEMMA SumRemove ==
  ASSUME NEW f, NEW S, IsFiniteSet(S), \A x \in S : f[x] \in Nat, NEW y \in S
  PROVE  /\ SumOf(f, S) = SumOf(f, S \ {y}) + f[y]
         /\ SumOf(f, S \ {y}) \in Nat
<1>1. PICK h : h = (CHOOSE g : Sums(g, f, SUBSET S)) /\ Sums(h, f, SUBSET S)
  BY SumsExist
<1>2. h[S] = f[y] + h[S \ {y}] BY <1>1, SumsAnyOrder
<1>3. h[S \ {y}] \in Nat BY <1>1, SumsNat
<1>4. SumOf(f, S) = h[S] BY <1>1, SumUnfolds
<1>5. SumOf(f, S \ {y}) = h[S \ {y}] BY <1>1, SumBySums, FS_Subset
<1> QED BY <1>2, <1>3, <1>4, <1>5

(* A member joins. *)
LEMMA SumAdd ==
  ASSUME NEW f, NEW S, IsFiniteSet(S), \A x \in S : f[x] \in Nat, NEW y, y \notin S, f[y] \in Nat
  PROVE  /\ SumOf(f, S \cup {y}) = SumOf(f, S) + f[y]
         /\ SumOf(f, S) \in Nat
<1> DEFINE T == S \cup {y}
<1>1. IsFiniteSet(T) /\ (\A x \in T : f[x] \in Nat) /\ T \ {y} = S BY FS_AddElement
<1>2. SumOf(f, T) = SumOf(f, T \ {y}) + f[y] /\ SumOf(f, T \ {y}) \in Nat BY <1>1, SumRemove
<1> QED BY <1>1, <1>2

(* Disjoint sets add up. *)
LEMMA SumUnion ==
  ASSUME NEW f, NEW S, IsFiniteSet(S), \A x \in S : f[x] \in Nat,
         NEW R, IsFiniteSet(R), \A x \in R : f[x] \in Nat, S \cap R = {}
  PROVE  /\ SumOf(f, S \cup R) = SumOf(f, S) + SumOf(f, R)
         /\ SumOf(f, S) \in Nat /\ SumOf(f, R) \in Nat
<1> DEFINE Bad == {n \in Nat : \E u \in SUBSET R :
                      Cardinality(u) = n /\ SumOf(f, S \cup u) # SumOf(f, S) + SumOf(f, u)}
<1>0. Cardinality(R) \in Nat BY FS_CardinalityType
<1>1. SumOf(f, S) \in Nat /\ SumOf(f, R) \in Nat BY SumType
<1> SUFFICES ASSUME Bad # {} PROVE FALSE BY <1>0, <1>1
<1>2. PICK n \in Bad : \A m \in Bad : n <= m BY LeastNat
<1>3. PICK u \in SUBSET R : Cardinality(u) = n /\ SumOf(f, S \cup u) # SumOf(f, S) + SumOf(f, u) BY <1>2
<1>4. CASE u = {}
  <2>1. S \cup u = S BY <1>4
  <2> QED BY <1>1, <1>3, <1>4, <2>1, SumEmpty
<1>5. CASE u # {}
  <2>1. PICK y : y \in u BY <1>5
  <2> DEFINE v == u \ {y}
  <2>2. v \in SUBSET R /\ Cardinality(v) = n - 1 /\ n - 1 \in Nat /\ n - 1 < n BY <1>3, <2>1, Smaller
  <2>3. SumOf(f, S \cup v) = SumOf(f, S) + SumOf(f, v)
    <3> SUFFICES ASSUME SumOf(f, S \cup v) # SumOf(f, S) + SumOf(f, v) PROVE FALSE OBVIOUS
    <3>1. n - 1 \in Bad BY <2>2
    <3>2. n <= n - 1 BY <1>2, <3>1
    <3>3. n \in Nat BY <1>2
    <3> QED BY <3>2, <3>3
  <2>4. IsFiniteSet(u) /\ IsFiniteSet(S \cup u) BY FS_Subset, FS_Union
  <2>5. SumOf(f, u) = SumOf(f, v) + f[y] /\ SumOf(f, v) \in Nat BY <2>1, <2>4, SumRemove
  <2>6. (S \cup u) \ {y} = S \cup v BY <2>1
  <2>7. y \in S \cup u /\ \A x \in S \cup u : f[x] \in Nat BY <2>1
  <2>8. SumOf(f, S \cup u) = SumOf(f, (S \cup u) \ {y}) + f[y] BY <2>4, <2>7, SumRemove
  <2>9. f[y] \in Nat BY <2>1
  <2> HIDE DEF v
  <2> QED BY <1>1, <1>3, <2>3, <2>5, <2>6, <2>8, <2>9
<1> QED BY <1>4, <1>5

(* A part sums to no more than the whole. *)
LEMMA SumSubset ==
  ASSUME NEW f, NEW S, IsFiniteSet(S), \A x \in S : f[x] \in Nat, NEW R, R \subseteq S
  PROVE  /\ SumOf(f, R) \in Nat /\ SumOf(f, S) \in Nat
         /\ SumOf(f, R) <= SumOf(f, S)
         /\ SumOf(f, S \ R) = SumOf(f, S) - SumOf(f, R)
<1>1. IsFiniteSet(R) /\ IsFiniteSet(S \ R) /\ R \cap (S \ R) = {} /\ R \cup (S \ R) = S
  BY FS_Subset
<1>2. /\ SumOf(f, R \cup (S \ R)) = SumOf(f, R) + SumOf(f, S \ R)
      /\ SumOf(f, R) \in Nat /\ SumOf(f, S \ R) \in Nat
  BY <1>1, SumUnion
<1> QED BY <1>1, <1>2

(* The sum depends on the values at the members only. *)
LEMMA SumSame ==
  ASSUME NEW f, NEW g, NEW S, IsFiniteSet(S), \A x \in S : f[x] = g[x]
  PROVE  SumOf(f, S) = SumOf(g, S)
<1>1. PICK h : h = (CHOOSE k : Sums(k, f, SUBSET S)) /\ Sums(h, f, SUBSET S)
  BY SumsExist
<1>2. \A s \in SUBSET S : s # {} => f[Pick(s)] = g[Pick(s)] BY PickIn
<1> DEFINE F(s) == IF s = {} THEN 0 ELSE f[Pick(s)] + h[s \ {Pick(s)}]
           G(s) == IF s = {} THEN 0 ELSE g[Pick(s)] + h[s \ {Pick(s)}]
<1>3. \A s \in SUBSET S : F(s) = G(s) BY <1>2
<1>4. h = [s \in SUBSET S |-> F(s)] BY <1>1 DEF Sums
<1>5. h = [s \in SUBSET S |-> G(s)]
  <2> HIDE DEF F, G
  <2> QED BY <1>3, <1>4
<1>6. Sums(h, g, SUBSET S) BY <1>5 DEF Sums
<1>7. SumOf(f, S) = h[S] BY <1>1, SumUnfolds
<1>8. SumOf(g, S) = h[S] BY <1>6, SumBySums
<1> QED BY <1>7, <1>8

(* Smaller values, smaller sum. *)
LEMMA SumLeq ==
  ASSUME NEW f, NEW g, NEW S, IsFiniteSet(S),
         \A x \in S : f[x] \in Nat /\ g[x] \in Nat /\ f[x] <= g[x]
  PROVE  SumOf(f, S) <= SumOf(g, S)
<1> DEFINE Bad == {n \in Nat : \E u \in SUBSET S : Cardinality(u) = n /\ ~(SumOf(f, u) <= SumOf(g, u))}
<1>0. Cardinality(S) \in Nat BY FS_CardinalityType
<1> SUFFICES ASSUME Bad # {} PROVE FALSE BY <1>0
<1>1. PICK n \in Bad : \A m \in Bad : n <= m BY LeastNat
<1>2. PICK u \in SUBSET S : Cardinality(u) = n /\ ~(SumOf(f, u) <= SumOf(g, u)) BY <1>1
<1>3. CASE u = {} BY <1>2, <1>3, SumEmpty
<1>4. CASE u # {}
  <2>1. PICK y : y \in u BY <1>4
  <2> DEFINE v == u \ {y}
  <2>2. v \in SUBSET S /\ Cardinality(v) = n - 1 /\ n - 1 \in Nat /\ n - 1 < n BY <1>2, <2>1, Smaller
  <2>3. SumOf(f, v) <= SumOf(g, v)
    <3> SUFFICES ASSUME ~(SumOf(f, v) <= SumOf(g, v)) PROVE FALSE OBVIOUS
    <3>1. n - 1 \in Bad BY <2>2
    <3> QED BY <1>1, <2>2, <3>1
  <2>4. IsFiniteSet(u) BY FS_Subset
  <2>5. SumOf(f, u) = SumOf(f, v) + f[y] /\ SumOf(f, v) \in Nat BY <2>1, <2>4, SumRemove
  <2>6. SumOf(g, u) = SumOf(g, v) + g[y] /\ SumOf(g, v) \in Nat BY <2>1, <2>4, SumRemove
  <2>7. f[y] \in Nat /\ g[y] \in Nat /\ f[y] <= g[y] BY <2>1
  <2> HIDE DEF v
  <2> QED BY <1>2, <2>3, <2>5, <2>6, <2>7
<1> QED BY <1>3, <1>4

(* A finite set of naturals has a greatest member: the least of its upper  *)
(* bounds.                                                                 *)
LEMMA MaxFacts ==
  ASSUME NEW S, IsFiniteSet(S), S \subseteq Nat, S # {}
  PROVE  Max(S) \in S /\ \A y \in S : y <= Max(S)
<1> DEFINE id == [x \in S |-> x]
           B == {n \in Nat : \A y \in S : y <= n}
<1>1. ASSUME NEW y \in S PROVE y <= SumOf(id, S) /\ SumOf(id, S) \in Nat
  <2>1. \A x \in S : id[x] \in Nat OBVIOUS
  <2>2. SumOf(id, S) = SumOf(id, S \ {y}) + id[y] /\ SumOf(id, S \ {y}) \in Nat
    BY <2>1, SumRemove
  <2>3. id[y] = y /\ y \in Nat OBVIOUS
  <2> QED BY <2>2, <2>3
<1>2. B # {} BY <1>1
<1>3. PICK n \in B : \A m \in B : n <= m
  <2> HIDE DEF B
  <2>1. B \subseteq Nat BY DEF B
  <2> QED BY <1>2, <2>1, LeastNat
<1>4. n \in S
  <2> SUFFICES ASSUME n \notin S PROVE FALSE OBVIOUS
  <2>1. PICK y \in S : y \in Nat OBVIOUS
  <2>2. n - 1 \in Nat /\ \A z \in S : z <= n - 1 BY <2>1
  <2> QED BY <1>3, <2>2
<1>5. \A y \in S : n >= y OBVIOUS
<1>6. Max(S) \in S /\ \A y \in S : Max(S) >= y BY <1>4, <1>5 DEF Max
<1> QED BY <1>6
=============================================================================
