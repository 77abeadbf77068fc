------------------------------ MODULE ModLemmas ------------------------------
(***************************************************************************)
(* Facts the provers lack: arithmetic modulo a ring's depth or a counter's *)
(* width, the least and the greatest of a set of numbers, how many a loop  *)
(* over a set stores, and that folds and sums exist.                       *)
(***************************************************************************)
EXTENDS Integers, Sequences, FiniteSetsExt, FiniteSetTheorems, WellFoundedInduction, TLAPS

\* Division with remainder, the fact about % the provers know.
LEMMA DivMod ==
  ASSUME NEW x \in Nat, NEW d \in Nat \ {0}
  PROVE  /\ x % d \in 0 .. d - 1
         /\ x \div d \in Nat
         /\ x = d * (x \div d) + (x % d)
BY Z3

\* A multiple of d that is shorter than d is nothing.
LEMMA SmallMultiple ==
  ASSUME NEW q \in Int, NEW d \in Nat \ {0}, d * q < d, d * q > 0 - d
  PROVE  q = 0
<1>1. CASE q > 0
  <2>1. d * q >= d BY <1>1, Z3
  <2> QED BY <2>1
<1>2. CASE q < 0
  <2>1. d * (0 - q) >= d BY <1>2, Z3
  <2>2. d * (0 - q) = 0 - (d * q) BY Z3
  <2> QED BY <2>1, <2>2, Z3
<1> QED BY <1>1, <1>2

\* Quotient and remainder are unique.
LEMMA ModIs ==
  ASSUME NEW x \in Nat, NEW d \in Nat \ {0},
         NEW q \in Int, NEW r \in 0 .. d - 1, x = d * q + r
  PROVE  x % d = r
<1> DEFINE p == x \div d
           s == x % d
<1>1. s \in 0 .. d - 1 /\ p \in Nat /\ x = d * p + s BY DivMod
<1> HIDE DEF p, s
<1>2. d * (p - q) = r - s BY <1>1, Z3
<1>3. p - q = 0 BY <1>1, <1>2, SmallMultiple
<1>4. d * (p - q) = 0 BY <1>3, Z3
<1> QED BY <1>1, <1>2, <1>4 DEF s

\* A counter that wraps at d follows one that does not.
LEMMA ModSucc ==
  ASSUME NEW x \in Nat, NEW d \in Nat \ {0}
  PROVE  (x + 1) % d = IF x % d = d - 1 THEN 0 ELSE (x % d) + 1
<1> DEFINE p == x \div d
           s == x % d
<1>1. s \in 0 .. d - 1 /\ p \in Nat /\ x = d * p + s BY DivMod
<1>2. x + 1 \in Nat OBVIOUS
<1> SUFFICES (x + 1) % d = IF s = d - 1 THEN 0 ELSE s + 1 OBVIOUS
<1> HIDE DEF p, s
<1>3. CASE s = d - 1
  <2>1. x + 1 = d * (p + 1) + 0 BY <1>1, <1>3, Z3
  <2>2. (x + 1) % d = 0 BY <1>1, <1>2, <2>1, ModIs
  <2> QED BY <2>2, <1>3
<1>4. CASE s # d - 1
  <2>1. x + 1 = d * p + (s + 1) BY <1>1, Z3
  <2>2. s + 1 \in 0 .. d - 1 BY <1>1, <1>4
  <2>3. (x + 1) % d = s + 1 BY <1>1, <1>2, <2>1, <2>2, ModIs
  <2> QED BY <2>3, <1>4
<1> QED BY <1>3, <1>4

\* Two counters less than d apart are in the same place only if they are equal.
LEMMA ModDistinct ==
  ASSUME NEW x \in Nat, NEW y \in Nat, NEW d \in Nat \ {0},
         x <= y, y - x < d, x % d = y % d
  PROVE  x = y
<1> DEFINE p == x \div d
           q == y \div d
           s == x % d
<1>1. s \in 0 .. d - 1 /\ p \in Nat /\ x = d * p + s BY DivMod
<1>2. q \in Nat /\ y = d * q + s BY DivMod
<1> HIDE DEF p, q, s
<1>3. d * (q - p) = y - x BY <1>1, <1>2, Z3
<1>4. q - p = 0 BY <1>1, <1>2, <1>3, SmallMultiple
<1>5. d * (q - p) = 0 BY <1>4, Z3
<1> QED BY <1>3, <1>5

\* The place of a counter in the ring is not disturbed by its wrapping.
LEMMA ModMod ==
  ASSUME NEW x \in Nat, NEW d \in Nat \ {0}, NEW w \in Nat \ {0}, w % d = 0
  PROVE  (x % w) % d = x % d
<1> DEFINE p == x \div w
           s == x % w
           k == w \div d
           t == s \div d
           r == s % d
<1>1. s \in 0 .. w - 1 /\ p \in Nat /\ x = w * p + s BY DivMod
<1>2. k \in Nat /\ w = d * k BY DivMod
<1>a. s \in Nat BY <1>1
<1>3. r \in 0 .. d - 1 /\ t \in Nat /\ s = d * t + r BY <1>a, DivMod
<1> SUFFICES x % d = r OBVIOUS
<1> HIDE DEF p, s, k, t, r
<1>4. x = (d * k) * p + (d * t + r) BY <1>1, <1>2, <1>3
<1>5. (d * k) * p + (d * t + r) = d * (k * p + t) + r BY <1>1, <1>2, <1>3, Z3
<1>6. k * p + t \in Int BY <1>1, <1>2, <1>3, Z3
<1> QED BY <1>3, <1>4, <1>5, <1>6, ModIs

\* The unsigned difference of two wrapped counters is their real difference.
LEMMA ModDifference ==
  ASSUME NEW c \in Nat, NEW p \in Nat, NEW w \in Nat \ {0},
         c <= p, p - c < w
  PROVE  p - c = IF p % w >= c % w THEN (p % w) - (c % w)
                                    ELSE (p % w) - (c % w) + w
<1> DEFINE a == p \div w
           s == p % w
           b == c \div w
           t == c % w
<1>1. s \in 0 .. w - 1 /\ a \in Nat /\ p = w * a + s BY DivMod
<1>2. t \in 0 .. w - 1 /\ b \in Nat /\ c = w * b + t BY DivMod
<1> SUFFICES p - c = IF s >= t THEN s - t ELSE s - t + w OBVIOUS
<1> HIDE DEF a, s, b, t
<1>3. w * (a - b) = (p - c) - (s - t) BY <1>1, <1>2, Z3
<1>4. CASE s >= t
  <2>1. a - b = 0 BY <1>1, <1>2, <1>3, <1>4, SmallMultiple
  <2>2. w * (a - b) = 0 BY <2>1, Z3
  <2> QED BY <1>1, <1>2, <1>3, <1>4, <2>2
<1>5. CASE s < t
  <2>1. w * (a - b - 1) = (p - c) - (s - t) - w BY <1>1, <1>2, <1>3, Z3
  <2>2. a - b - 1 = 0 BY <1>1, <1>2, <1>5, <2>1, SmallMultiple
  <2>3. w * (a - b - 1) = 0 BY <2>2, Z3
  <2> QED BY <1>1, <1>2, <1>5, <2>1, <2>3
<1> QED BY <1>1, <1>2, <1>4, <1>5

-----------------------------------------------------------------------------
\* A set of numbers that is not empty has a least one.
LEMMA MinIs ==
  ASSUME NEW S \in SUBSET Nat, S # {}
  PROVE  Min(S) \in S /\ \A x \in S : Min(S) <= x
  <1> DEFINE Less == {ss \in Nat \X Nat : ss[1] < ss[2]}
  <1>1. IsWellFoundedOn(Less, Nat)
    BY NatLessThanWellFounded DEF OpToRel
  <1>2. \A x, y \in Nat : <<y, x>> \in Less <=> y < x
    OBVIOUS
  <1> HIDE DEF Less
  <1>3. \E x \in S : \A y \in S : ~ (<<y, x>> \in Less)
    BY <1>1, WFMin
  <1>4. \E x \in S : \A y \in S : x <= y
    <2>1. PICK x \in S : \A y \in S : ~ (<<y, x>> \in Less)
      BY <1>3
    <2>2. \A y \in S : y \in Nat /\ x \in Nat /\ ~ (y < x)
      BY <1>2, <2>1
    <2>q. QED  BY <2>2
  <1>q. QED  BY <1>4 DEF Min

\* ... and one below a bound has a greatest.
LEMMA MaxIs ==
  ASSUME NEW n \in Nat, NEW S \in SUBSET (0 .. n), S # {}
  PROVE  Max(S) \in S /\ \A x \in S : Max(S) >= x
  <1> DEFINE R == {n - x : x \in S}
  <1>1. R \in SUBSET Nat /\ R # {}
    <2>1. \A x \in S : x \in Int /\ n - x \in Nat
      OBVIOUS
    <2>2. PICK x \in S : TRUE
      OBVIOUS
    <2>3. n - x \in R
      BY <2>2
    <2>q. QED  BY <2>1, <2>3
  <1>2. Min(R) \in R /\ \A y \in R : Min(R) <= y
    BY <1>1, MinIs
  <1>3. PICK x \in S : n - x = Min(R)
    BY <1>2
  <1>4. \A y \in S : n - x <= n - y
    BY <1>2, <1>3
  <1>5. \A y \in S : x >= y
    BY <1>4
  <1>q. QED  BY <1>3, <1>5 DEF Max

\* Cardinality of what a loop over a set stores.
LEMMA ImageSmaller ==
  ASSUME NEW S, NEW T, IsFiniteSet(S), NEW f \in [S -> T], \A y \in T : \E x \in S : f[x] = y
  PROVE  IsFiniteSet(T) /\ Cardinality(T) <= Cardinality(S)
  <1>1. f \in Surjection(S, T)
    BY DEF Surjection
  <1>q. QED  BY <1>1, FS_Surjection

\* A pair has at most two elements.
LEMMA PairSmall ==
  ASSUME NEW a, NEW b
  PROVE  IsFiniteSet({a} \cup {b}) /\ Cardinality({a} \cup {b}) <= 2
  <1>1. IsFiniteSet({a}) /\ Cardinality({a}) = 1
    BY FS_Singleton
  <1>2. /\ IsFiniteSet({a} \cup {b})
        /\ Cardinality({a} \cup {b}) = IF b \in {a} THEN Cardinality({a}) ELSE Cardinality({a}) + 1
    BY <1>1, FS_AddElement
  <1>3. Cardinality({a} \cup {b}) = 1 \/ Cardinality({a} \cup {b}) = 1 + 1
    BY <1>1, <1>2
  <1>q. QED  BY <1>2, <1>3

-----------------------------------------------------------------------------
\* Induction on the numbers, by the least number that is missing.
LEMMA NatAll ==
  ASSUME NEW S \in SUBSET Nat, 0 \in S, \A n \in S : n + 1 \in S
  PROVE  \A n \in Nat : n \in S
  <1> SUFFICES ASSUME Nat \ S # {} PROVE FALSE
    OBVIOUS
  <1> DEFINE m == Min(Nat \ S)
  <1>1. m \in Nat /\ m \notin S /\ \A x \in Nat \ S : m <= x
    BY MinIs
  <1> HIDE DEF m
  <1>2. m # 0 /\ m - 1 \in Nat
    BY <1>1
  <1>3. m - 1 \in S
    BY <1>1, <1>2
  <1>4. (m - 1) + 1 \in S
    BY <1>3
  <1>q. QED  BY <1>1, <1>2, <1>4

\* h folds F over every part of S, from base, what ch chooses first.
IsFold(S, U, base, F, ch, h) ==
  /\ h \in [SUBSET S -> U]
  /\ \A s \in SUBSET S : h[s] = IF s = {} THEN base ELSE F[<<ch[s], h[s \ {ch[s]}]>>]

\* What a fold over a finite set computes exists: the elements are taken off one
\* by one, the one that ch chooses first.
LEMMA FoldExists ==
  ASSUME NEW S, IsFiniteSet(S), NEW U, NEW base \in U, NEW F \in [S \X U -> U],
         NEW ch, \A s \in SUBSET S : s # {} => ch[s] \in s
  PROVE  \E h : IsFold(S, U, base, F, ch, h)
  <1> DEFINE Good(h, s) == h[s] = IF s = {} THEN base ELSE F[<<ch[s], h[s \ {ch[s]}]>>]
             N == {n \in Nat : \E h \in [SUBSET S -> U] : \A s \in SUBSET S :
                                 Cardinality(s) <= n => Good(h, s)}
  <1>0. \A s \in SUBSET S : /\ IsFiniteSet(s) /\ Cardinality(s) \in Nat
                            /\ Cardinality(s) <= Cardinality(S)
                            /\ (Cardinality(s) = 0) <=> (s = {})
    BY FS_Subset, FS_CardinalityType, FS_EmptySet
  <1>1. 0 \in N
    <2> DEFINE h == [s \in SUBSET S |-> base]
    <2>1. h \in [SUBSET S -> U]
      OBVIOUS
    <2>2. \A s \in SUBSET S : Cardinality(s) <= 0 => Good(h, s)
      BY <1>0
    <2> HIDE DEF h, Good
    <2>q. QED  BY <2>1, <2>2
  <1>2. ASSUME NEW n \in N PROVE n + 1 \in N
    <2>1. PICK g \in [SUBSET S -> U] : \A s \in SUBSET S : Cardinality(s) <= n => Good(g, s)
      BY <1>2
    <2> DEFINE h == [s \in SUBSET S |-> IF Cardinality(s) = n + 1
                                        THEN F[<<ch[s], g[s \ {ch[s]}]>>] ELSE g[s]]
    <2>2. h \in [SUBSET S -> U]
      <3>1. ASSUME NEW s \in SUBSET S, Cardinality(s) = n + 1
            PROVE  F[<<ch[s], g[s \ {ch[s]}]>>] \in U
        <4>1. s # {}
          BY <3>1, <1>0, <1>2
        <4>2. ch[s] \in S /\ s \ {ch[s]} \in SUBSET S
          BY <4>1
        <4>3. g[s \ {ch[s]}] \in U
          BY <4>2, <2>1
        <4>4. <<ch[s], g[s \ {ch[s]}]>> \in S \X U
          BY <4>2, <4>3
        <4>q. QED  BY <4>4
      <3>q. QED  BY <3>1, <2>1
    <2>3. ASSUME NEW s \in SUBSET S, Cardinality(s) <= n + 1 PROVE Good(h, s)
      <3>0. Cardinality(s) \in Nat /\ n \in Nat
        BY <1>0
      <3>1. CASE s = {}
        BY <3>1, <1>0, <2>1
      <3>2. CASE s # {}
        <4>1. ch[s] \in s /\ s \ {ch[s]} \in SUBSET S
          BY <3>2
        <4>2. Cardinality(s \ {ch[s]}) = Cardinality(s) - 1
          BY <4>1, <1>0, FS_RemoveElement
        <4>3. h[s \ {ch[s]}] = g[s \ {ch[s]}]
          BY <4>1, <4>2, <3>0, <2>3
        <4>4. CASE Cardinality(s) = n + 1
          BY <4>4, <4>3, <3>2
        <4>5. CASE Cardinality(s) # n + 1
          <5>1. Cardinality(s) <= n
            BY <4>5, <3>0, <2>3
          <5>2. h[s] = g[s] /\ Good(g, s)
            BY <4>5, <5>1, <2>1
          <5>q. QED  BY <5>2, <4>3, <3>2
        <4>q. QED  BY <4>4, <4>5
      <3>q. QED  BY <3>1, <3>2
    <2> HIDE DEF h, Good
    <2>4. n + 1 \in Nat
      BY <1>2
    <2>q. QED  BY <2>2, <2>3, <2>4
  <1>3. Cardinality(S) \in N
    <2> HIDE DEF N
    <2>1. N \in SUBSET Nat
      BY DEF N
    <2>2. \A n \in Nat : n \in N
      BY <1>1, <1>2, <2>1, NatAll
    <2>q. QED  BY <2>2, <1>0
  <1>4. PICK h \in [SUBSET S -> U] : \A s \in SUBSET S :
               Cardinality(s) <= Cardinality(S) => Good(h, s)
    BY <1>3
  <1>q. QED  BY <1>0, <1>4 DEF IsFold

\* h adds up w over every part of S, in the order of MapThenSumSet.
IsSum(S, w, h) ==
  \A s \in SUBSET S :
    h[s] = IF s = {} THEN 0
           ELSE w[CHOOSE x \in s : TRUE] + h[s \ {CHOOSE x \in s : TRUE}]

\* A sum over the parts of a finite set exists.
LEMMA SumExists ==
  ASSUME NEW S, IsFiniteSet(S), NEW w \in [S -> Nat]
  PROVE  \E h \in [SUBSET S -> Nat] : IsSum(S, w, h)
  <1> DEFINE F  == [p \in S \X Nat |-> w[p[1]] + p[2]]
             ch == [s \in SUBSET S |-> CHOOSE x \in s : TRUE]
  <1>1. F \in [S \X Nat -> Nat] /\ 0 \in Nat
    <2>1. \A p \in S \X Nat : w[p[1]] \in Nat /\ p[2] \in Nat
      OBVIOUS
    <2>q. QED  BY <2>1
  <1>2. \A s \in SUBSET S : s # {} => ch[s] \in s
    OBVIOUS
  <1>3. \A x \in S, n \in Nat : F[<<x, n>>] = w[x] + n
    OBVIOUS
  <1>4. \A s \in SUBSET S : ch[s] = CHOOSE x \in s : TRUE
    OBVIOUS
  <1> HIDE DEF F, ch
  <1>5. PICK h \in [SUBSET S -> Nat] : \A s \in SUBSET S :
          h[s] = IF s = {} THEN 0 ELSE F[<<ch[s], h[s \ {ch[s]}]>>]
    <2>1. \E h : IsFold(S, Nat, 0, F, ch, h)
      BY <1>1, <1>2, FoldExists
    <2>q. QED  BY <2>1 DEF IsFold
  <1>6. ASSUME NEW s \in SUBSET S
        PROVE  h[s] = IF s = {} THEN 0
                      ELSE w[CHOOSE x \in s : TRUE] + h[s \ {CHOOSE x \in s : TRUE}]
    <2>1. CASE s = {}
      BY <2>1, <1>5
    <2>2. CASE s # {}
      <3>1. ch[s] \in S /\ s \ {ch[s]} \in SUBSET S
        BY <2>2, <1>2
      <3>2. h[s] = w[ch[s]] + h[s \ {ch[s]}]
        BY <2>2, <3>1, <1>3, <1>5
      <3>q. QED  BY <2>2, <3>2, <1>4
    <2>q. QED  BY <2>1, <2>2
  <1>q. QED  BY <1>5, <1>6 DEF IsSum

\* It is a number, of every part.
LEMMA SumTyped ==
  ASSUME NEW S, IsFiniteSet(S), NEW w \in [S -> Nat], NEW h, IsSum(S, w, h)
  PROVE  \A s \in SUBSET S : h[s] \in Nat
  <1> DEFINE N == {m \in Nat : \A s \in SUBSET S : Cardinality(s) <= m => h[s] \in Nat}
  <1>0. \A s \in SUBSET S : /\ IsFiniteSet(s) /\ Cardinality(s) \in Nat
                            /\ (Cardinality(s) = 0) <=> (s = {})
    BY FS_Subset, FS_CardinalityType, FS_EmptySet
  <1>1. 0 \in N
    <2>1. h[{}] = 0
      BY DEF IsSum
    <2>q. QED  BY <1>0, <2>1
  <1>2. ASSUME NEW m \in N PROVE m + 1 \in N
    <2>1. ASSUME NEW s \in SUBSET S, Cardinality(s) <= m + 1, s # {}
          PROVE  h[s] \in Nat
      <3> DEFINE x == CHOOSE x \in s : TRUE
      <3>1. x \in s
        BY <2>1
      <3>2. h[s] = w[x] + h[s \ {x}]
        BY <2>1 DEF IsSum
      <3> HIDE DEF x
      <3>3. Cardinality(s \ {x}) = Cardinality(s) - 1 /\ s \ {x} \in SUBSET S
        BY <3>1, <1>0, FS_RemoveElement
      <3>4. Cardinality(s \ {x}) <= m
        BY <3>3, <2>1, <1>0
      <3>5. h[s \ {x}] \in Nat /\ w[x] \in Nat
        BY <3>1, <3>3, <3>4
      <3>q. QED  BY <3>2, <3>5
    <2>2. h[{}] \in Nat
      BY DEF IsSum
    <2>3. m + 1 \in Nat
      BY <1>2
    <2>q. QED  BY <2>1, <2>2, <2>3
  <1>3. \A m \in Nat : m \in N
    <2> HIDE DEF N
    <2>1. N \in SUBSET Nat
      BY DEF N
    <2>q. QED  BY <1>1, <1>2, <2>1, NatAll
  <1>q. QED  BY <1>0, <1>3

\* When one of the numbers grows, the sum grows as much.
LEMMA SumBump ==
  ASSUME NEW S, IsFiniteSet(S), NEW w \in [S -> Nat], NEW v \in [S -> Nat],
         NEW i \in S, NEW n \in Nat, v[i] = w[i] + n, \A j \in S \ {i} : v[j] = w[j],
         NEW g, IsSum(S, w, g), NEW h, IsSum(S, v, h)
  PROVE  h[S] = g[S] + n
  <1> DEFINE N == {m \in Nat : \A s \in SUBSET S :
                    Cardinality(s) <= m => h[s] = g[s] + (IF i \in s THEN n ELSE 0)}
  <1>0. \A s \in SUBSET S : /\ IsFiniteSet(s) /\ Cardinality(s) \in Nat
                            /\ (Cardinality(s) = 0) <=> (s = {})
                            /\ g[s] \in Nat /\ h[s] \in Nat
    BY FS_Subset, FS_CardinalityType, FS_EmptySet, SumTyped
  <1>1. 0 \in N
    <2>1. h[{}] = 0 /\ g[{}] = 0
      BY DEF IsSum
    <2>2. \A s \in SUBSET S : Cardinality(s) <= 0 => s = {}
      BY <1>0
    <2>3. h[{}] = g[{}] + (IF i \in {} THEN n ELSE 0)
      BY <2>1
    <2>q. QED  BY <2>2, <2>3
  <1>2. ASSUME NEW m \in N PROVE m + 1 \in N
    <2>1. ASSUME NEW s \in SUBSET S, Cardinality(s) <= m + 1
          PROVE  h[s] = g[s] + (IF i \in s THEN n ELSE 0)
      <3>1. CASE s = {}
        BY <3>1 DEF IsSum
      <3>2. CASE s # {}
        <4> DEFINE x == CHOOSE x \in s : TRUE
                   r == s \ {x}
        <4>1. x \in s /\ x \in S /\ r \in SUBSET S
          BY <3>2
        <4>2. h[s] = v[x] + h[r] /\ g[s] = w[x] + g[r]
          BY <3>2 DEF IsSum
        <4> HIDE DEF x
        <4>3. Cardinality(r) = Cardinality(s) - 1
          BY <4>1, <1>0, FS_RemoveElement
        <4>4. Cardinality(r) <= m
          BY <4>3, <2>1, <1>0
        <4>5. h[r] = g[r] + (IF i \in r THEN n ELSE 0)
          BY <4>1, <4>4
        <4>6. v[x] = w[x] + (IF x = i THEN n ELSE 0)
          BY <4>1
        <4>7. i \in s <=> (x = i \/ i \in r)
          BY <4>1
        <4>8. ~ (x = i /\ i \in r)
          OBVIOUS
        <4>9. w[x] \in Nat /\ g[r] \in Nat
          BY <4>1, <1>0
        <4> HIDE DEF r
        <4>q. QED  BY <4>2, <4>5, <4>6, <4>7, <4>8, <4>9
      <3>q. QED  BY <3>1, <3>2
    <2>q. QED  BY <2>1
  <1>3. \A m \in Nat : m \in N
    <2> HIDE DEF N
    <2>1. N \in SUBSET Nat
      BY DEF N
    <2>q. QED  BY <1>1, <1>2, <2>1, NatAll
  <1>4. Cardinality(S) \in N
    BY <1>0, <1>3
  <1>q. QED  BY <1>0, <1>4

\* r is what the steps of q make of k, one by one: F[<<e, x>>] is e's step from x.
IsRun(W, F, k, q, r) ==
  \E g \in [0 .. Len(q) -> W] :
    /\ g[0] = k /\ r = g[Len(q)]
    /\ \A j \in 1 .. Len(q) : g[j] = F[<<q[j], g[j - 1]>>]

\* The function that FoldLeft defines by recursion exists ...
Unfolds(W, F, k, q) ==
  \E h \in [SUBSET (DOMAIN q) -> W] : \A s \in SUBSET (DOMAIN q) :
    h[s] = IF s = {} THEN k ELSE F[<<q[Max(s)], h[s \ {Max(s)}]>>]

\* A left fold over a sequence exists, as a function of the parts of its domain.
LEMMA RunExists ==
  ASSUME NEW E, NEW W, NEW F \in [E \X W -> W], NEW k \in W, NEW q \in Seq(E)
  PROVE  Unfolds(W, F, k, q)
  <1> DEFINE D  == DOMAIN q
             G  == [p \in D \X W |-> F[<<q[p[1]], p[2]>>]]
             ch == [s \in SUBSET D |-> Max(s)]
  <1>0. D = 1 .. Len(q) /\ Len(q) \in Nat /\ \A j \in D : q[j] \in E
    OBVIOUS
  <1>1. G \in [D \X W -> W] /\ IsFiniteSet(D)
    <2>1. \A p \in D \X W : <<q[p[1]], p[2]>> \in E \X W
      BY <1>0
    <2>2. IsFiniteSet(D)
      BY <1>0, FS_Interval
    <2> HIDE DEF D
    <2>q. QED  BY <2>1, <2>2
  <1>2. \A s \in SUBSET D : s # {} => Max(s) \in s
    <2> SUFFICES ASSUME NEW s \in SUBSET D, s # {} PROVE Max(s) \in s
      OBVIOUS
    <2>1. s \in SUBSET (0 .. Len(q))
      BY <1>0
    <2>q. QED  BY <1>0, <2>1, MaxIs
  <1>3. \A s \in SUBSET D : ch[s] = Max(s)
    OBVIOUS
  <1>4. \A j \in D, x \in W : G[<<j, x>>] = F[<<q[j], x>>]
    OBVIOUS
  <1> HIDE DEF D, G, ch
  <1>5. PICK h : IsFold(D, W, k, G, ch, h)
    BY <1>1, <1>2, <1>3, FoldExists
  <1>6. h \in [SUBSET D -> W]
    BY <1>5 DEF IsFold
  <1>7. ASSUME NEW s \in SUBSET D
        PROVE  h[s] = IF s = {} THEN k ELSE F[<<q[Max(s)], h[s \ {Max(s)}]>>]
    <2>1. CASE s = {}
      BY <1>5, <2>1 DEF IsFold
    <2>2. CASE s # {}
      <3>1. Max(s) \in D /\ s \ {Max(s)} \in SUBSET D
        BY <1>2, <2>2
      <3>2. h[s] = G[<<Max(s), h[s \ {Max(s)}]>>]
        BY <1>3, <1>5, <2>2 DEF IsFold
      <3>q. QED  BY <1>4, <1>6, <2>2, <3>1, <3>2
    <2>q. QED  BY <2>1, <2>2
  <1>q. QED  BY <1>6, <1>7 DEF D, Unfolds

\* ... and its values at the prefixes of q are the run.
LEMMA RunIs ==
  ASSUME NEW E, NEW W, NEW F \in [E \X W -> W], NEW k \in W, NEW q \in Seq(E),
         NEW h, h[{}] = k,
         \A s \in SUBSET (DOMAIN q) : s # {} /\ h[s \ {Max(s)}] \in W =>
           h[s] = F[<<q[Max(s)], h[s \ {Max(s)}]>>]
  PROVE  IsRun(W, F, k, q, h[DOMAIN q])
  <1> DEFINE n == Len(q)
             N == {j \in Nat : j <= n => h[1 .. j] \in W}
  <1>0. n \in Nat /\ DOMAIN q = 1 .. n /\ \A j \in 1 .. n : q[j] \in E
    OBVIOUS
  <1>1. \A j \in 1 .. n : /\ 1 .. j \in SUBSET (DOMAIN q) /\ 1 .. j # {} /\ Max(1 .. j) = j
                          /\ (1 .. j) \ {j} = 1 .. j - 1
    <2> SUFFICES ASSUME NEW j \in 1 .. n
                 PROVE  /\ 1 .. j \in SUBSET (DOMAIN q) /\ 1 .. j # {} /\ Max(1 .. j) = j
                        /\ (1 .. j) \ {j} = 1 .. j - 1
      OBVIOUS
    <2>1. 1 .. j \in SUBSET (DOMAIN q) /\ 1 .. j # {} /\ (1 .. j) \ {j} = 1 .. j - 1
      <3>1. j \in Nat /\ 1 <= j /\ j <= n /\ n \in Nat
        BY <1>0
      <3>2. 1 .. j \subseteq 1 .. n /\ j \in 1 .. j
        BY <3>1
      <3>3. (1 .. j) \ {j} = 1 .. j - 1
        BY <3>1
      <3>q. QED  BY <1>0, <3>2, <3>3
    <2>2. j \in Nat /\ 1 .. j \in SUBSET (0 .. j) /\ j \in 1 .. j
      BY <1>0
    <2>3. Max(1 .. j) \in 1 .. j /\ Max(1 .. j) >= j
      BY <2>1, <2>2, MaxIs
    <2>q. QED  BY <2>1, <2>2, <2>3
  <1>2. \A j \in 1 .. n : h[1 .. j - 1] \in W => h[1 .. j] = F[<<q[j], h[1 .. j - 1]>>]
    BY <1>1
  <1>3. h[1 .. 0] = k
    <2>1. 1 .. 0 = {}
      OBVIOUS
    <2>q. QED  BY <2>1
  <1>4. \A j \in Nat : j \in N
    <2>1. 0 \in N
      BY <1>3
    <2>2. ASSUME NEW j \in N PROVE j + 1 \in N
      <3>1. CASE j + 1 <= n
        <4>1. h[1 .. j] \in W /\ j + 1 \in 1 .. n /\ (j + 1) - 1 = j
          BY <1>0, <2>2, <3>1
        <4>2. h[1 .. j + 1] = F[<<q[j + 1], h[1 .. j]>>]
          BY <1>2, <4>1
        <4>3. <<q[j + 1], h[1 .. j]>> \in E \X W
          BY <1>0, <4>1
        <4>4. h[1 .. j + 1] \in W
          BY <4>2, <4>3
        <4>q. QED  BY <2>2, <4>4
      <3>2. CASE ~ (j + 1 <= n)
        BY <2>2, <3>2
      <3>q. QED  BY <3>1, <3>2
    <2>3. N \in SUBSET Nat
      OBVIOUS
    <2> HIDE DEF N
    <2>q. QED  BY <2>1, <2>2, <2>3, NatAll
  <1>5. \A j \in 0 .. n : h[1 .. j] \in W
    BY <1>0, <1>4
  <1> DEFINE g == [j \in 0 .. n |-> h[1 .. j]]
  <1>6. g \in [0 .. n -> W] /\ g[0] = k /\ h[DOMAIN q] = g[n]
    BY <1>0, <1>3, <1>5
  <1>7. \A j \in 1 .. n : g[j] = F[<<q[j], g[j - 1]>>]
    <2> SUFFICES ASSUME NEW j \in 1 .. n PROVE g[j] = F[<<q[j], g[j - 1]>>]
      OBVIOUS
    <2>1. j \in 0 .. n /\ j - 1 \in 0 .. n
      BY <1>0
    <2>2. g[j] = h[1 .. j] /\ g[j - 1] = h[1 .. j - 1] /\ h[1 .. j - 1] \in W
      BY <1>5, <2>1
    <2>q. QED  BY <1>2, <2>2
  <1> HIDE DEF g
  <1>q. QED  BY <1>6, <1>7 DEF IsRun

\* A run stays in what its steps lead through.
LEMMA RunKeeps ==
  ASSUME NEW W, NEW F, NEW k, NEW q, Len(q) \in Nat, NEW r, IsRun(W, F, k, q, r),
         NEW U, k \in U[0],
         \A j \in 1 .. Len(q) : \A x \in W : x \in U[j - 1] => F[<<q[j], x>>] \in U[j]
  PROVE  r \in U[Len(q)]
  <1> DEFINE n == Len(q)
  <1>1. PICK g \in [0 .. n -> W] : /\ g[0] = k /\ r = g[n]
                                   /\ \A j \in 1 .. n : g[j] = F[<<q[j], g[j - 1]>>]
    BY DEF IsRun
  <1> DEFINE N == {j \in Nat : j <= n => g[j] \in U[j]}
  <1>2. 0 \in N
    BY <1>1
  <1>3. ASSUME NEW j \in N PROVE j + 1 \in N
    <2>1. CASE j + 1 <= n
      <3>1. j + 1 \in 1 .. n /\ j \in 0 .. n /\ (j + 1) - 1 = j /\ g[j] \in U[j]
        BY <1>3, <2>1
      <3>2. g[j] \in W /\ g[j + 1] = F[<<q[j + 1], g[j]>>]
        BY <1>1, <3>1
      <3>3. F[<<q[j + 1], g[j]>>] \in U[j + 1]
        BY <3>1, <3>2
      <3>4. g[j + 1] \in U[j + 1]
        BY <3>2, <3>3
      <3>q. QED  BY <1>3, <3>4
    <2>2. CASE ~ (j + 1 <= n)
      BY <1>3, <2>2
    <2>q. QED  BY <2>1, <2>2
  <1>4. \A j \in Nat : j \in N
    <2>1. N \in SUBSET Nat
      OBVIOUS
    <2> HIDE DEF N
    <2>q. QED  BY <1>2, <1>3, <2>1, NatAll
  <1>q. QED  BY <1>1, <1>4

\* What a run of the fold ends in.
LEMMA RunTyped ==
  ASSUME NEW W, NEW F, NEW k, NEW q, Len(q) \in Nat, NEW r, IsRun(W, F, k, q, r)
  PROVE  r \in W
  BY DEF IsRun

\* The last entry of a part of a sequence.
LEMMA RunMax ==
  ASSUME NEW E, NEW q \in Seq(E), NEW s \in SUBSET (DOMAIN q), s # {}
  PROVE  Max(s) \in s /\ Max(s) \in DOMAIN q /\ q[Max(s)] \in E
  <1>1. Len(q) \in Nat /\ s \in SUBSET (0 .. Len(q))
    OBVIOUS
  <1>2. Max(s) \in s
    BY <1>1, MaxIs
  <1>q. QED  BY <1>2
====
