-------------------------- MODULE HistogramProofs --------------------------
(* Whatever is added, merged and cleared, in any order, the histogram is the *)
(* count of its values, its median is near theirs, and its text fits.        *)
(*                                                                           *)
(* Sums are functions by recursion over positions.  What holds of them for   *)
(* every length is proved by the least counterexample: a set of naturals     *)
(* that is not empty has a least element (WFMin of WellFoundedInduction).     *)
EXTENDS Histogram, FiniteSetTheorems, FunctionTheorems, SequenceTheorems, TLAPS

LEMMA NatWellFounded ==
  \E R : IsWellFoundedOn(R, Nat) /\ R = {ss \in Nat \X Nat : ss[1] < ss[2]}
BY NatLessThanWellFounded DEF OpToRel

\* The least-number principle.
LEMMA LeastNumber ==
  ASSUME NEW T \in SUBSET Nat, T # {}
  PROVE  \E n \in T : \A m \in T : n <= m
<1>1. PICK R : IsWellFoundedOn(R, Nat) /\ R = {ss \in Nat \X Nat : ss[1] < ss[2]}
  BY NatWellFounded
<1>2. PICK n \in T : \A m \in T : <<m, n>> \notin R
  BY <1>1, WFMin
<1>3. \A m \in T : ~(m < n)
  BY <1>1, <1>2
<1> QED BY <1>2, <1>3

\* Induction over the naturals, for a set: it holds 0 and with n also n + 1.
LEMMA Induction ==
  ASSUME NEW T, 0 \in T, \A n \in Nat : n \in T => n + 1 \in T
  PROVE  Nat \subseteq T
<1> SUFFICES ASSUME Nat \ T # {} PROVE FALSE
  OBVIOUS
<1>1. PICK n \in Nat \ T : \A m \in Nat \ T : n <= m
  BY LeastNumber
<1>2. n # 0 /\ n - 1 \in Nat
  BY <1>1
<1>3. n - 1 \in T
  BY <1>1, <1>2
<1>4. (n - 1) + 1 \in T
  BY <1>2, <1>3
<1> QED BY <1>1, <1>4
-----------------------------------------------------------------------------
\* s is the function of the partial sums of f up to n.
IsSums(s, f, n) == s = [c \in 0 .. n |-> IF c = 0 THEN 0 ELSE s[c - 1] + f[c]]

LEMMA SumsExist == \A n \in Nat : \A f : \E s : IsSums(s, f, n)
<1> DEFINE T == {n \in Nat : \A f : \E s : IsSums(s, f, n)}
<1>1. 0 \in T
  <2> SUFFICES ASSUME NEW f PROVE \E s : IsSums(s, f, 0)
    OBVIOUS
  <2> DEFINE s == [c \in 0 .. 0 |-> 0]
  <2>1. IsSums(s, f, 0)
    BY DEF IsSums
  <2> QED BY <2>1
<1>2. ASSUME NEW n \in Nat, n \in T PROVE n + 1 \in T
  <2> SUFFICES ASSUME NEW f PROVE \E s : IsSums(s, f, n + 1)
    OBVIOUS
  <2>1. PICK s : IsSums(s, f, n)
    BY <1>2
  <2> DEFINE t == [c \in 0 .. (n + 1) |-> IF c = n + 1 THEN s[n] + f[n + 1] ELSE s[c]]
  <2>2. \A c \in 0 .. (n + 1) : t[c] = (IF c = 0 THEN 0 ELSE t[c - 1] + f[c])
    <3> TAKE c \in 0 .. (n + 1)
    <3>1. CASE c = n + 1
      BY <3>1
    <3>2. CASE c # n + 1
      BY <2>1, <3>2 DEF IsSums
    <3> QED BY <3>1, <3>2
  <2>3. IsSums(t, f, n + 1)
    BY <2>2 DEF IsSums
  <2> QED BY <2>3
<1> QED BY <1>1, <1>2, Induction

LEMMA SumsUnique ==
  ASSUME NEW f, NEW m \in Nat, NEW n \in Nat, m <= n, NEW s, NEW t, IsSums(s, f, m), IsSums(t, f, n)
  PROVE  s[m] = t[m]
<1> DEFINE T == {c \in Nat : c <= m => s[c] = t[c]}
<1>1. 0 \in T
  BY DEF IsSums
<1>2. ASSUME NEW c \in Nat, c \in T PROVE c + 1 \in T
  BY <1>2 DEF IsSums
<1>3. Nat \subseteq T
  BY <1>1, <1>2, Induction
<1> QED BY <1>3

\* What the sums of the module are: the recursion that defines them.
LEMMA SumToRecursion ==
  /\ \A f : SumTo(f, 0) = 0
  /\ \A f : \A n \in Nat : SumTo(f, n + 1) = SumTo(f, n) + f[n + 1]
<1>1. ASSUME NEW f, NEW n \in Nat
      PROVE  \E s : IsSums(s, f, n) /\ SumTo(f, n) = s[n]
  <2> DEFINE s == CHOOSE g : g = [c \in 0 .. n |-> IF c = 0 THEN 0 ELSE g[c - 1] + f[c]]
  <2>1. SumTo(f, n) = s[n]
    BY DEF SumTo
  <2>2. \E g : g = [c \in 0 .. n |-> IF c = 0 THEN 0 ELSE g[c - 1] + f[c]]
    BY SumsExist DEF IsSums
  <2>3. IsSums(s, f, n)
    BY <2>2 DEF IsSums
  <2> QED BY <2>1, <2>3
<1>2. ASSUME NEW f PROVE SumTo(f, 0) = 0
  BY <1>1 DEF IsSums
<1>3. ASSUME NEW f, NEW n \in Nat PROVE SumTo(f, n + 1) = SumTo(f, n) + f[n + 1]
  <2>1. PICK s : IsSums(s, f, n) /\ SumTo(f, n) = s[n]
    BY <1>1
  <2>2. PICK t : IsSums(t, f, n + 1) /\ SumTo(f, n + 1) = t[n + 1]
    BY <1>1
  <2>3. s[n] = t[n]
    BY <2>1, <2>2, SumsUnique
  <2>4. t[n + 1] = t[n] + f[n + 1]
    BY <2>2 DEF IsSums
  <2> QED BY <2>1, <2>2, <2>3, <2>4
<1> QED BY <1>2, <1>3

LEMMA SumIsNat ==
  ASSUME NEW f, NEW n \in Nat, \A c \in 1 .. n : f[c] \in Nat
  PROVE  SumTo(f, n) \in Nat
<1> DEFINE T == {m \in Nat : m <= n => SumTo(f, m) \in Nat}
<1>1. 0 \in T
  BY SumToRecursion
<1>2. ASSUME NEW m \in Nat, m \in T PROVE m + 1 \in T
  <2>1. m + 1 <= n => f[m + 1] \in Nat /\ SumTo(f, m) \in Nat
    BY <1>2
  <2> QED BY <2>1, SumToRecursion
<1>3. Nat \subseteq T
  BY <1>1, <1>2, Induction
<1> QED BY <1>3

\* Sums of functions that agree are equal.
LEMMA SumAgrees ==
  ASSUME NEW f, NEW g, NEW n \in Nat, \A c \in 1 .. n : f[c] = g[c]
  PROVE  SumTo(f, n) = SumTo(g, n)
<1> DEFINE T == {m \in Nat : m <= n => SumTo(f, m) = SumTo(g, m)}
<1>1. 0 \in T
  BY SumToRecursion
<1>2. ASSUME NEW m \in Nat, m \in T PROVE m + 1 \in T
  <2>1. m + 1 <= n => f[m + 1] = g[m + 1] /\ SumTo(f, m) = SumTo(g, m)
    BY <1>2
  <2> QED BY <2>1, SumToRecursion
<1>3. Nat \subseteq T
  BY <1>1, <1>2, Induction
<1> QED BY <1>3

\* h is f up to m and then g up to n.
Joined(h, f, m, g, n) ==
  /\ \A c \in 1 .. m : f[c] \in Nat /\ h[c] = f[c]
  /\ \A c \in 1 .. n : g[c] \in Nat /\ h[m + c] = g[c]

\* The sum over a first part of m and a second part of n.
LEMMA SumOfParts ==
  ASSUME NEW m \in Nat, NEW n \in Nat, NEW f, NEW g, NEW h, Joined(h, f, m, g, n)
  PROVE  SumTo(h, m + n) = SumTo(f, m) + SumTo(g, n)
<1> DEFINE T == {c \in Nat : c <= n => SumTo(h, m + c) = SumTo(f, m) + SumTo(g, c)}
<1>0. SumTo(f, m) \in Nat
  BY SumIsNat DEF Joined
<1>1. 0 \in T
  <2>1. SumTo(h, m) = SumTo(f, m)
    BY SumAgrees DEF Joined
  <2> QED BY <1>0, <2>1, SumToRecursion
<1>2. ASSUME NEW c \in Nat, c \in T PROVE c + 1 \in T
  <2> SUFFICES ASSUME c + 1 <= n
               PROVE  SumTo(h, m + (c + 1)) = SumTo(f, m) + SumTo(g, c + 1)
    OBVIOUS
  <2>1. SumTo(h, m + c) = SumTo(f, m) + SumTo(g, c)
    BY <1>2
  <2>2. SumTo(h, (m + c) + 1) = SumTo(h, m + c) + h[(m + c) + 1]
    BY SumToRecursion
  <2>3. SumTo(g, c + 1) = SumTo(g, c) + g[c + 1]
    BY SumToRecursion
  <2>4. SumTo(g, c) \in Nat /\ g[c + 1] \in Nat
    <3>1. \A d \in 1 .. c : g[d] \in Nat
      BY DEF Joined
    <3> QED BY <3>1, SumIsNat DEF Joined
  <2>5. (m + c) + 1 = m + (c + 1) /\ h[(m + c) + 1] = g[c + 1]
    BY DEF Joined
  <2> QED BY <1>0, <2>1, <2>2, <2>3, <2>4, <2>5
<1>3. Nat \subseteq T
  BY <1>1, <1>2, Induction
<1> QED BY <1>3

\* A value more in a sequence is its value more in the sum.
LEMMA SumOfAppend ==
  ASSUME NEW s \in Seq(Nat), NEW v \in Nat
  PROVE  SumTo(Append(s, v), Len(s) + 1) = SumTo(s, Len(s)) + v
<1>1. PICK u : u = Append(s, v)
  OBVIOUS
<1>2. PICK n \in Nat : n = Len(s)
  OBVIOUS
<1>3. (\A c \in 1 .. n : u[c] = s[c]) /\ u[n + 1] = v
  BY <1>1, <1>2
<1>4. SumTo(u, n) = SumTo(s, n)
  BY <1>3, SumAgrees
<1>5. SumTo(u, n + 1) = SumTo(s, n) + v
  BY <1>3, <1>4, SumToRecursion
<1> QED BY <1>1, <1>2, <1>5

LEMMA SumOfConcat ==
  ASSUME NEW s \in Seq(Nat), NEW t \in Seq(Nat)
  PROVE  SumTo(s \o t, Len(s) + Len(t)) = SumTo(s, Len(s)) + SumTo(t, Len(t))
<1>1. PICK u : u = s \o t
  OBVIOUS
<1>2. PICK m \in Nat, n \in Nat : m = Len(s) /\ n = Len(t)
  OBVIOUS
<1>3. Joined(u, s, m, t, n)
  <2>1. /\ \A c \in 1 .. m : s[c] \in Nat
        /\ \A c \in 1 .. n : t[c] \in Nat
        /\ \A c \in 1 .. m : u[c] = s[c]
        /\ \A c \in 1 .. n : u[m + c] = t[c]
    BY <1>1, <1>2
  <2> QED BY <2>1 DEF Joined
<1>4. SumTo(u, m + n) = SumTo(s, m) + SumTo(t, n)
  BY <1>3, SumOfParts
<1> QED BY <1>1, <1>2, <1>4
-----------------------------------------------------------------------------
\* The places of the values of s from lo to below hi.
Places(s, lo, hi) == {i \in DOMAIN s : lo <= s[i] /\ s[i] < hi}
Between(s, lo, hi) == Cardinality(Places(s, lo, hi))

LEMMA UpTo ==
  ASSUME NEW n \in Nat
  PROVE  IsFiniteSet(1 .. n) /\ Cardinality(1 .. n) = n
<1>1. 1 \in Int /\ n \in Int
  OBVIOUS
<1>2. IsFiniteSet(1 .. n) /\ Cardinality(1 .. n) = (IF 1 > n THEN 0 ELSE n - 1 + 1)
  BY <1>1, FS_Interval
<1> QED BY <1>2

LEMMA DisjointUnion ==
  ASSUME NEW P, NEW Q, IsFiniteSet(P), IsFiniteSet(Q), P \cap Q = {}
  PROVE  Cardinality(P \cup Q) = Cardinality(P) + Cardinality(Q)
<1>1. Cardinality(P) \in Nat /\ Cardinality(Q) \in Nat
  BY FS_CardinalityType
<1>2. Cardinality(P \cup Q) = Cardinality(P) + Cardinality(Q) - Cardinality(P \cap Q)
  BY FS_Union
<1>3. Cardinality(P \cap Q) = 0
  BY FS_EmptySet
<1> QED BY <1>1, <1>2, <1>3

LEMMA PlacesFinite ==
  ASSUME NEW s \in Seq(Nat), NEW lo, NEW hi
  PROVE  /\ IsFiniteSet(Places(s, lo, hi)) /\ Between(s, lo, hi) \in Nat
         /\ Between(s, lo, hi) <= Len(s)
<1>1. IsFiniteSet(1 .. Len(s)) /\ Cardinality(1 .. Len(s)) = Len(s)
  <2>1. Len(s) \in Nat
    OBVIOUS
  <2> QED BY <2>1, UpTo
<1>2. Places(s, lo, hi) \in SUBSET (1 .. Len(s))
  BY DEF Places
<1> QED BY <1>1, <1>2, FS_Subset, FS_CardinalityType DEF Between

LEMMA BetweenAll ==
  ASSUME NEW s \in Seq(Nat), NEW hi \in Nat, \A i \in DOMAIN s : s[i] < hi
  PROVE  Between(s, 0, hi) = Len(s)
<1>1. Places(s, 0, hi) = 1 .. Len(s)
  BY DEF Places
<1>2. Len(s) \in Nat
  OBVIOUS
<1>3. Cardinality(1 .. Len(s)) = Len(s)
  BY <1>2, UpTo
<1> QED BY <1>1, <1>3 DEF Between

LEMMA BetweenNothing ==
  ASSUME NEW s \in Seq(Nat), NEW lo \in Nat
  PROVE  Between(s, lo, lo) = 0
<1>1. Places(s, lo, lo) = {}
  BY DEF Places
<1> QED BY <1>1, FS_EmptySet DEF Between

LEMMA BetweenSplits ==
  ASSUME NEW s \in Seq(Nat), NEW lo \in Nat, NEW mid \in Nat, NEW hi \in Nat, lo <= mid, mid <= hi
  PROVE  Between(s, lo, hi) = Between(s, lo, mid) + Between(s, mid, hi)
<1>1. /\ IsFiniteSet(Places(s, lo, mid)) /\ Between(s, lo, mid) \in Nat
      /\ IsFiniteSet(Places(s, mid, hi)) /\ Between(s, mid, hi) \in Nat
  BY PlacesFinite
<1>2. Places(s, lo, hi) = Places(s, lo, mid) \cup Places(s, mid, hi)
  BY DEF Places
<1>3. Places(s, lo, mid) \cap Places(s, mid, hi) = {}
  BY DEF Places
<1>4. Cardinality(Places(s, lo, mid) \cup Places(s, mid, hi)) =
        Cardinality(Places(s, lo, mid)) + Cardinality(Places(s, mid, hi))
  BY <1>1, <1>3, DisjointUnion
<1> QED BY <1>2, <1>4 DEF Between

LEMMA BetweenAppend ==
  ASSUME NEW s \in Seq(Nat), NEW v \in Nat, NEW lo \in Nat, NEW hi \in Nat
  PROVE  Between(Append(s, v), lo, hi) =
           Between(s, lo, hi) + (IF lo <= v /\ v < hi THEN 1 ELSE 0)
<1> DEFINE P == Places(s, lo, hi)
<1>1. IsFiniteSet(P) /\ Cardinality(P) \in Nat
  BY PlacesFinite DEF Between
<1>2. Len(s) + 1 \notin P
  BY DEF Places
<1>3. CASE lo <= v /\ v < hi
  <2>1. Places(Append(s, v), lo, hi) = P \cup {Len(s) + 1}
    BY <1>3 DEF Places
  <2>2. Cardinality(P \cup {Len(s) + 1}) = Cardinality(P) + 1
    BY <1>1, <1>2, FS_AddElement
  <2> QED BY <1>3, <2>1, <2>2 DEF Between
<1>4. CASE ~(lo <= v /\ v < hi)
  <2>1. Places(Append(s, v), lo, hi) = P
    BY <1>4 DEF Places
  <2> QED BY <1>1, <1>4, <2>1 DEF Between
<1> QED BY <1>3, <1>4

LEMMA BetweenConcat ==
  ASSUME NEW s \in Seq(Nat), NEW t \in Seq(Nat), NEW lo \in Nat, NEW hi \in Nat
  PROVE  Between(s \o t, lo, hi) = Between(s, lo, hi) + Between(t, lo, hi)
<1> DEFINE m == Len(s)
           P == Places(s, lo, hi)
           Q == Places(t, lo, hi)
           R == {i \in (m + 1) .. (m + Len(t)) : i - m \in Q}
           f == [i \in Q |-> m + i]
<1>0. m \in Nat /\ Len(t) \in Nat /\ P \subseteq 1 .. m /\ Q \subseteq 1 .. Len(t)
  BY DEF Places
<1>1. IsFiniteSet(P) /\ Cardinality(P) \in Nat /\ IsFiniteSet(Q) /\ Cardinality(Q) \in Nat
  BY PlacesFinite DEF Between
<1>2. f \in Bijection(Q, R)
  <2>1. f \in [Q -> R]
    BY <1>0
  <2>2. \A i, j \in Q : f[i] = f[j] => i = j
    BY <1>0
  <2>3. \A r \in R : \E i \in Q : f[i] = r
    <3> TAKE r \in R
    <3>1. r - m \in Q /\ f[r - m] = r
      BY <1>0
    <3> QED BY <3>1
  <2> QED BY <2>1, <2>2, <2>3, Fun_IsBij
<1>3. IsFiniteSet(R) /\ Cardinality(R) = Cardinality(Q)
  BY <1>1, <1>2, FS_Bijection DEF ExistsBijection
<1>4. Places(s \o t, lo, hi) = P \cup R
  BY DEF Places
<1>5. P \cap R = {}
  BY <1>0
<1>6. Cardinality(P \cup R) = Cardinality(P) + Cardinality(R)
  <2> HIDE DEF P, R
  <2> QED BY <1>1, <1>3, <1>5, DisjointUnion
<1> QED BY <1>3, <1>4, <1>6 DEF Between
-----------------------------------------------------------------------------
\* Every value below the last limit is in one bucket, BucketOf.
LEMMA BucketFacts ==
  /\ Buckets = 1 .. Len(Limits) /\ Len(Limits) \in Nat \ {0}
  /\ \A b \in Buckets : Limits[b] \in Nat /\ Left(b) \in Nat /\ Left(b) <= Limits[b]
  /\ \A b, c \in Buckets : b < c => Limits[b] < Limits[c] /\ Limits[b] <= Left(c)
<1>1. Buckets = 1 .. Len(Limits) /\ Len(Limits) \in Nat \ {0}
  BY HistogramAssumption DEF Buckets
<1>2. \A b \in Buckets : Limits[b] \in Nat
  BY <1>1, HistogramAssumption
<1>3. \A b, c \in Buckets : b < c => Limits[b] < Limits[c]
  BY HistogramAssumption DEF Buckets
<1>4. \A b \in Buckets : b # 1 => b - 1 \in Buckets /\ Left(b) = Limits[b - 1]
  BY <1>1 DEF Left
<1>5. \A b \in Buckets : Left(b) \in Nat /\ Left(b) <= Limits[b]
  <2> TAKE b \in Buckets
  <2>1. CASE b = 1
    BY <1>2, <2>1 DEF Left
  <2>2. CASE b # 1
    <3>1. b - 1 < b
      BY <1>1
    <3> QED BY <1>2, <1>3, <1>4, <2>2, <3>1
  <2> QED BY <2>1, <2>2
<1>6. ASSUME NEW b \in Buckets, NEW c \in Buckets, b < c PROVE Limits[b] <= Left(c)
  <2>1. c # 1 /\ (b = c - 1 \/ b < c - 1)
    BY <1>1, <1>6
  <2> QED BY <1>2, <1>3, <1>4, <2>1
<1> QED BY <1>1, <1>2, <1>3, <1>5, <1>6

LEMMA BucketIsUnique ==
  ASSUME NEW v \in Nat, v < Limits[Len(Limits)]
  PROVE  /\ BucketOf(v) \in Buckets
         /\ \A b \in Buckets : Left(b) <= v /\ v < Limits[b] <=> b = BucketOf(v)
<1> DEFINE T == {b \in Buckets : v < Limits[b]}
           B == BucketOf(v)
<1>1. T \in SUBSET Nat /\ Len(Limits) \in T
  BY BucketFacts
<1>2. PICK b \in T : \A c \in T : b <= c
  BY <1>1, LeastNumber
<1>3. \A c \in 1 .. (b - 1) : Limits[c] <= v
  <2> TAKE c \in 1 .. (b - 1)
  <2>1. c \in Buckets /\ c < b
    BY <1>1, BucketFacts
  <2>2. c \notin T
    BY <1>1, <1>2, <2>1, BucketFacts
  <2> QED BY <2>1, <2>2, BucketFacts
<1>4. B \in Buckets /\ v < Limits[B] /\ \A c \in 1 .. (B - 1) : Limits[c] <= v
  BY <1>2, <1>3 DEF BucketOf
<1>5. Left(B) <= v
  BY <1>4, BucketFacts DEF Left
<1>6. ASSUME NEW c \in Buckets, Left(c) <= v, v < Limits[c] PROVE c = B
  <2>1. ~(c < B)
    <3>1. c < B => Limits[c] <= Left(B)
      BY <1>4, BucketFacts
    <3> QED BY <1>4, <1>5, <1>6, <3>1, BucketFacts
  <2>2. ~(B < c)
    <3>1. B < c => Limits[B] <= Left(c)
      BY <1>4, BucketFacts
    <3> QED BY <1>4, <1>6, <3>1, BucketFacts
  <2> QED BY <1>4, <2>1, <2>2, BucketFacts
<1> QED BY <1>4, <1>5, <1>6
-----------------------------------------------------------------------------
Squares(s) == [i \in DOMAIN s |-> s[i] * s[i]]

LEMMA SquaresOf ==
  ASSUME NEW s \in Seq(Nat)
  PROVE  /\ Squares(s) \in Seq(Nat) /\ Len(Squares(s)) = Len(s)
         /\ \A i \in 1 .. Len(s) : Squares(s)[i] = s[i] * s[i] /\ s[i] * s[i] \in Nat
<1>1. PICK n \in Nat : n = Len(s) /\ DOMAIN s = 1 .. n /\ \A i \in 1 .. n : s[i] \in Nat
  OBVIOUS
<1>2. \A i \in 1 .. n : s[i] * s[i] \in Nat
  BY <1>1
<1>3. PICK q : q = Squares(s)
  OBVIOUS
<1>4. DOMAIN q = 1 .. n /\ \A i \in 1 .. n : q[i] = s[i] * s[i]
  BY <1>1, <1>3 DEF Squares
<1>5. q \in [1 .. n -> Nat]
  BY <1>1, <1>2, <1>3, <1>4 DEF Squares
<1>6. q \in Seq(Nat)
  BY <1>5, SeqDef
<1>7. Len(q) = n
  BY <1>4, <1>6
<1> QED BY <1>1, <1>2, <1>3, <1>4, <1>6, <1>7

LEMMA SquaresOfAppend ==
  ASSUME NEW s \in Seq(Nat), NEW v \in Nat
  PROVE  Squares(Append(s, v)) = Append(Squares(s), v * v)
<1>1. PICK w \in Nat : w = v * v
  OBVIOUS
<1>2. PICK u \in Seq(Nat) : u = Append(s, v)
  <2>1. Append(s, v) \in Seq(Nat)
    OBVIOUS
  <2> QED BY <2>1, Zenon
<1>3. PICK q \in Seq(Nat) : /\ q = Squares(s) /\ Len(q) = Len(s)
                            /\ \A i \in 1 .. Len(s) : q[i] = s[i] * s[i]
  BY SquaresOf
<1>4. PICK r \in Seq(Nat) : /\ r = Squares(u) /\ Len(r) = Len(u)
                            /\ \A i \in 1 .. Len(u) : r[i] = u[i] * u[i]
  BY SquaresOf
<1>5. PICK t \in Seq(Nat) : t = Append(q, w)
  <2>1. Append(q, w) \in Seq(Nat)
    OBVIOUS
  <2> QED BY <2>1, Zenon
<1>6. Len(r) = Len(s) + 1 /\ Len(t) = Len(s) + 1
  BY <1>2, <1>3, <1>4, <1>5
<1>7. \A i \in 1 .. Len(s) : u[i] = s[i] /\ t[i] = q[i]
  BY <1>2, <1>3, <1>5
<1>8. u[Len(s) + 1] = v /\ t[Len(s) + 1] = w
  BY <1>2, <1>3, <1>5
<1>9. \A i \in 1 .. Len(r) : r[i] = t[i]
  <2> TAKE i \in 1 .. Len(r)
  <2>1. CASE i = Len(s) + 1
    BY <1>1, <1>2, <1>4, <1>8, <2>1
  <2>2. CASE i \in 1 .. Len(s)
    BY <1>3, <1>4, <1>6, <1>7, <2>2
  <2> QED BY <1>6, <2>1, <2>2
<1>10. r = t
  BY <1>6, <1>9, SeqEqual
<1> QED BY <1>1, <1>2, <1>3, <1>4, <1>5, <1>10

LEMMA SquaresOfConcat ==
  ASSUME NEW s \in Seq(Nat), NEW t \in Seq(Nat)
  PROVE  Squares(s \o t) = Squares(s) \o Squares(t)
<1>1. PICK u \in Seq(Nat) : /\ u = s \o t /\ Len(u) = Len(s) + Len(t)
                            /\ \A i \in 1 .. Len(u) : u[i] = IF i <= Len(s) THEN s[i] ELSE t[i - Len(s)]
  <2>1. /\ s \o t \in Seq(Nat) /\ Len(s \o t) = Len(s) + Len(t)
        /\ \A i \in 1 .. Len(s) + Len(t) :
             (s \o t)[i] = IF i <= Len(s) THEN s[i] ELSE t[i - Len(s)]
    BY ConcatProperties
  <2> QED BY <2>1
<1>2. PICK p \in Seq(Nat) : /\ p = Squares(s) /\ Len(p) = Len(s)
                            /\ \A i \in 1 .. Len(s) : p[i] = s[i] * s[i]
  BY SquaresOf
<1>3. PICK q \in Seq(Nat) : /\ q = Squares(t) /\ Len(q) = Len(t)
                            /\ \A i \in 1 .. Len(t) : q[i] = t[i] * t[i]
  BY SquaresOf
<1>4. PICK r \in Seq(Nat) : /\ r = Squares(u) /\ Len(r) = Len(u)
                            /\ \A i \in 1 .. Len(u) : r[i] = u[i] * u[i]
  BY SquaresOf
<1>5. PICK w \in Seq(Nat) : /\ w = p \o q /\ Len(w) = Len(p) + Len(q)
                            /\ \A i \in 1 .. Len(w) : w[i] = IF i <= Len(p) THEN p[i] ELSE q[i - Len(p)]
  <2>1. /\ p \o q \in Seq(Nat) /\ Len(p \o q) = Len(p) + Len(q)
        /\ \A i \in 1 .. Len(p) + Len(q) :
             (p \o q)[i] = IF i <= Len(p) THEN p[i] ELSE q[i - Len(p)]
    BY ConcatProperties
  <2> QED BY <2>1
<1>6. Len(r) = Len(w) /\ Len(s) \in Nat /\ Len(t) \in Nat
  BY <1>1, <1>2, <1>3, <1>4, <1>5
<1>7. \A i \in 1 .. Len(r) : r[i] = w[i]
  <2> TAKE i \in 1 .. Len(r)
  <2>1. CASE i <= Len(s)
    <3>1. i \in 1 .. Len(s) /\ i \in 1 .. Len(u) /\ i \in 1 .. Len(w) /\ i <= Len(p)
      BY <1>2, <1>4, <1>6, <2>1
    <3>2. r[i] = s[i] * s[i]
      <4>1. u[i] = s[i]
        BY <1>1, <2>1, <3>1
      <4>2. r[i] = u[i] * u[i]
        BY <1>4, <3>1
      <4> QED BY <4>1, <4>2
    <3>3. w[i] = s[i] * s[i]
      <4>1. w[i] = p[i]
        BY <1>5, <3>1
      <4>2. p[i] = s[i] * s[i]
        BY <1>2, <3>1
      <4> QED BY <4>1, <4>2
    <3> QED BY <3>2, <3>3
  <2>2. CASE i > Len(s)
    <3>1. i - Len(s) \in 1 .. Len(t)
      BY <1>1, <1>4, <1>6, <2>2
    <3>2. r[i] = t[i - Len(s)] * t[i - Len(s)]
      <4>1. i \in 1 .. Len(u) /\ ~(i <= Len(s))
        BY <1>4, <1>6, <2>2
      <4>2. u[i] = t[i - Len(s)]
        BY <1>1, <4>1
      <4>3. r[i] = u[i] * u[i]
        BY <1>4, <4>1
      <4> QED BY <4>2, <4>3
    <3>3. w[i] = q[i - Len(s)]
      <4>1. i \in 1 .. Len(w) /\ ~(i <= Len(p))
        BY <1>2, <1>6, <2>2
      <4> QED BY <1>2, <1>5, <4>1
    <3> QED BY <1>3, <3>1, <3>2, <3>3
  <2> QED BY <1>6, <2>1, <2>2
<1>8. r = w
  BY <1>6, <1>7, SeqEqual
<1> QED BY <1>1, <1>2, <1>3, <1>4, <1>5, <1>8
-----------------------------------------------------------------------------
\* The smallest and the largest value of s, or what stands for them in an empty one.
IsLeast(m, s) ==
  /\ m \in Nat /\ m <= Limits[Len(Limits)] /\ \A i \in DOMAIN s : m <= s[i]
  /\ m = Limits[Len(Limits)] \/ \E i \in DOMAIN s : s[i] = m
IsMost(m, s) ==
  /\ m \in Nat /\ \A i \in DOMAIN s : s[i] <= m
  /\ m = 0 \/ \E i \in DOMAIN s : s[i] = m

\* Record a is what counting the values of s at once gives.
CountedAs(a, s) ==
  /\ s \in Seq(Values)
  /\ a.num = Len(s) /\ a.sum = SumTo(s, Len(s)) /\ a.squares = SumTo(Squares(s), Len(s))
  /\ a.buckets = [b \in Buckets |-> Between(s, Left(b), Limits[b])]
  /\ IsLeast(a.min, s) /\ IsMost(a.max, s)

Counted ==
  /\ hist = [h \in Hists |-> hist[h]] /\ added = [h \in Hists |-> added[h]]
  /\ \A h \in Hists : CountedAs(hist[h], added[h])

LEMMA ValuesAreNaturals ==
  /\ Values \subseteq Nat /\ \A v \in Values : v < Limits[Len(Limits)]
  /\ Limits[Len(Limits)] \in Nat
  /\ \A s \in Seq(Values) : s \in Seq(Nat) /\ \A i \in DOMAIN s : s[i] \in Values
<1>1. Values \subseteq Nat /\ \A v \in Values : v < Limits[Len(Limits)]
  BY HistogramAssumption
<1>2. Limits[Len(Limits)] \in Nat
  BY BucketFacts
<1>3. ASSUME NEW s \in Seq(Values) PROVE s \in Seq(Nat) /\ \A i \in DOMAIN s : s[i] \in Values
  <2>1. s \in Seq(Nat)
    BY <1>1, SeqMonotonic, Zenon
  <2> QED BY <2>1
<1> QED BY <1>1, <1>2, <1>3

LEMMA EmptyCounted == CountedAs(Empty, << >>)
<1>1. << >> \in Seq(Values) /\ << >> \in Seq(Nat) /\ Len(<< >>) = 0
  OBVIOUS
<1>2. SumTo(<< >>, 0) = 0 /\ SumTo(Squares(<< >>), 0) = 0
  BY SumToRecursion
<1>3. \A b \in Buckets : Between(<< >>, Left(b), Limits[b]) = 0
  <2> TAKE b \in Buckets
  <2>1. Places(<< >>, Left(b), Limits[b]) = {}
    BY DEF Places
  <2> QED BY <2>1, FS_EmptySet DEF Between
<1>4. IsLeast(Empty.min, << >>) /\ IsMost(Empty.max, << >>)
  BY <1>1, ValuesAreNaturals DEF IsLeast, IsMost, Empty
<1> QED BY <1>1, <1>2, <1>3, <1>4 DEF CountedAs, Empty

\* histogram_add.
LEMMA AddCounted ==
  ASSUME NEW a, NEW s, CountedAs(a, s), NEW v \in Values
  PROVE  CountedAs(With(a, v), Append(s, v))
<1> DEFINE t == Append(s, v)
<1>1. s \in Seq(Values) /\ s \in Seq(Nat) /\ v \in Nat /\ v < Limits[Len(Limits)]
  BY ValuesAreNaturals DEF CountedAs
<1>2. t \in Seq(Values) /\ t \in Seq(Nat) /\ Len(t) = Len(s) + 1
  BY <1>1
<1>3. SumTo(t, Len(t)) = a.sum + v
  BY <1>1, <1>2, SumOfAppend DEF CountedAs
<1>4. SumTo(Squares(t), Len(t)) = a.squares + v * v
  <2>1. PICK q \in Seq(Nat) : q = Squares(s) /\ Len(q) = Len(s)
    BY <1>1, SquaresOf
  <2>2. PICK w \in Nat : w = v * v
    BY <1>1
  <2>3. SumTo(Append(q, w), Len(q) + 1) = SumTo(q, Len(q)) + w
    BY SumOfAppend
  <2>4. Squares(t) = Append(q, w)
    BY <1>1, <2>1, <2>2, SquaresOfAppend
  <2> QED BY <1>2, <2>1, <2>2, <2>3, <2>4 DEF CountedAs
<1>5. [a.buckets EXCEPT ![BucketOf(v)] = @ + 1] =
        [b \in Buckets |-> Between(t, Left(b), Limits[b])]
  <2> DEFINE f == [b \in Buckets |-> Between(s, Left(b), Limits[b])]
  <2>1. ASSUME NEW b \in Buckets
        PROVE  Between(t, Left(b), Limits[b]) = IF b = BucketOf(v) THEN f[b] + 1 ELSE f[b]
    <3>1. Left(b) \in Nat /\ Limits[b] \in Nat
      BY BucketFacts
    <3>2. Between(s, Left(b), Limits[b]) \in Nat
      BY <1>1, PlacesFinite
    <3>3. Left(b) <= v /\ v < Limits[b] <=> b = BucketOf(v)
      BY <1>1, BucketIsUnique
    <3>4. Between(t, Left(b), Limits[b]) =
            Between(s, Left(b), Limits[b]) + (IF Left(b) <= v /\ v < Limits[b] THEN 1 ELSE 0)
      BY <1>1, <3>1, BetweenAppend
    <3>5. CASE b = BucketOf(v)
      BY <3>2, <3>3, <3>4, <3>5
    <3>6. CASE b # BucketOf(v)
      BY <3>2, <3>3, <3>4, <3>6
    <3> QED BY <3>5, <3>6
  <2>2. a.buckets = f
    BY DEF CountedAs
  <2> QED BY <2>1, <2>2
<1>6. IsLeast(Least(a.min, v), t) /\ IsMost(Most(a.max, v), t)
  <2>1. /\ DOMAIN t = 1 .. (Len(s) + 1) /\ DOMAIN s = 1 .. Len(s) /\ Len(s) \in Nat
        /\ t[Len(s) + 1] = v /\ \A i \in 1 .. Len(s) : t[i] = s[i] /\ s[i] \in Nat
    BY <1>1
  <2> HIDE DEF t
  <2>2. \A i \in DOMAIN t : i = Len(s) + 1 \/ (i \in DOMAIN s /\ t[i] = s[i] /\ s[i] \in Nat)
    BY <2>1
  <2>3. IsLeast(a.min, s) /\ IsMost(a.max, s)
    BY DEF CountedAs
  <2>4. IsLeast(Least(a.min, v), t)
    <3>1. CASE a.min < v
      <4>1. Least(a.min, v) = a.min /\ a.min \in Nat /\ a.min <= v
        BY <1>1, <2>3, <3>1 DEF IsLeast, Least
      <4>2. \A i \in DOMAIN t : a.min <= t[i]
        BY <2>1, <2>2, <2>3, <4>1 DEF IsLeast
      <4>3. a.min = Limits[Len(Limits)] \/ \E i \in DOMAIN t : t[i] = a.min
        BY <2>1, <2>3 DEF IsLeast
      <4> QED BY <2>3, <4>1, <4>2, <4>3 DEF IsLeast
    <3>2. CASE ~(a.min < v)
      <4>1. Least(a.min, v) = v /\ v <= a.min /\ a.min \in Nat
        BY <1>1, <2>3, <3>2 DEF IsLeast, Least
      <4>2. \A i \in DOMAIN t : v <= t[i]
        BY <1>1, <2>1, <2>2, <2>3, <4>1 DEF IsLeast
      <4>3. \E i \in DOMAIN t : t[i] = v
        BY <2>1
      <4>4. v <= Limits[Len(Limits)]
        BY <1>1, ValuesAreNaturals
      <4> QED BY <1>1, <4>1, <4>2, <4>3, <4>4 DEF IsLeast
    <3> QED BY <3>1, <3>2
  <2>5. IsMost(Most(a.max, v), t)
    <3>0. a.max \in Nat /\ \A i \in DOMAIN s : s[i] <= a.max
      BY <2>3 DEF IsMost
    <3>1. CASE a.max < v
      <4>1. Most(a.max, v) = v
        BY <3>1 DEF Most
      <4>2. \A i \in DOMAIN t : t[i] <= v
        BY <1>1, <2>1, <2>2, <3>0, <3>1
      <4>3. \E i \in DOMAIN t : t[i] = v
        BY <2>1
      <4> QED BY <1>1, <4>1, <4>2, <4>3 DEF IsMost
    <3>2. CASE ~(a.max < v)
      <4>1. Most(a.max, v) = a.max /\ v <= a.max
        BY <1>1, <3>0, <3>2 DEF Most
      <4>2. \A i \in DOMAIN t : t[i] <= a.max
        BY <2>1, <2>2, <3>0, <4>1
      <4>3. a.max = 0 \/ \E i \in DOMAIN t : t[i] = a.max
        BY <2>1, <2>3 DEF IsMost
      <4> QED BY <3>0, <4>1, <4>2, <4>3 DEF IsMost
    <3> QED BY <3>1, <3>2
  <2> QED BY <2>4, <2>5
<1>7. a.num + 1 = Len(t)
  BY <1>2 DEF CountedAs
<1> HIDE DEF t
<1> QED BY <1>2, <1>3, <1>4, <1>5, <1>6, <1>7 DEF CountedAs, With, t

\* histogram_merge.
LEMMA MergeCounted ==
  ASSUME NEW a, NEW s, CountedAs(a, s), NEW o, NEW t, CountedAs(o, t)
  PROVE  CountedAs(Merged(a, o), s \o t)
<1>1. s \in Seq(Values) /\ s \in Seq(Nat) /\ t \in Seq(Values) /\ t \in Seq(Nat)
  BY ValuesAreNaturals DEF CountedAs
<1>2. PICK u : u = s \o t
  OBVIOUS
<1>3. u \in Seq(Values) /\ Len(u) = Len(s) + Len(t) /\ Len(s) \in Nat /\ Len(t) \in Nat
  BY <1>1, <1>2
<1>4. SumTo(u, Len(u)) = a.sum + o.sum
  BY <1>1, <1>2, <1>3, SumOfConcat DEF CountedAs
<1>5. SumTo(Squares(u), Len(u)) = a.squares + o.squares
  <2>1. PICK p \in Seq(Nat) : p = Squares(s) /\ Len(p) = Len(s)
    BY <1>1, SquaresOf
  <2>2. PICK q \in Seq(Nat) : q = Squares(t) /\ Len(q) = Len(t)
    BY <1>1, SquaresOf
  <2>3. SumTo(p \o q, Len(p) + Len(q)) = SumTo(p, Len(p)) + SumTo(q, Len(q))
    BY SumOfConcat
  <2>4. Squares(u) = p \o q
    BY <1>1, <1>2, <2>1, <2>2, SquaresOfConcat
  <2> QED BY <1>3, <2>1, <2>2, <2>3, <2>4 DEF CountedAs
<1>6. [b \in Buckets |-> a.buckets[b] + o.buckets[b]] =
        [b \in Buckets |-> Between(u, Left(b), Limits[b])]
  <2>1. ASSUME NEW b \in Buckets
        PROVE  Between(u, Left(b), Limits[b]) = a.buckets[b] + o.buckets[b]
    <3>1. Left(b) \in Nat /\ Limits[b] \in Nat
      BY BucketFacts
    <3>2. Between(u, Left(b), Limits[b]) =
            Between(s, Left(b), Limits[b]) + Between(t, Left(b), Limits[b])
      BY <1>1, <1>2, <3>1, BetweenConcat
    <3> QED BY <3>2 DEF CountedAs
  <2> QED BY <2>1
<1>7. /\ \A i \in DOMAIN u : \/ \E j \in DOMAIN s : u[i] = s[j]
                             \/ \E j \in DOMAIN t : u[i] = t[j]
      /\ \A j \in DOMAIN s : s[j] \in Nat /\ \E i \in DOMAIN u : u[i] = s[j]
      /\ \A j \in DOMAIN t : t[j] \in Nat /\ \E i \in DOMAIN u : u[i] = t[j]
  <2>1. /\ DOMAIN u = 1 .. (Len(s) + Len(t)) /\ DOMAIN s = 1 .. Len(s) /\ DOMAIN t = 1 .. Len(t)
        /\ \A i \in 1 .. Len(s) : u[i] = s[i] /\ s[i] \in Nat
        /\ \A i \in 1 .. Len(t) : u[Len(s) + i] = t[i] /\ t[i] \in Nat
    BY <1>1, <1>2, <1>3
  <2>2. ASSUME NEW i \in DOMAIN u
        PROVE  (\E j \in DOMAIN s : u[i] = s[j]) \/ \E j \in DOMAIN t : u[i] = t[j]
    <3>1. CASE i <= Len(s)
      BY <1>3, <2>1, <3>1
    <3>2. CASE ~(i <= Len(s))
      <4>1. i - Len(s) \in 1 .. Len(t) /\ i = Len(s) + (i - Len(s))
        BY <1>3, <2>1, <3>2
      <4> QED BY <2>1, <4>1
    <3> QED BY <3>1, <3>2
  <2>3. ASSUME NEW j \in DOMAIN s PROVE s[j] \in Nat /\ \E i \in DOMAIN u : u[i] = s[j]
    BY <1>3, <2>1
  <2>4. ASSUME NEW j \in DOMAIN t PROVE t[j] \in Nat /\ \E i \in DOMAIN u : u[i] = t[j]
    <3>1. Len(s) + j \in DOMAIN u
      BY <1>3, <2>1
    <3> QED BY <2>1, <3>1
  <2> QED BY <2>2, <2>3, <2>4
<1>8. IsLeast(Merged(a, o).min, u)
  <2>1. IsLeast(a.min, s) /\ IsLeast(o.min, t) /\ Merged(a, o).min = Least(a.min, o.min)
    BY DEF CountedAs, Merged
  <2>2. /\ a.min \in Nat /\ a.min <= Limits[Len(Limits)] /\ \A j \in DOMAIN s : a.min <= s[j]
        /\ o.min \in Nat /\ o.min <= Limits[Len(Limits)] /\ \A j \in DOMAIN t : o.min <= t[j]
    BY <2>1 DEF IsLeast
  <2>3. PICK m \in {a.min, o.min} : m = Merged(a, o).min /\ m <= a.min /\ m <= o.min
    BY <2>1, <2>2 DEF Least
  <2>4. \A i \in DOMAIN u : m <= u[i]
    <3> TAKE i \in DOMAIN u
    <3>1. ASSUME NEW j \in DOMAIN s, u[i] = s[j] PROVE m <= u[i]
      BY <1>7, <2>2, <2>3, <3>1
    <3>2. ASSUME NEW j \in DOMAIN t, u[i] = t[j] PROVE m <= u[i]
      BY <1>7, <2>2, <2>3, <3>2
    <3> QED BY <1>7, <3>1, <3>2
  <2>5. m = Limits[Len(Limits)] \/ \E i \in DOMAIN u : u[i] = m
    <3>1. CASE m = a.min
      BY <1>7, <2>1, <3>1 DEF IsLeast
    <3>2. CASE m = o.min
      BY <1>7, <2>1, <3>2 DEF IsLeast
    <3> QED BY <3>1, <3>2
  <2> QED BY <2>2, <2>3, <2>4, <2>5 DEF IsLeast
<1>9. IsMost(Merged(a, o).max, u)
  <2>1. IsMost(a.max, s) /\ IsMost(o.max, t) /\ Merged(a, o).max = Most(a.max, o.max)
    BY DEF CountedAs, Merged
  <2>2. /\ a.max \in Nat /\ \A j \in DOMAIN s : s[j] <= a.max
        /\ o.max \in Nat /\ \A j \in DOMAIN t : t[j] <= o.max
    BY <2>1 DEF IsMost
  <2>3. PICK m \in {a.max, o.max} : m = Merged(a, o).max /\ a.max <= m /\ o.max <= m
    BY <2>1, <2>2 DEF Most
  <2>4. \A i \in DOMAIN u : u[i] <= m
    <3> TAKE i \in DOMAIN u
    <3>1. ASSUME NEW j \in DOMAIN s, u[i] = s[j] PROVE u[i] <= m
      BY <1>7, <2>2, <2>3, <3>1
    <3>2. ASSUME NEW j \in DOMAIN t, u[i] = t[j] PROVE u[i] <= m
      BY <1>7, <2>2, <2>3, <3>2
    <3> QED BY <1>7, <3>1, <3>2
  <2>5. m = 0 \/ \E i \in DOMAIN u : u[i] = m
    <3>1. CASE m = a.max
      BY <1>7, <2>1, <3>1 DEF IsMost
    <3>2. CASE m = o.max
      BY <1>7, <2>1, <3>2 DEF IsMost
    <3> QED BY <3>1, <3>2
  <2> QED BY <2>2, <2>3, <2>4, <2>5 DEF IsMost
<1>10. /\ Merged(a, o).num = Len(u) /\ Merged(a, o).sum = a.sum + o.sum
       /\ Merged(a, o).squares = a.squares + o.squares
       /\ Merged(a, o).buckets = [b \in Buckets |-> a.buckets[b] + o.buckets[b]]
  BY <1>3 DEF CountedAs, Merged
<1> QED BY <1>2, <1>3, <1>4, <1>5, <1>6, <1>8, <1>9, <1>10 DEF CountedAs

LEMMA InitCounted == HistInit => Counted
BY EmptyCounted DEF HistInit, Counted

LEMMA StepCounted == Counted /\ [HistStep \/ HistogramToString]_histVars => Counted'
<1> SUFFICES ASSUME Counted, [HistStep \/ HistogramToString]_histVars PROVE Counted'
  OBVIOUS
<1>1. CASE UNCHANGED <<hist, added>>
  BY <1>1 DEF Counted
<1>2. ASSUME NEW h \in Hists, HistogramClear(h) PROVE Counted'
  BY <1>2, EmptyCounted DEF HistogramClear, Counted
<1>3. ASSUME NEW h \in Hists, NEW v \in Values, HistogramAdd(h, v) PROVE Counted'
  <2>1. CountedAs(hist'[h], added'[h])
    <3>1. CountedAs(hist[h], added[h])
      BY DEF Counted
    <3>2. hist'[h] = With(hist[h], v) /\ added'[h] = Append(added[h], v)
      BY <1>3 DEF HistogramAdd, Counted
    <3> QED BY <3>1, <3>2, AddCounted
  <2>2. /\ \A g \in Hists \ {h} : hist'[g] = hist[g] /\ added'[g] = added[g]
        /\ hist' = [g \in Hists |-> hist'[g]] /\ added' = [g \in Hists |-> added'[g]]
    BY <1>3 DEF HistogramAdd, Counted
  <2> QED BY <2>1, <2>2 DEF Counted
<1>4. ASSUME HistogramMerge PROVE Counted'
  <2>0. "hist" \in Hists /\ "other" \in Hists
    BY DEF Hists
  <2>1. CountedAs(Merged(hist["hist"], hist["other"]), added["hist"] \o added["other"])
    BY <2>0, MergeCounted DEF Counted
  <2>2. /\ hist'["hist"] = Merged(hist["hist"], hist["other"])
        /\ added'["hist"] = added["hist"] \o added["other"]
        /\ \A g \in Hists \ {"hist"} : hist'[g] = hist[g] /\ added'[g] = added[g]
        /\ hist' = [g \in Hists |-> hist'[g]] /\ added' = [g \in Hists |-> added'[g]]
    BY <1>4, <2>0 DEF HistogramMerge, Counted
  <2> QED BY <2>1, <2>2 DEF Counted
<1> QED BY <1>1, <1>2, <1>3, <1>4 DEF HistStep, HistogramToString, histVars

LEMMA AlwaysCounted == HistSpec => []Counted
BY InitCounted, StepCounted, PTL DEF HistSpec

LEMMA CountedIsOf ==
  ASSUME NEW a, NEW s, CountedAs(a, s)
  PROVE  IsOf(a, s)
<1>1. s \in Seq(Values) /\ s \in Seq(Nat) /\ Len(s) \in Nat
  BY ValuesAreNaturals DEF CountedAs
<1>2. a.num = Len(s) /\ a.sum = SumTo(s, Len(s))
      /\ a.squares = SumTo([i \in DOMAIN s |-> s[i] * s[i]], Len(s))
  BY DEF CountedAs, Squares
<1>3. ASSUME NEW b \in Buckets
      PROVE  a.buckets[b] = Count(s, LAMBDA v : Left(b) <= v /\ v < Limits[b])
  <2>1. a.buckets[b] = Between(s, Left(b), Limits[b])
    BY DEF CountedAs
  <2> QED BY <2>1 DEF Count, Between, Places
<1>4. ASSUME s # << >>
      PROVE  /\ \E i \in DOMAIN s : s[i] = a.min /\ \A k \in DOMAIN s : a.min <= s[k]
             /\ \E i \in DOMAIN s : s[i] = a.max /\ \A k \in DOMAIN s : s[k] <= a.max
  <2>1. IsLeast(a.min, s) /\ IsMost(a.max, s)
    BY DEF CountedAs
  <2>2. 1 \in DOMAIN s /\ s[1] \in Nat /\ s[1] < Limits[Len(Limits)]
    BY <1>1, <1>4, ValuesAreNaturals
  <2>3. \E i \in DOMAIN s : s[i] = a.min
    BY <2>1, <2>2, ValuesAreNaturals DEF IsLeast
  <2>4. \E i \in DOMAIN s : s[i] = a.max
    BY <2>1, <2>2 DEF IsMost
  <2> QED BY <2>1, <2>3, <2>4 DEF IsLeast, IsMost
<1> QED BY <1>2, <1>3, <1>4 DEF IsOf

\* Adding, merging and clearing in any order leave what counting all the values
\* at once would give, for every table of limits and any number of values.
THEOREM ValuesCounted == HistSpec => []CountsValues
<1>1. Counted => CountsValues
  BY CountedIsOf DEF Counted, CountsValues
<1> QED BY <1>1, AlwaysCounted, PTL
-----------------------------------------------------------------------------
\* The running sum of percentile at bucket b is the number of values below its limit.
LEMMA RunningSum ==
  ASSUME NEW a, NEW s, CountedAs(a, s), NEW b \in Buckets
  PROVE  /\ SumTo(a.buckets, b) = Between(s, 0, Limits[b])
         /\ SumTo(a.buckets, b - 1) = Between(s, 0, Left(b))
<1> DEFINE f == a.buckets
           T == {n \in Nat : n + 1 \in Buckets => SumTo(f, n) = Between(s, 0, Left(n + 1))}
<1>0. s \in Seq(Nat)
  BY ValuesAreNaturals DEF CountedAs
<1>1. ASSUME NEW c \in Buckets, SumTo(f, c - 1) = Between(s, 0, Left(c))
      PROVE  SumTo(f, c) = Between(s, 0, Limits[c])
  <2>1. f[c] = Between(s, Left(c), Limits[c])
    BY DEF CountedAs
  <2>2. Between(s, 0, Limits[c]) = Between(s, 0, Left(c)) + Between(s, Left(c), Limits[c])
    BY <1>0, BucketFacts, BetweenSplits
  <2>3. c - 1 \in Nat /\ (c - 1) + 1 = c
    BY BucketFacts
  <2>4. SumTo(f, (c - 1) + 1) = SumTo(f, c - 1) + f[(c - 1) + 1]
    BY <2>3, SumToRecursion
  <2> QED BY <1>1, <2>1, <2>2, <2>3, <2>4
<1>2. 0 \in T
  <2>1. Left(0 + 1) = 0 /\ Between(s, 0, 0) = 0
    BY <1>0, BetweenNothing DEF Left
  <2> QED BY <2>1, SumToRecursion
<1>3. ASSUME NEW n \in Nat, n \in T PROVE n + 1 \in T
  <2> SUFFICES ASSUME (n + 1) + 1 \in Buckets
               PROVE  SumTo(f, n + 1) = Between(s, 0, Left((n + 1) + 1))
    OBVIOUS
  <2>1. n + 1 \in Buckets /\ (n + 1) - 1 = n
    BY BucketFacts
  <2>2. SumTo(f, (n + 1) - 1) = Between(s, 0, Left(n + 1))
    BY <1>3, <2>1
  <2>3. Left((n + 1) + 1) = Limits[n + 1]
    BY DEF Left
  <2> QED BY <1>1, <2>1, <2>2, <2>3
<1>4. Nat \subseteq T
  BY <1>2, <1>3, Induction
<1>5. b - 1 \in Nat /\ (b - 1) + 1 = b
  BY BucketFacts
<1>6. SumTo(f, b - 1) = Between(s, 0, Left(b))
  BY <1>4, <1>5
<1> QED BY <1>1, <1>6

LEMMA MedianOfValues ==
  ASSUME NEW s \in Seq(Values), s # << >>, NEW m, m = TrueMedian(s)
  PROVE  /\ m \in Nat /\ m \in Values /\ \E i \in DOMAIN s : s[i] = m
         /\ 2 * Between(s, 0, m + 1) >= Len(s)
         /\ 2 * Between(s, 0, m) < Len(s)
<1> DEFINE R == {s[i] : i \in DOMAIN s}
           T == {v \in R : 2 * Between(s, 0, v + 1) >= Len(s)}
<1>1. /\ s \in Seq(Nat) /\ \A i \in DOMAIN s : s[i] \in Nat /\ s[i] \in Values
      /\ DOMAIN s = 1 .. Len(s) /\ Len(s) \in Nat /\ Len(s) # 0
  BY ValuesAreNaturals
<1>2. R \in SUBSET Nat /\ R # {}
  BY <1>1
<1>3. \A v \in Nat : Between(s, 0, v) \in Nat
  BY <1>1, PlacesFinite
\* The largest value is in T.
<1>4. T # {}
  <2> DEFINE top == Limits[Len(Limits)]
             D == {d \in Nat : \E i \in DOMAIN s : d = top - s[i]}
  <2>1. top \in Nat /\ \A i \in DOMAIN s : s[i] < top /\ top - s[i] \in D
    BY <1>1, ValuesAreNaturals
  <2>2. D \in SUBSET Nat /\ D # {}
    <3>1. 1 \in DOMAIN s
      BY <1>1
    <3> QED BY <2>1, <3>1
  <2>3. PICK d \in D : \A e \in D : d <= e
    BY <2>2, LeastNumber
  <2>4. PICK j \in DOMAIN s : d = top - s[j]
    OBVIOUS
  <2>5. \A i \in DOMAIN s : s[i] < s[j] + 1
    <3> TAKE i \in DOMAIN s
    <3>1. top - s[j] <= top - s[i]
      BY <2>1, <2>3, <2>4
    <3>2. s[i] \in Nat /\ s[j] \in Nat /\ top \in Nat
      BY <1>1, <2>1
    <3> HIDE DEF top
    <3> QED BY <3>1, <3>2
  <2>6. s[j] + 1 \in Nat
    BY <1>1
  <2>7. Between(s, 0, s[j] + 1) = Len(s)
    BY <1>1, <2>5, <2>6, BetweenAll
  <2>8. s[j] \in T
    BY <1>1, <2>7
  <2> QED BY <2>8
<1>5. PICK v \in T : \A w \in T : v <= w
  BY <1>2, <1>4, LeastNumber
<1>6. v \in Nat /\ v \in R /\ 2 * Between(s, 0, v + 1) >= Len(s)
  BY <1>2
\* The largest value below v, if there is one, has less than half up to it.
<1>7. 2 * Between(s, 0, v) < Len(s)
  <2> DEFINE D == {d \in Nat : \E i \in DOMAIN s : s[i] < v /\ d = v - s[i]}
  <2>1. CASE D = {}
    <3>1. Places(s, 0, v) = {}
      <4> SUFFICES ASSUME NEW i \in DOMAIN s, s[i] < v PROVE FALSE
        BY DEF Places
      <4>1. v - s[i] \in D
        <5>1. s[i] \in Nat
          BY <1>1
        <5>2. v - s[i] \in Nat
          BY <1>6, <5>1
        <5> QED BY <5>2
      <4> QED BY <2>1, <4>1
    <3>2. Between(s, 0, v) = 0
      BY <3>1, FS_EmptySet DEF Between
    <3> QED BY <1>1, <3>2
  <2>2. CASE D # {}
    <3>1. PICK d \in D : \A e \in D : d <= e
      BY <2>2, LeastNumber
    <3>2. PICK j \in DOMAIN s : s[j] < v /\ d = v - s[j]
      OBVIOUS
    <3>3. \A i \in DOMAIN s : s[i] < v => s[i] < s[j] + 1
      <4> SUFFICES ASSUME NEW i \in DOMAIN s, s[i] < v PROVE s[i] < s[j] + 1
        OBVIOUS
      <4>1. s[i] \in Nat /\ s[j] \in Nat
        BY <1>1
      <4>2. v - s[i] \in Nat
        BY <1>6, <4>1
      <4>3. v - s[i] \in D
        BY <4>2
      <4>4. v - s[j] <= v - s[i]
        BY <3>1, <3>2, <4>3
      <4> QED BY <1>6, <4>1, <4>4
    <3>4. Places(s, 0, v) = Places(s, 0, s[j] + 1)
      <4>1. s[j] \in Nat /\ \A i \in DOMAIN s : s[i] \in Nat
        BY <1>1
      <4>2. ASSUME NEW i \in DOMAIN s PROVE s[i] < v <=> s[i] < s[j] + 1
        <5>1. s[i] \in Nat /\ s[j] \in Nat /\ v \in Nat /\ s[j] < v
          BY <1>6, <3>2, <4>1
        <5>2. s[i] < s[j] + 1 => s[i] < v
          BY <5>1
        <5> QED BY <3>3, <5>2
      <4> QED BY <4>2 DEF Places
    <3>5. s[j] \notin T
      <4>1. s[j] \in Nat
        BY <1>1
      <4> QED BY <1>5, <1>6, <3>2, <4>1
    <3>6. s[j] \in R
      OBVIOUS
    <3>7. ~(2 * Between(s, 0, s[j] + 1) >= Len(s))
      BY <3>5, <3>6
    <3>8. Between(s, 0, v) = Between(s, 0, s[j] + 1) /\ Between(s, 0, v) \in Nat
      BY <1>3, <1>6, <3>4 DEF Between
    <3>9. Len(s) \in Nat /\ Between(s, 0, s[j] + 1) \in Nat
      BY <1>1, <3>8
    <3> QED BY <3>7, <3>8, <3>9
  <2> QED BY <2>1, <2>2
<1>8. ASSUME NEW w \in R
      PROVE  /\ Cardinality({i \in DOMAIN s : s[i] <= w}) = Between(s, 0, w + 1)
             /\ Cardinality({i \in DOMAIN s : s[i] < w}) = Between(s, 0, w)
  <2>1. w \in Nat
    BY <1>2
  <2>2. {i \in DOMAIN s : s[i] <= w} = Places(s, 0, w + 1)
    BY <1>1, <2>1 DEF Places
  <2>3. {i \in DOMAIN s : s[i] < w} = Places(s, 0, w)
    BY <1>1, <2>1 DEF Places
  <2> QED BY <2>2, <2>3 DEF Between
<1>9. /\ m \in R /\ 2 * Cardinality({i \in DOMAIN s : s[i] <= m}) >= Len(s)
      /\ 2 * Cardinality({i \in DOMAIN s : s[i] < m}) < Len(s)
  <2>1. \E w \in R : /\ 2 * Cardinality({i \in DOMAIN s : s[i] <= w}) >= Len(s)
                     /\ 2 * Cardinality({i \in DOMAIN s : s[i] < w}) < Len(s)
    BY <1>6, <1>7, <1>8
  <2>2. m = CHOOSE w \in R : /\ 2 * Cardinality({i \in DOMAIN s : s[i] <= w}) >= Len(s)
                            /\ 2 * Cardinality({i \in DOMAIN s : s[i] < w}) < Len(s)
    BY DEF TrueMedian, Count
  <2> HIDE DEF R
  <2> QED BY <2>1, <2>2
<1>10. 2 * Between(s, 0, m + 1) >= Len(s) /\ 2 * Between(s, 0, m) < Len(s)
  BY <1>8, <1>9
<1> QED BY <1>1, <1>9, <1>10
-----------------------------------------------------------------------------
LEMMA BetweenGrows ==
  ASSUME NEW s \in Seq(Nat), NEW mid \in Nat, NEW hi \in Nat, mid <= hi
  PROVE  /\ Between(s, 0, mid) \in Nat /\ Between(s, 0, hi) \in Nat
         /\ Between(s, 0, mid) <= Between(s, 0, hi)
<1>1. Between(s, 0, mid) \in Nat /\ Between(s, mid, hi) \in Nat /\ Between(s, 0, hi) \in Nat
  BY PlacesFinite
<1>2. Between(s, 0, hi) = Between(s, 0, mid) + Between(s, mid, hi)
  BY BetweenSplits
<1> QED BY <1>1, <1>2

\* percentile finds the bucket of the true median, and there is a value in it.
LEMMA MedianBucketIsRight ==
  ASSUME NEW a, NEW s, CountedAs(a, s), s # << >>,
         NEW m, m = TrueMedian(s), NEW b, b = BucketOf(m)
  PROVE  /\ b \in Buckets /\ MedianBucket(a) = b
         /\ Left(b) <= m /\ m < Limits[b]
         /\ a.num \in Nat /\ SumTo(a.buckets, b - 1) \in Nat /\ a.buckets[b] \in Nat
         /\ 2 * SumTo(a.buckets, b - 1) < a.num
         /\ 2 * (SumTo(a.buckets, b - 1) + a.buckets[b]) >= a.num
<1> DEFINE S(c) == SumTo(a.buckets, c)
<1>1. s \in Seq(Values) /\ s \in Seq(Nat) /\ a.num = Len(s) /\ a.num \in Nat
  BY ValuesAreNaturals DEF CountedAs
<1>2. /\ m \in Nat /\ m < Limits[Len(Limits)]
      /\ 2 * Between(s, 0, m + 1) >= Len(s) /\ 2 * Between(s, 0, m) < Len(s)
  BY <1>1, MedianOfValues, ValuesAreNaturals
<1>3. b \in Buckets /\ Left(b) <= m /\ m < Limits[b]
  BY <1>2, BucketIsUnique
<1>4. /\ Limits[b] \in Nat /\ Left(b) \in Nat /\ m + 1 \in Nat /\ m + 1 <= Limits[b]
      /\ Left(b) <= Limits[b]
  BY <1>2, <1>3, BucketFacts
<1>5. S(b) \in Nat /\ 2 * S(b) >= a.num
  <2>1. S(b) = Between(s, 0, Limits[b])
    BY <1>3, RunningSum
  <2>2. /\ Between(s, 0, m + 1) \in Nat /\ Between(s, 0, Limits[b]) \in Nat
        /\ Between(s, 0, m + 1) <= Between(s, 0, Limits[b])
    BY <1>1, <1>4, BetweenGrows
  <2> QED BY <1>1, <1>2, <2>1, <2>2
\* Whatever ends at or before the median holds less than half of the values.
<1>6. ASSUME NEW hi \in Nat, hi <= m
      PROVE  Between(s, 0, hi) \in Nat /\ 2 * Between(s, 0, hi) < a.num
  <2>1. /\ Between(s, 0, hi) \in Nat /\ Between(s, 0, m) \in Nat
        /\ Between(s, 0, hi) <= Between(s, 0, m)
    BY <1>1, <1>2, <1>6, BetweenGrows
  <2> QED BY <1>1, <1>2, <2>1
<1>7. ASSUME NEW c \in 1 .. (b - 1) PROVE S(c) \in Nat /\ 2 * S(c) < a.num
  <2>1. c \in Buckets /\ c < b
    BY <1>3, BucketFacts
  <2>2. Limits[c] \in Nat /\ Limits[c] <= m
    <3>1. Limits[c] \in Nat /\ Limits[c] <= Left(b)
      BY <1>3, <2>1, BucketFacts
    <3> QED BY <1>2, <1>3, <1>4, <3>1
  <2>3. S(c) = Between(s, 0, Limits[c])
    BY <2>1, RunningSum
  <2> QED BY <1>6, <2>2, <2>3
<1>8. S(b - 1) \in Nat /\ 2 * S(b - 1) < a.num
  <2>1. S(b - 1) = Between(s, 0, Left(b))
    BY <1>3, RunningSum
  <2> QED BY <1>3, <1>4, <1>6, <2>1
<1>9. a.buckets[b] \in Nat /\ S(b) = S(b - 1) + a.buckets[b]
  <2>1. a.buckets[b] = Between(s, Left(b), Limits[b])
    BY <1>3 DEF CountedAs
  <2>2. Between(s, 0, Limits[b]) = Between(s, 0, Left(b)) + Between(s, Left(b), Limits[b])
    BY <1>1, <1>4, BetweenSplits
  <2>3. S(b) = Between(s, 0, Limits[b]) /\ S(b - 1) = Between(s, 0, Left(b))
    BY <1>3, RunningSum
  <2>4. Between(s, Left(b), Limits[b]) \in Nat
    BY <1>1, PlacesFinite
  <2> QED BY <2>1, <2>2, <2>3, <2>4
<1>10. MedianBucket(a) = b
  <2> DEFINE M == MedianBucket(a)
             IsM(c) == 2 * S(c) >= a.num /\ \A d \in 1 .. (c - 1) : 2 * S(d) < a.num
  <2>1. IsM(b)
    BY <1>5, <1>7
  <2>2. M = CHOOSE c \in Buckets : IsM(c)
    BY DEF MedianBucket
  <2>3. M \in Buckets /\ IsM(M)
    <3> HIDE DEF IsM, M
    <3> QED BY <1>3, <2>1, <2>2
  <2>4. M \in Nat /\ b \in Nat /\ 1 <= M /\ 1 <= b
    <3> HIDE DEF M
    <3> QED BY <1>3, <2>3, BucketFacts
  <2>5. ~(M < b)
    <3>1. M < b => M \in 1 .. (b - 1)
      BY <2>4
    <3>2. M < b => S(M) \in Nat /\ 2 * S(M) < a.num
      BY <1>7, <3>1
    <3>3. 2 * S(M) >= a.num
      BY <2>3
    <3> HIDE DEF S, M
    <3> QED BY <1>1, <3>2, <3>3
  <2>6. ~(b < M)
    <3>1. b < M => b \in 1 .. (M - 1)
      BY <2>4
    <3>2. b < M => 2 * S(b) < a.num
      BY <2>3, <3>1
    <3> HIDE DEF S, M
    <3> QED BY <1>1, <1>5, <3>2
  <2>7. M = b
    <3> HIDE DEF M
    <3> QED BY <2>4, <2>5, <2>6
  <2> QED BY <2>7
<1> QED BY <1>1, <1>3, <1>5, <1>8, <1>9, <1>10

LEMMA TimesGrows ==
  ASSUME NEW x \in Nat, NEW y \in Nat, NEW z \in Nat, x <= y
  PROVE  x * z \in Nat /\ y * z \in Nat /\ x * z <= y * z
<1>1. PICK d \in Nat : y = x + d
  <2>1. y - x \in Nat /\ y = x + (y - x)
    OBVIOUS
  <2> QED BY <2>1
<1>2. x * z \in Nat /\ d * z \in Nat
  OBVIOUS
<1>3. y * z = x * z + d * z
  BY <1>1
<1> QED BY <1>2, <1>3

\* The interpolation stays within the bucket from l to u, 0 < e being the part of
\* the threshold that falls into it.
LEMMA WithinBucket ==
  ASSUME NEW l \in Nat, NEW u \in Nat, l <= u, NEW e \in Nat, NEW den \in Nat, e <= den,
         NEW num, num = l * den + (u - l) * e
  PROVE  num \in Nat /\ l * den <= num /\ num <= u * den
<1>1. u - l \in Nat
  OBVIOUS
<1>2. PICK w \in Nat : w = u - l
  BY <1>1
<1>3. l * den \in Nat /\ w * e \in Nat /\ w * den \in Nat /\ u * den \in Nat
  OBVIOUS
<1>4. w * e <= w * den
  <2>1. e * w <= den * w
    BY TimesGrows
  <2>2. e * w = w * e /\ den * w = w * den
    OBVIOUS
  <2> QED BY <2>1, <2>2
<1>5. u * den = l * den + w * den
  <2>1. u = l + w
    BY <1>2
  <2> QED BY <2>1
<1>6. num = l * den + w * e
  BY <1>2
<1> QED BY <1>3, <1>4, <1>5, <1>6

LEMMA NearMedian ==
  ASSUME NEW a, NEW s, CountedAs(a, s), s # << >>,
         NEW m, m = TrueMedian(s), NEW b, b = BucketOf(m), NEW r, r = Median(a)
  PROVE  /\ r.den > 0
         /\ a.min * r.den <= r.num /\ r.num <= a.max * r.den
         /\ Left(b) * r.den <= r.num /\ r.num <= Limits[b] * r.den
<1> DEFINE den == 2 * a.buckets[b]
           e == a.num - 2 * SumTo(a.buckets, b - 1)
           num == Left(b) * den + (Limits[b] - Left(b)) * e
<1>1. /\ b \in Buckets /\ MedianBucket(a) = b /\ Left(b) <= m /\ m < Limits[b]
      /\ a.num \in Nat /\ SumTo(a.buckets, b - 1) \in Nat /\ a.buckets[b] \in Nat
      /\ 2 * SumTo(a.buckets, b - 1) < a.num
      /\ 2 * (SumTo(a.buckets, b - 1) + a.buckets[b]) >= a.num
  BY MedianBucketIsRight
<1>2. den \in Nat /\ e \in Nat /\ 0 < e /\ e <= den
  BY <1>1
<1>3. Left(b) \in Nat /\ Limits[b] \in Nat /\ Left(b) <= Limits[b]
  BY <1>1, BucketFacts
<1>4. /\ a.min \in Nat /\ a.max \in Nat /\ m \in Nat /\ a.min <= m /\ m <= a.max
  <2>1. s \in Seq(Values) /\ IsLeast(a.min, s) /\ IsMost(a.max, s)
    BY DEF CountedAs
  <2>2. m \in Nat /\ \E i \in DOMAIN s : s[i] = m
    BY <2>1, MedianOfValues
  <2> QED BY <2>1, <2>2 DEF IsLeast, IsMost
<1>5. /\ r.den = den
      /\ r.num = (IF num < a.min * den THEN a.min * den
                  ELSE IF num > a.max * den THEN a.max * den ELSE num)
  BY <1>1 DEF Median
<1> HIDE DEF den, e
<1>6. num \in Nat /\ Left(b) * den <= num /\ num <= Limits[b] * den
  BY <1>2, <1>3, WithinBucket
<1>7. /\ a.min * den \in Nat /\ a.max * den \in Nat /\ a.min * den <= a.max * den
      /\ Left(b) * den \in Nat /\ Left(b) * den <= a.max * den
      /\ Limits[b] * den \in Nat /\ a.min * den <= Limits[b] * den
  <2>1. a.min <= a.max /\ Left(b) <= a.max /\ a.min <= Limits[b]
    BY <1>1, <1>3, <1>4
  <2> QED BY <1>2, <1>3, <1>4, <2>1, TimesGrows
<1>8. den > 0
  BY <1>2
<1> HIDE DEF num
<1> QED BY <1>5, <1>6, <1>7, <1>8

\* The printed median is never a division by zero, lies between the smallest and the
\* largest value, and in the bucket of the true median, for every table of limits.
THEOREM MedianNear == HistSpec => []MedianIsNear
<1>1. Counted => MedianIsNear
  BY NearMedian DEF Counted, MedianIsNear
<1> QED BY <1>1, AlwaysCounted, PTL
-----------------------------------------------------------------------------
\* The text is within its block, and the two lines in front leave room for the dashes,
\* whose own check looks at the line before them.
TextInv ==
  /\ text.at \in Nat /\ text.len \in Nat /\ text.size \in Nat
  /\ FirstSize <= text.size /\ text.len <= text.size
  /\ text.at = 0 => text.len = 0
  /\ text.at = 1 => text.len \in Lines
  /\ text.at = 2 => text.line \in Lines /\ \E a, b \in Lines : text.len = a + b
  /\ text = [at |-> text.at, len |-> text.len, size |-> text.size, line |-> text.line]

\* One string that is no longer than the block and the test in front of it.
LEMMA GrownFits ==
  ASSUME TextInv, NEW more \in Nat
  PROVE  Grown(more) \in Nat /\ text.size <= Grown(more)
BY DEF TextInv, Grown

LEMMA LinesFit ==
  /\ FirstSize \in Nat /\ DashesLen \in Nat /\ Lines \subseteq Nat /\ Marks \subseteq Nat
  /\ \A a, b \in Lines : a + b + DashesLen <= FirstSize
  /\ \A a \in Lines : a <= FirstSize
  /\ \A k \in Marks : k + 1 <= FirstSize
<1>1. /\ FirstSize \in Nat /\ DashesLen \in Nat /\ Lines \subseteq Nat /\ Marks \subseteq Nat
      /\ \A a, b \in Lines : a + b + DashesLen <= FirstSize
      /\ \A k \in Marks : k + 1 <= FirstSize
  BY HistogramAssumption, TextAssumption
<1>2. ASSUME NEW a \in Lines PROVE a <= FirstSize
  <2>1. a \in Nat /\ a + a + DashesLen <= FirstSize
    BY <1>1
  <2> QED BY <1>1, <2>1
<1> QED BY <1>1, <1>2

LEMMA ShownKeeps ==
  ASSUME TextInv, NEW more \in Nat, more <= FirstSize, Shown(more), text.at # 2,
         text.at < 2 => more \in Lines
  PROVE  TextInv'
<1>1. /\ text.at \in Nat /\ text.len \in Nat /\ text.size \in Nat
      /\ FirstSize <= text.size /\ text.len <= text.size /\ FirstSize \in Nat
  BY LinesFit DEF TextInv
<1>2. text' = [at |-> text.at + 1, len |-> text.len + more, size |-> Grown(more), line |-> more]
  BY DEF Shown
<1>3. Grown(more) \in Nat /\ text.size <= Grown(more) /\ text.len + more <= Grown(more)
  BY <1>1 DEF Grown
<1>4. text.at = 0 => text.len + more \in Lines
  BY <1>1 DEF TextInv
<1>5. text.at = 1 => more \in Lines /\ \E a, b \in Lines : text.len + more = a + b
  BY <1>1 DEF TextInv
<1> QED BY <1>1, <1>2, <1>3, <1>4, <1>5 DEF TextInv

LEMMA TextStep == TextInv /\ [HistStep \/ HistogramToString]_histVars => TextInv'
<1> SUFFICES ASSUME TextInv, [HistStep \/ HistogramToString]_histVars PROVE TextInv'
  OBVIOUS
<1>1. CASE UNCHANGED text
  BY <1>1 DEF TextInv
<1>2. CASE PrintLine
  <2>1. PICK line \in Lines : Shown(line)
    BY <1>2 DEF PrintLine
  <2>2. text.at # 2 /\ line \in Nat /\ line <= FirstSize
    BY <1>2, LinesFit DEF PrintLine
  <2> QED BY <2>1, <2>2, ShownKeeps
<1>3. CASE PrintMarks
  <2>1. PICK marks \in Marks : Shown(marks + 1)
    BY <1>3 DEF PrintMarks
  <2>2. marks + 1 \in Nat /\ marks + 1 <= FirstSize
    BY LinesFit
  <2>3. text.at # 2 /\ ~(text.at < 2)
    BY <1>3 DEF PrintMarks, TextInv
  <2> QED BY <2>1, <2>2, <2>3, ShownKeeps
\* The dashes: all there is before them is two lines.
<1>4. CASE PrintDashes
  <2>1. text.line \in Lines /\ \E a, b \in Lines : text.len = a + b
    BY <1>4 DEF PrintDashes, TextInv
  <2>2. text.len + DashesLen \in Nat /\ text.len + DashesLen <= FirstSize
    BY <2>1, LinesFit
  <2>3. Grown(text.line) \in Nat /\ text.size <= Grown(text.line)
    BY <2>1, LinesFit, GrownFits
  <2>4. text' = [at |-> 3, len |-> text.len + DashesLen, size |-> Grown(text.line),
                 line |-> text.line]
    BY <1>4 DEF PrintDashes, TextInv
  <2>5. FirstSize \in Nat /\ text.size \in Nat /\ FirstSize <= text.size
    BY LinesFit DEF TextInv
  <2> QED BY <2>2, <2>3, <2>4, <2>5 DEF TextInv
<1> QED BY <1>1, <1>2, <1>3, <1>4
        DEF HistStep, HistogramToString, histVars, HistogramClear, HistogramAdd, HistogramMerge

\* For any lengths of lines the assumption allows, the printed text is never longer
\* than its block, the dashes included, for which the check is the previous line's.
THEOREM TextAlwaysFits == HistSpec => []TextFits
<1>1. HistInit => TextInv
  BY LinesFit DEF HistInit, TextInv
<1>2. TextInv => TextFits
  BY DEF TextInv, TextFits
<1> QED BY <1>1, <1>2, TextStep, PTL DEF HistSpec
=============================================================================
