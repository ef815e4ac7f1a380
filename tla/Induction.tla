------------------------------ MODULE Induction ------------------------------
(***************************************************************************)
(* Induction without an operator for the induction hypothesis: over the    *)
(* set of numbers it holds for.  What a recursive function of the other    *)
(* modules computes is proved with it, as what Max, Min and FlattenSeq of  *)
(* the community modules are.                                              *)
(***************************************************************************)
EXTENDS Integers, Sequences, SequencesExt, WellFoundedInduction, TLAPS

\* A set of numbers with 0 in it, and with n + 1 whenever n is, has them all.
LEMMA NatSetInduction ==
  ASSUME NEW S, 0 \in S, \A n \in Nat : n \in S => n + 1 \in S
  PROVE  \A n \in Nat : n \in S
<1> DEFINE R == {ss \in Nat \X Nat : ss[1] < ss[2]}
           T == {n \in Nat : n \notin S}
<1> SUFFICES ASSUME T # {} PROVE FALSE
  OBVIOUS
<1>1. IsWellFoundedOn(R, Nat)
  BY NatLessThanWellFounded DEF OpToRel
<1>2. T \subseteq Nat
  OBVIOUS
<1>3. \E x \in T : \A y \in T : ~(<<y, x>> \in R)
  <2> HIDE DEF R, T
  <2> QED
    BY <1>1, <1>2, WFMin
<1>4. PICK x \in T : \A y \in T : ~(y < x)
  BY <1>3
<1>5. x \in Nat /\ x # 0 /\ x - 1 \notin T /\ x - 1 \in Nat
  BY <1>4
<1> QED
  BY <1>5

-----------------------------------------------------------------------------
(* Sets of positions *)

\* A set of positions has a first and a last one.
LEMMA FirstAndLast ==
  ASSUME NEW n \in Nat, NEW s \in SUBSET (1..n), s # {}
  PROVE  /\ Max(s) \in s /\ \A y \in s : y <= Max(s)
         /\ Min(s) \in s /\ \A y \in s : Min(s) <= y
<1> DEFINE P(k) == \A t \in SUBSET (1..k) : t # {} =>
                     /\ \E x \in t : \A y \in t : x >= y
                     /\ \E x \in t : \A y \in t : x =< y
           S == {k \in Nat : P(k)}
<1>1. 0 \in S
  <2>1. 1..0 = {}
    OBVIOUS
  <2>2. \A t \in SUBSET (1..0) : t = {}
    BY <2>1
  <2> QED
    BY <2>2
<1>2. ASSUME NEW k \in Nat, k \in S PROVE k + 1 \in S
  <2>1. P(k)
    BY <1>2
  <2>2. ASSUME NEW t \in SUBSET (1..k + 1), t # {}
        PROVE  /\ \E x \in t : \A y \in t : x >= y
               /\ \E x \in t : \A y \in t : x =< y
    <3>1. CASE k + 1 \in t /\ t \ {k + 1} = {}
      BY <3>1
    <3>2. CASE k + 1 \in t /\ t \ {k + 1} # {}
      <4>1. t \ {k + 1} \in SUBSET (1..k)
        OBVIOUS
      <4>2. PICK x \in t \ {k + 1} : \A y \in t \ {k + 1} : x =< y
        BY <2>1, <3>2, <4>1
      <4>3. \A y \in t : x =< y /\ k + 1 >= y
        BY <4>2, <4>1
      <4> QED
        BY <3>2, <4>2, <4>3
    <3>3. CASE k + 1 \notin t
      <4>1. t \in SUBSET (1..k)
        BY <3>3
      <4> QED
        BY <2>1, <2>2, <4>1
    <3> QED
      BY <3>1, <3>2, <3>3
  <2> QED
    BY <2>2
<1>3. n \in S
  <2> HIDE DEF S
  <2> QED
    BY <1>1, <1>2, NatSetInduction
<1>4. (\E x \in s : \A y \in s : x >= y) /\ \E x \in s : \A y \in s : x =< y
  BY <1>3
<1>5. Max(s) \in s /\ (\A y \in s : Max(s) >= y)
  BY <1>4 DEF Max
<1>6. Min(s) \in s /\ (\A y \in s : Min(s) =< y)
  BY <1>4 DEF Min
<1> QED
  BY <1>5, <1>6

\* Without its last position a set is one of fewer positions.
LEMMA WithoutLast ==
  ASSUME NEW n \in Nat, NEW s \in SUBSET (1..n + 1), s # {}
  PROVE  Max(s) \in s /\ s \ {Max(s)} \in SUBSET (1..n)
<1>1. Max(s) \in s /\ \A y \in s : y <= Max(s)
  <2>1. n + 1 \in Nat
    OBVIOUS
  <2> QED
    BY <2>1, FirstAndLast
<1>2. ASSUME NEW y \in s \ {Max(s)} PROVE y \in 1..n
  <2>1. y \in 1..n + 1 /\ y <= Max(s) /\ y # Max(s)
    BY <1>1
  <2>2. Max(s) \in 1..n + 1
    BY <1>1
  <2>3. y \in Int /\ 1 <= y /\ y < n + 1
    BY <2>1, <2>2
  <2> QED
    BY <2>3
<1>3. s \ {Max(s)} \subseteq 1..n
  BY <1>2
<1> QED
  BY <1>1, <1>3

\* What is in a set and not before any other of it is its last position.
LEMMA LastIs ==
  ASSUME NEW n \in Nat, NEW s \in SUBSET (1..n), NEW x \in s, \A y \in s : y <= x
  PROVE  Max(s) = x
<1>1. Max(s) \in s /\ x <= Max(s)
  BY FirstAndLast
<1>2. Max(s) <= x
  BY <1>1
<1>3. Max(s) \in 1..n /\ x \in 1..n
  BY <1>1
<1> QED
  BY <1>1, <1>2, <1>3

-----------------------------------------------------------------------------
(* Prefixes *)

\* A prefix, element by element.
LEMMA PrefixIs ==
  ASSUME NEW S, NEW s \in Seq(S), NEW t \in Seq(S)
  PROVE  IsPrefix(s, t) <=> Len(s) <= Len(t) /\ \A i \in 1..Len(s) : s[i] = t[i]
<1>1. Len(s) \in Nat /\ Len(t) \in Nat
  OBVIOUS
<1>2. SubSeq(s, 1, Len(s)) = s
  OBVIOUS
<1>3. ASSUME Len(s) <= Len(t) PROVE SubSeq(t, 1, Len(s)) = s <=> \A i \in 1..Len(s) : s[i] = t[i]
  <2>1. /\ SubSeq(t, 1, Len(s)) \in Seq(S)
        /\ Len(SubSeq(t, 1, Len(s))) = Len(s)
        /\ \A i \in 1..Len(s) : SubSeq(t, 1, Len(s))[i] = t[i]
    BY <1>1, <1>3
  <2> QED
    BY <1>1, <2>1
<1> QED
  BY <1>2, <1>3 DEF IsPrefix

\* A prefix that is not shorter is the whole.
LEMMA WholePrefix ==
  ASSUME NEW S, NEW s \in Seq(S), NEW t \in Seq(S), IsPrefix(s, t), ~(Len(s) < Len(t))
  PROVE  s = t
<1>1. Len(s) <= Len(t) /\ \A i \in 1..Len(s) : s[i] = t[i]
  BY PrefixIs
<1>2. Len(s) = Len(t)
  BY <1>1
<1> QED
  BY <1>1, <1>2

\* The next element makes a longer prefix.
LEMMA NextOfPrefix ==
  ASSUME NEW S, NEW s \in Seq(S), NEW t \in Seq(S), IsPrefix(s, t), Len(s) < Len(t)
  PROVE  Append(s, t[Len(s) + 1]) \in Seq(S) /\ IsPrefix(Append(s, t[Len(s) + 1]), t)
<1> DEFINE n == Len(s) + 1
           u == Append(s, t[n])
<1>1. Len(s) <= Len(t) /\ \A i \in 1..Len(s) : s[i] = t[i]
  BY PrefixIs
<1>2. n \in 1..Len(t) /\ t[n] \in S
  <2>1. Len(s) \in Nat /\ Len(t) \in Nat /\ Len(s) < Len(t)
    OBVIOUS
  <2>2. n \in 1..Len(t)
    BY <2>1
  <2> QED
    BY <2>2
<1>3. u \in Seq(S) /\ Len(u) = n /\ u[n] = t[n] /\ \A i \in 1..Len(s) : u[i] = s[i]
  BY <1>2
<1>4. \A i \in 1..n : u[i] = t[i]
  BY <1>1, <1>3
<1>5. n <= Len(t)
  BY <1>2
<1> HIDE DEF u, n
<1>6. Len(u) <= Len(t) /\ \A i \in 1..Len(u) : u[i] = t[i]
  BY <1>3, <1>4, <1>5
<1>7. IsPrefix(u, t)
  BY ONLY <1>3, <1>6, t \in Seq(S), PrefixIs
<1> QED
  BY <1>3, <1>7 DEF u, n

\* The empty sequence is a prefix of every one.
LEMMA EmptyPrefix ==
  ASSUME NEW S, NEW t \in Seq(S)
  PROVE  << >> \in Seq(S) /\ IsPrefix(<< >>, t)
<1> DEFINE e == << >>
<1>1. e \in Seq(S) /\ Len(e) = 0
  OBVIOUS
<1>2. Len(t) \in Nat
  OBVIOUS
<1> HIDE DEF e
<1>3. Len(e) <= Len(t) /\ \A i \in 1..Len(e) : e[i] = t[i]
  BY <1>1, <1>2
<1>4. IsPrefix(e, t)
  BY ONLY <1>1, <1>3, t \in Seq(S), PrefixIs
<1> QED
  BY <1>1, <1>4 DEF e

-----------------------------------------------------------------------------
(* FlattenSeq() *)

\* Where the elements of a concatenation come from.
LEMMA ConcatIs ==
  ASSUME NEW T, NEW s \in Seq(T), NEW t \in Seq(T), NEW u, u = s \o t
  PROVE  /\ u \in Seq(T) /\ Len(s) \in Nat /\ Len(t) \in Nat /\ Len(u) = Len(s) + Len(t)
         /\ Len(s) <= Len(u)
         /\ \A j \in 1..Len(s) : j \in 1..Len(u) /\ u[j] = s[j]
         /\ \A j \in 1..Len(t) : Len(s) + j \in 1..Len(u) /\ u[Len(s) + j] = t[j]
  OBVIOUS

\* F holds the joints of the first m parts.
Joined(T, p, F, m) ==
  /\ F \in [0..m -> Seq(T)]
  /\ F[0] = << >>
  /\ \A k \in 0..m - 1 : F[k + 1] = F[k] \o p[k + 1]

\* There are such joints.
LEMMA JoinedExists ==
  ASSUME NEW T, NEW n \in Nat, NEW p \in [1..n -> Seq(T)]
  PROVE  \E F : Joined(T, p, F, n)
<1> DEFINE S == {m \in Nat : m <= n => \E F : Joined(T, p, F, m)}
<1>1. 0 \in S
  <2> DEFINE F == [k \in 0..0 |-> << >>]
  <2>1. Joined(T, p, F, 0)
    BY DEF Joined
  <2> QED
    BY <2>1
<1>2. ASSUME NEW m \in Nat, m \in S PROVE m + 1 \in S
  <2> SUFFICES ASSUME m + 1 <= n PROVE \E F : Joined(T, p, F, m + 1)
    OBVIOUS
  <2>0. m <= n
    OBVIOUS
  <2>1. PICK F : Joined(T, p, F, m)
    BY <1>2, <2>0
  <2> DEFINE G == [k \in 0..m + 1 |-> IF k = m + 1 THEN F[m] \o p[m + 1] ELSE F[k]]
  <2>2. F[m] \in Seq(T) /\ p[m + 1] \in Seq(T)
    BY <2>1 DEF Joined
  <2>3. F[m] \o p[m + 1] \in Seq(T)
    BY ONLY <2>2, ConcatIs
  <2>4. G \in [0..m + 1 -> Seq(T)]
    BY <2>1, <2>3 DEF Joined
  <2>5. G[0] = << >>
    BY <2>1 DEF Joined
  <2>6. ASSUME NEW k \in 0..m PROVE G[k + 1] = G[k] \o p[k + 1]
    <3>1. k \in 0..m /\ k \in 0..m + 1 /\ k # m + 1 /\ k + 1 \in 0..m + 1
      OBVIOUS
    <3>2. G[k] = F[k]
      BY <3>1
    <3>3. CASE k = m
      BY <3>1, <3>2, <3>3
    <3>4. CASE k # m
      <4>1. k \in 0..m - 1 /\ k + 1 # m + 1
        BY <3>1, <3>4
      <4>2. F[k + 1] = F[k] \o p[k + 1]
        BY <2>1, <4>1 DEF Joined
      <4> QED
        BY <3>1, <3>2, <4>1, <4>2
    <3> QED
      BY <3>3, <3>4
  <2> HIDE DEF G
  <2>7. Joined(T, p, G, m + 1)
    <3>1. \A k \in 0..(m + 1) - 1 : k \in 0..m
      OBVIOUS
    <3>2. \A k \in 0..(m + 1) - 1 : G[k + 1] = G[k] \o p[k + 1]
      BY <2>6, <3>1
    <3> QED
      BY <2>4, <2>5, <3>2 DEF Joined
  <2> QED
    BY <2>7
<1>3. n \in S
  <2> HIDE DEF S
  <2> QED
    BY <1>1, <1>2, NatSetInduction
<1> QED
  BY <1>3

\* FlattenSeq() joins the parts one after the other.
LEMMA FlattenIs ==
  ASSUME NEW T, NEW n \in Nat, n # 0, NEW p \in [1..n -> Seq(T)], NEW F, Joined(T, p, F, n)
  PROVE  FlattenSeq(p) = F[n]
<1> DEFINE Is(g) == g = [i \in 1..n |-> IF i = 1 THEN p[i] ELSE g[i - 1] \o p[i]]
           f == CHOOSE g : Is(g)
<1>1. Len(p) = n
  OBVIOUS
<1>2. FlattenSeq(p) = f[n]
  BY <1>1 DEF FlattenSeq
<1>3. \A i \in 1..n : F[i] = IF i = 1 THEN p[i] ELSE F[i - 1] \o p[i]
  <2> SUFFICES ASSUME NEW i \in 1..n PROVE F[i] = IF i = 1 THEN p[i] ELSE F[i - 1] \o p[i]
    OBVIOUS
  <2> DEFINE k == i - 1
  <2>1. k \in 0..n - 1 /\ k + 1 = i
    OBVIOUS
  <2>2. F[k + 1] = F[k] \o p[k + 1]
    BY <2>1 DEF Joined
  <2>3. F[i] = F[i - 1] \o p[i]
    BY <2>1, <2>2
  <2>4. CASE i = 1
    <3>1. F[i - 1] = << >> /\ p[i] \in Seq(T)
      BY <2>4 DEF Joined
    <3> QED
      BY <2>3, <2>4, <3>1
  <2> QED
    BY <2>3, <2>4
<1>4. Is(f)
  <2> DEFINE g == [i \in 1..n |-> F[i]]
  <2>1. ASSUME NEW i \in 1..n PROVE F[i] = IF i = 1 THEN p[i] ELSE g[i - 1] \o p[i]
    <3>1. CASE i = 1
      BY <1>3, <3>1
    <3>2. CASE i # 1
      <4>1. i - 1 \in 1..n
        BY <3>2
      <4>2. g[i - 1] = F[i - 1]
        BY <4>1
      <4> QED
        BY <1>3, <3>2, <4>2
    <3> QED
      BY <3>1, <3>2
  <2>2. Is(g)
    BY <2>1
  <2> HIDE DEF Is
  <2> QED
    BY <2>2
<1> HIDE DEF f
<1>5. \A i \in 1..n : f[i] = IF i = 1 THEN p[i] ELSE f[i - 1] \o p[i]
  BY <1>4
<1> DEFINE R == {m \in Nat : m + 1 <= n => f[m + 1] = F[m + 1]}
<1>6. 0 \in R
  <2>1. 1 <= n => 1 \in 1..n
    OBVIOUS
  <2>2. 1 <= n => f[1] = F[1]
    BY <1>3, <1>5, <2>1
  <2> QED
    BY <2>2
<1>7. ASSUME NEW m \in Nat, m \in R PROVE m + 1 \in R
  <2> DEFINE j == m + 1 + 1
  <2> SUFFICES ASSUME j <= n PROVE f[j] = F[j]
    OBVIOUS
  <2>1. j \in 1..n /\ j # 1 /\ j - 1 = m + 1 /\ m + 1 <= n
    OBVIOUS
  <2>2. f[m + 1] = F[m + 1]
    BY <1>7, <2>1
  <2> HIDE DEF j
  <2>3. f[j] = f[j - 1] \o p[j] /\ F[j] = F[j - 1] \o p[j]
    BY <1>3, <1>5, <2>1
  <2>4. f[j - 1] = F[j - 1]
    BY <2>1, <2>2
  <2> QED
    BY <2>3, <2>4
<1>8. f[n] = F[n]
  <2>1. n - 1 \in Nat /\ n - 1 + 1 = n
    OBVIOUS
  <2>2. \A m \in Nat : m \in R
    <3> HIDE DEF R
    <3> QED
      BY <1>6, <1>7, NatSetInduction
  <2>3. n - 1 \in R
    BY <2>1, <2>2
  <2>4. f[n - 1 + 1] = F[n - 1 + 1]
    BY <2>1, <2>3
  <2> QED
    BY <2>1, <2>4
<1> QED
  BY <1>2, <1>8

\* F[k] is where it was in the longer F[m].
Within(F, k, m) == Len(F[k]) <= Len(F[m]) /\ \A j \in 1..Len(F[k]) : F[m][j] = F[k][j]

\* What has been joined stays where it is.
LEMMA JoinedGrows ==
  ASSUME NEW T, NEW n \in Nat, NEW p \in [1..n -> Seq(T)], NEW F, Joined(T, p, F, n), NEW k \in 0..n
  PROVE  Within(F, k, n)
<1> DEFINE S == {d \in Nat : k + d <= n => Within(F, k, k + d)}
<1>0. k \in Nat /\ F[k] \in Seq(T) /\ Len(F[k]) \in Nat
  BY DEF Joined
<1>1. 0 \in S
  <2>1. k + 0 = k
    BY <1>0
  <2>2. Within(F, k, k)
    BY <1>0 DEF Within
  <2> QED
    BY <2>1, <2>2
<1>2. ASSUME NEW d \in Nat, d \in S PROVE d + 1 \in S
  <2> DEFINE m == k + d
  <2> SUFFICES ASSUME m + 1 <= n PROVE Within(F, k, m + 1)
    BY <1>0
  <2>1. m \in 0..n - 1 /\ m + 1 \in 0..n /\ m + 1 \in 1..n /\ m \in 0..n /\ m <= n
    BY <1>0
  <2>2. Within(F, k, m)
    BY <1>2, <2>1
  <2> HIDE DEF m
  <2>3. F[m] \in Seq(T) /\ p[m + 1] \in Seq(T)
    BY <2>1 DEF Joined
  <2>4. F[m + 1] = F[m] \o p[m + 1]
    BY <2>1 DEF Joined
  <2> DEFINE u == F[m + 1]
             v == F[m]
             w == F[k]
             q == p[m + 1]
  <2>5. w \in Seq(T) /\ v \in Seq(T) /\ q \in Seq(T) /\ u = v \o q
    BY <1>0, <2>3, <2>4
  <2>6. Len(w) <= Len(v) /\ \A j \in 1..Len(w) : v[j] = w[j]
    BY <2>2 DEF Within
  <2> HIDE DEF u, v, w, q
  <2>7. /\ Len(u) \in Nat /\ Len(v) \in Nat /\ Len(w) \in Nat /\ Len(v) <= Len(u)
        /\ \A j \in 1..Len(v) : u[j] = v[j]
    BY ONLY <2>5, ConcatIs
  <2>8. Len(w) <= Len(u) /\ \A j \in 1..Len(w) : j \in 1..Len(v)
    BY ONLY <2>6, <2>7
  <2>9. Len(w) <= Len(u) /\ \A j \in 1..Len(w) : u[j] = w[j]
    BY ONLY <2>6, <2>7, <2>8
  <2> QED
    BY <2>9 DEF Within, u, w
<1>3. \A d \in Nat : d \in S
  <2> HIDE DEF S
  <2> QED
    BY <1>1, <1>2, NatSetInduction
<1> DEFINE d == n - k
<1>4. d \in Nat /\ k + d = n
  BY <1>0
<1> HIDE DEF d
<1>5. d \in S
  BY <1>3, <1>4
<1> QED
  BY <1>4, <1>5

\* The part after the first k is where they end.
PartAt(p, F, n, k) ==
  /\ Len(F[k]) \in Nat /\ Len(p[k + 1]) \in Nat /\ Len(F[n]) \in Nat
  /\ Len(F[k + 1]) = Len(F[k]) + Len(p[k + 1])
  /\ Len(F[k + 1]) <= Len(F[n])
  /\ \A j \in 1..Len(p[k + 1]) : F[n][Len(F[k]) + j] = p[k + 1][j]

\* Each part is found behind the ones before it.
LEMMA PartsOf ==
  ASSUME NEW T, NEW n \in Nat, NEW p \in [1..n -> Seq(T)], NEW F, Joined(T, p, F, n), NEW k \in 0..n - 1
  PROVE  PartAt(p, F, n, k)
<1> DEFINE m == k + 1
<1>1. k \in 0..n /\ m \in 0..n /\ m \in 1..n /\ n \in 0..n
  OBVIOUS
<1>2. F[m] = F[k] \o p[m]
  BY DEF Joined
<1>3. Within(F, m, n)
  <2> HIDE DEF m
  <2> QED
    BY <1>1, JoinedGrows
<1> HIDE DEF m
<1>4. F[k] \in Seq(T) /\ p[m] \in Seq(T) /\ F[n] \in Seq(T)
  BY <1>1 DEF Joined
<1> DEFINE u == F[m]
           v == F[k]
           q == p[m]
           w == F[n]
<1>5. v \in Seq(T) /\ q \in Seq(T) /\ u = v \o q /\ w \in Seq(T)
  BY <1>2, <1>4
<1>6. Len(u) <= Len(w) /\ \A j \in 1..Len(u) : w[j] = u[j]
  BY <1>3 DEF Within
<1> HIDE DEF u, v, q, w
<1>7. /\ Len(v) \in Nat /\ Len(q) \in Nat /\ Len(w) \in Nat /\ Len(u) = Len(v) + Len(q)
      /\ \A j \in 1..Len(q) : Len(v) + j \in 1..Len(u) /\ u[Len(v) + j] = q[j]
  BY ONLY <1>5, ConcatIs
<1>8. \A j \in 1..Len(q) : w[Len(v) + j] = q[j]
  BY ONLY <1>6, <1>7
<1> QED
  BY <1>6, <1>7, <1>8 DEF PartAt, m, u, v, q, w

=============================================================================
