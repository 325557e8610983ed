-------------------------- MODULE SequenceKeepProofs --------------------------
(***************************************************************************)
(* What Keep returns: a sequence of elements of its argument that are in   *)
(* the set.  Keep is a recursive function on 0..Len(s); that a function    *)
(* with its equations exists, and what it satisfies, is shown by induction *)
(* in the form of SetInduction: a set of naturals with 0 and closed under  *)
(* successor is Nat.                                                       *)
(***************************************************************************)
EXTENDS SequenceKeep, WellFoundedInduction, TLAPS

(* Every nonempty set of naturals has a least element. *)
LEMMA LeastNatural ==
  ASSUME NEW T \in SUBSET Nat, T # {}
  PROVE  \E m \in T : \A k \in T : m <= k
<1> DEFINE R == OpToRel(<, Nat)
<1>1. R = {ss \in Nat \X Nat : ss[1] < ss[2]}
  BY Zenon DEF OpToRel
<1>2. IsWellFoundedOn(R, Nat)
  BY NatLessThanWellFounded, Zenon
<1> HIDE DEF R
<1>3. PICK x \in T : \A y \in T : ~ (<<y, x>> \in R)
  BY <1>2, WFMin
<1>4. ASSUME NEW y \in T PROVE x <= y
  <2>1. y \in Nat /\ x \in Nat  OBVIOUS
  <2>2. ~ (y < x)  BY <1>1, <1>3, <2>1
  <2> QED  BY <2>1, <2>2
<1> QED  BY <1>4

(* Induction on the naturals, stated with a set. *)
LEMMA SetInduction ==
  ASSUME NEW G \in SUBSET Nat, 0 \in G, \A n \in G : n + 1 \in G
  PROVE  G = Nat
<1>1. SUFFICES ASSUME Nat \ G # {} PROVE FALSE  OBVIOUS
<1>2. PICK m \in Nat \ G : \A k \in Nat \ G : m <= k
  <2>1. Nat \ G \in SUBSET Nat  OBVIOUS
  <2> QED  BY <1>1, <2>1, LeastNatural
<1>3. m # 0  OBVIOUS
<1>4. m - 1 \in Nat /\ m - 1 \in G  BY <1>2, <1>3
<1>5. (m - 1) + 1 \in G  BY <1>4
<1> QED  BY <1>5

(* The sequences of at most one element. *)
LEMMA ShortSeq ==
  ASSUME NEW S
  PROVE  << >> \in Seq(S) /\ \A x \in S : <<x>> \in Seq(S)
OBVIOUS

---------------------------------------------------------------------------
(* f satisfies the equations of Keep up to k. *)
IsKeep(f, s, T, k) == f = [i \in 0..k |-> KeepStep(f, s, T, i)]

LEMMA KeepExists ==
  ASSUME NEW S, NEW s \in Seq(S), NEW T
  PROVE  \E f : IsKeep(f, s, T, Len(s))
<1> DEFINE G == {k \in Nat : k <= Len(s) => \E f : IsKeep(f, s, T, k)}
<1>1. 0 \in G
  <2> DEFINE f == [i \in 0..0 |-> << >>]
  <2>1. IsKeep(f, s, T, 0)  BY DEF KeepStep, IsKeep
  <2> QED  BY <2>1
<1>2. ASSUME NEW k \in G PROVE k + 1 \in G
  <2>1. k \in Nat  OBVIOUS
  <2>2. SUFFICES ASSUME k + 1 <= Len(s) PROVE \E f : IsKeep(f, s, T, k + 1)
    BY <2>1
  <2>3. PICK g : IsKeep(g, s, T, k)
    <3>1. k <= Len(s)  BY <2>1, <2>2
    <3> QED  BY <3>1
  <2> DEFINE h == [i \in 0..(k+1) |-> IF i <= k THEN g[i] ELSE KeepStep(g, s, T, i)]
  <2>4. ASSUME NEW i \in 0..(k+1) PROVE h[i] = KeepStep(h, s, T, i)
    <3>1. CASE i = 0
      BY <3>1, <2>3, <2>1 DEF KeepStep, IsKeep
    <3>2. CASE i \in 1..k
      <4>1. i - 1 \in 0..k /\ i \in 0..k /\ i # 0  BY <3>2, <2>1
      <4>2. h[i-1] = g[i-1] /\ h[i] = g[i]  BY <4>1, <2>1
      <4>3. g[i] = KeepStep(g, s, T, i)  BY <2>3, <4>1 DEF IsKeep
      <4> QED  BY <4>1, <4>2, <4>3 DEF KeepStep
    <3>3. CASE i = k + 1
      BY <3>3, <2>1 DEF KeepStep
    <3> QED  BY <3>1, <3>2, <3>3, <2>1
  <2>5. h = [i \in 0..(k+1) |-> h[i]]  OBVIOUS
  <2> HIDE DEF h
  <2>6. IsKeep(h, s, T, k + 1)  BY <2>4, <2>5 DEF IsKeep
  <2> QED  BY <2>6
<1> HIDE DEF G
<1>3. G = Nat
  <2>1. G \in SUBSET Nat  BY DEF G
  <2> QED  BY <1>1, <1>2, <2>1, SetInduction
<1>4. Len(s) \in Nat /\ Len(s) <= Len(s)  OBVIOUS
<1> QED  BY <1>3, <1>4 DEF G

---------------------------------------------------------------------------
(* Keep returns a sequence of elements of s, all of them in T: what        *)
(* Array.prototype.filter promises the code that filters edges, children   *)
(* and executed data.                                                      *)
THEOREM KeepType ==
  ASSUME NEW S, NEW s \in Seq(S), NEW T
  PROVE  Keep(s, T) \in Seq(S \cap T)
<1> DEFINE K == CHOOSE f : IsKeep(f, s, T, Len(s))
<1>1. IsKeep(K, s, T, Len(s))
  BY KeepExists
<1>2. Keep(s, T) = K[Len(s)]
  BY DEF Keep, IsKeep
<1> HIDE DEF K
<1> DEFINE G == {k \in Nat : k <= Len(s) => K[k] \in Seq(S \cap T)}
<1>3. 0 \in G
  BY <1>1 DEF IsKeep, KeepStep
<1>4. ASSUME NEW k \in G PROVE k + 1 \in G
  <2>1. SUFFICES ASSUME k + 1 <= Len(s) PROVE K[k+1] \in Seq(S \cap T)
    OBVIOUS
  <2>2. k \in Nat /\ K[k] \in Seq(S \cap T) /\ s[k+1] \in S /\ k + 1 \in 0..Len(s)
    BY <2>1
  <2>3. K[k+1] = KeepStep(K, s, T, k + 1)
    <3> DEFINE F(i) == KeepStep(K, s, T, i)
    <3>1. K = [i \in 0..Len(s) |-> F(i)]  BY <1>1 DEF IsKeep
    <3> HIDE DEF F
    <3>2. K[k+1] = F(k + 1)  BY <3>1, <2>2
    <3> QED  BY <3>2 DEF F
  <2>4. k + 1 # 0 /\ (k + 1) - 1 = k  BY <2>2
  <2>5. K[k+1] = IF s[k+1] \in T THEN Append(K[k], s[k+1]) ELSE K[k]
    BY <2>3, <2>4 DEF KeepStep
  <2>6. CASE s[k+1] \in T  BY <2>2, <2>5, <2>6
  <2>7. CASE s[k+1] \notin T  BY <2>2, <2>5, <2>7
  <2> QED  BY <2>6, <2>7
<1> HIDE DEF G
<1>5. G = Nat
  <2>1. G \in SUBSET Nat  BY DEF G
  <2> QED  BY <1>3, <1>4, <2>1, SetInduction
<1>6. Len(s) \in Nat /\ Len(s) <= Len(s)  OBVIOUS
<1> QED  BY <1>2, <1>5, <1>6 DEF G

(* Keep, one element at a time: K[k] is what is kept of the first k. *)
Prefixes(K, s, T) ==
  /\ Keep(s, T) = K[Len(s)]
  /\ K[0] = << >>
  /\ \A k \in 0..(Len(s) - 1) :
       K[k+1] = IF s[k+1] \in T THEN Append(K[k], s[k+1]) ELSE K[k]

LEMMA KeepPrefixes ==
  ASSUME NEW S, NEW s \in Seq(S), NEW T
  PROVE  \E K : Prefixes(K, s, T)
<1> DEFINE K == CHOOSE f : IsKeep(f, s, T, Len(s))
<1>1. IsKeep(K, s, T, Len(s))
  BY KeepExists
<1>2. Keep(s, T) = K[Len(s)]
  BY DEF Keep, IsKeep
<1> HIDE DEF K
<1> DEFINE F(i) == KeepStep(K, s, T, i)
<1>3. K = [i \in 0..Len(s) |-> F(i)]  BY <1>1 DEF IsKeep
<1> HIDE DEF F
<1>4. Len(s) \in Nat  OBVIOUS
<1>5. K[0] = << >>
  <2>1. K[0] = F(0)  BY <1>3, <1>4
  <2> QED  BY <2>1 DEF F, KeepStep
<1>6. ASSUME NEW k \in 0..(Len(s) - 1)
      PROVE  K[k+1] = IF s[k+1] \in T THEN Append(K[k], s[k+1]) ELSE K[k]
  <2>1. k + 1 \in 0..Len(s) /\ k + 1 # 0 /\ (k + 1) - 1 = k  BY <1>4
  <2>2. K[k+1] = F(k + 1)  BY <1>3, <2>1
  <2> QED  BY <2>1, <2>2 DEF F, KeepStep
<1> QED  BY <1>2, <1>5, <1>6 DEF Prefixes

(* What is not repeated in s is not repeated in what is kept of it. *)
LEMMA KeepDistinct ==
  ASSUME NEW S, NEW s \in Seq(S), NEW T,
         \A i, j \in DOMAIN s : s[i] = s[j] => i = j
  PROVE  \A i, j \in DOMAIN Keep(s, T) : Keep(s, T)[i] = Keep(s, T)[j] => i = j
<1>1. PICK K : Prefixes(K, s, T)
  BY KeepPrefixes
<1> DEFINE P(k) == /\ K[k] \in Seq(S)
                   /\ \A i \in DOMAIN K[k] : \E j \in 1..k : K[k][i] = s[j]
                   /\ \A i, j \in DOMAIN K[k] : K[k][i] = K[k][j] => i = j
           G == {k \in Nat : k <= Len(s) => P(k)}
<1>2. Len(s) \in Nat  OBVIOUS
<1>3. 0 \in G
  <2>1. K[0] = << >>  BY <1>1 DEF Prefixes
  <2>2. DOMAIN K[0] = {} /\ K[0] \in Seq(S)  BY <2>1
  <2> QED  BY <2>2
<1>4. ASSUME NEW k \in G PROVE k + 1 \in G
  <2>1. SUFFICES ASSUME k + 1 <= Len(s) PROVE P(k + 1)
    OBVIOUS
  <2>2. k \in 0..(Len(s) - 1) /\ k + 1 \in DOMAIN s /\ s[k+1] \in S  BY <1>2, <2>1
  <2>3. P(k)  BY <1>2, <2>1
  <2>4. K[k+1] = IF s[k+1] \in T THEN Append(K[k], s[k+1]) ELSE K[k]  BY <1>1, <2>2 DEF Prefixes
  <2>5. CASE s[k+1] \notin T
    <3>1. K[k+1] = K[k]  BY <2>4, <2>5
    <3>2. \A j \in 1..k : j \in 1..(k+1)  BY <2>2
    <3> QED  BY <2>3, <3>1, <3>2
  <2>6. CASE s[k+1] \in T
    <3> DEFINE a == K[k]
               b == K[k+1]
    <3>1. b = Append(a, s[k+1]) /\ a \in Seq(S)  BY <2>3, <2>4, <2>6
    <3>2. \A i \in DOMAIN a : \E j \in 1..k : a[i] = s[j]  BY <2>3
    <3>3. \A i, j \in DOMAIN a : a[i] = a[j] => i = j  BY <2>3
    <3> HIDE DEF a, b
    <3>4. b \in Seq(S) /\ Len(b) = Len(a) + 1 /\ DOMAIN b = 1..(Len(a) + 1) /\ Len(a) \in Nat
      BY <2>2, <3>1
    <3>5. b[Len(a) + 1] = s[k+1]  BY <3>1
    <3>6. \A i \in DOMAIN a : b[i] = a[i]  BY <3>1
    <3>7. DOMAIN a = 1..Len(a)  BY <3>1
    <3>8. \A i \in DOMAIN a : a[i] # s[k+1]
      <4>1. ASSUME NEW i \in DOMAIN a, a[i] = s[k+1] PROVE FALSE
        <5>1. PICK j \in 1..k : a[i] = s[j]  BY <3>2
        <5>2. j \in DOMAIN s /\ j # k + 1  BY <1>2, <2>2
        <5> QED  BY <2>2, <4>1, <5>1, <5>2
      <4> QED  BY <4>1
    <3>9. \A i \in DOMAIN b : i \in DOMAIN a \/ i = Len(a) + 1  BY <3>4, <3>7
    <3>10. \A i, j \in DOMAIN b : b[i] = b[j] => i = j
      BY <3>3, <3>5, <3>6, <3>8, <3>9
    <3>11. \A i \in DOMAIN b : \E j \in 1..(k+1) : b[i] = s[j]
      <4>1. \A j \in 1..k : j \in 1..(k+1)  BY <2>2
      <4>2. k + 1 \in 1..(k+1)  BY <2>2
      <4> QED  BY <3>2, <3>5, <3>6, <3>9, <4>1, <4>2
    <3> QED  BY <3>4, <3>10, <3>11 DEF b
  <2> QED  BY <2>5, <2>6
<1> HIDE DEF G
<1>5. G = Nat
  <2>1. G \in SUBSET Nat  BY DEF G
  <2> QED  BY <1>3, <1>4, <2>1, SetInduction
<1>6. P(Len(s))  BY <1>2, <1>5 DEF G
<1> QED  BY <1>1, <1>6 DEF Prefixes

(* An element to keep is kept. *)
LEMMA KeepComplete ==
  ASSUME NEW S, NEW s \in Seq(S), NEW T, NEW m \in DOMAIN s, s[m] \in T
  PROVE  \E i \in DOMAIN Keep(s, T) : Keep(s, T)[i] = s[m]
<1>1. PICK K : Prefixes(K, s, T)
  BY KeepPrefixes
<1> DEFINE P(k) == /\ K[k] \in Seq(S)
                   /\ m <= k => \E i \in DOMAIN K[k] : K[k][i] = s[m]
           G == {k \in Nat : k <= Len(s) => P(k)}
<1>2. Len(s) \in Nat /\ m \in 1..Len(s)  OBVIOUS
<1>3. 0 \in G
  <2>1. K[0] = << >>  BY <1>1 DEF Prefixes
  <2>2. K[0] \in Seq(S) /\ ~ (m <= 0)  BY <1>2, <2>1
  <2> QED  BY <2>2
<1>4. ASSUME NEW k \in G PROVE k + 1 \in G
  <2>1. SUFFICES ASSUME k + 1 <= Len(s) PROVE P(k + 1)
    OBVIOUS
  <2>2. k \in 0..(Len(s) - 1) /\ k + 1 \in DOMAIN s /\ s[k+1] \in S /\ k \in Nat
    BY <1>2, <2>1
  <2>3. P(k)  BY <1>2, <2>1
  <2>4. K[k+1] = IF s[k+1] \in T THEN Append(K[k], s[k+1]) ELSE K[k]  BY <1>1, <2>2 DEF Prefixes
  <2> DEFINE a == K[k]
             b == K[k+1]
  <2>5. a \in Seq(S) /\ (m <= k => \E i \in DOMAIN a : a[i] = s[m])  BY <2>3
  <2>6. b = IF s[k+1] \in T THEN Append(a, s[k+1]) ELSE a  BY <2>4
  <2> HIDE DEF a, b
  <2>7. b \in Seq(S)  BY <2>2, <2>5, <2>6
  <2>8. \A i \in DOMAIN a : i \in DOMAIN b /\ b[i] = a[i]  BY <2>5, <2>6
  <2>9. ASSUME m <= k + 1 PROVE \E i \in DOMAIN b : b[i] = s[m]
    <3>1. CASE m <= k
      BY <2>5, <2>8, <3>1
    <3>2. CASE m = k + 1
      <4>1. b = Append(a, s[m])  BY <2>6, <3>2
      <4>2. Len(a) + 1 \in DOMAIN b /\ b[Len(a) + 1] = s[m]  BY <2>5, <4>1
      <4> QED  BY <4>2
    <3> QED  BY <1>2, <2>2, <2>9, <3>1, <3>2
  <2> QED  BY <2>7, <2>9 DEF b
<1> HIDE DEF G
<1>5. G = Nat
  <2>1. G \in SUBSET Nat  BY DEF G
  <2> QED  BY <1>3, <1>4, <2>1, SetInduction
<1>6. P(Len(s))  BY <1>2, <1>5 DEF G
<1> QED  BY <1>1, <1>2, <1>6 DEF Prefixes

(* Every element that is kept comes from a place of its own. *)
KeptFrom(h, t, s) ==
  /\ h \in [DOMAIN t -> DOMAIN s]
  /\ \A i \in DOMAIN t : t[i] = s[h[i]]
  /\ \A i, j \in DOMAIN t : h[i] = h[j] => i = j

LEMMA KeepPlaces ==
  ASSUME NEW S, NEW s \in Seq(S), NEW T
  PROVE  \E h : KeptFrom(h, Keep(s, T), s)
<1>1. PICK K : Prefixes(K, s, T)
  BY KeepPrefixes
<1> DEFINE P(k) ==
             /\ K[k] \in Seq(S)
             /\ \E h : /\ h \in [1..Len(K[k]) -> 1..k]
                       /\ \A i \in 1..Len(K[k]) : K[k][i] = s[h[i]]
                       /\ \A i, j \in 1..Len(K[k]) : h[i] = h[j] => i = j
           G == {k \in Nat : k <= Len(s) => P(k)}
<1>2. 0 \in G
  <2>1. K[0] = << >> /\ K[0] \in Seq(S)  BY <1>1 DEF Prefixes
  <2>2. [i \in 1..Len(K[0]) |-> i] \in [1..Len(K[0]) -> 1..0]  BY <2>1
  <2>3. P(0)
    <3> DEFINE h == [i \in 1..Len(K[0]) |-> i]
    <3>1. 1..Len(K[0]) = {}  BY <2>1
    <3>2. /\ h \in [1..Len(K[0]) -> 1..0]
          /\ \A i \in 1..Len(K[0]) : K[0][i] = s[h[i]]
          /\ \A i, j \in 1..Len(K[0]) : h[i] = h[j] => i = j
      BY <2>2, <3>1
    <3> HIDE DEF h
    <3> QED  BY <2>1, <3>2
  <2> QED  BY <2>3
<1>3. ASSUME NEW k \in G PROVE k + 1 \in G
  <2>0. k \in Nat /\ k + 1 \in Nat /\ Len(s) \in Nat /\ (k <= Len(s) => P(k))
    <3> HIDE DEF P
    <3> QED  OBVIOUS
  <2> SUFFICES ASSUME k + 1 <= Len(s) PROVE P(k + 1)
    <3> HIDE DEF P
    <3> QED  BY <2>0
  <2>1. /\ k \in Nat /\ Len(s) \in Nat /\ k <= Len(s) /\ P(k) /\ k \in 0..(Len(s) - 1)
        /\ k + 1 \in 1..Len(s)
    <3> HIDE DEF P
    <3> QED  BY <2>0
  <2>2. K[k+1] = IF s[k+1] \in T THEN Append(K[k], s[k+1]) ELSE K[k]
    BY <1>1, <2>1 DEF Prefixes
  <2>3. PICK h : /\ h \in [1..Len(K[k]) -> 1..k]
                 /\ \A i \in 1..Len(K[k]) : K[k][i] = s[h[i]]
                 /\ \A i, j \in 1..Len(K[k]) : h[i] = h[j] => i = j
    BY <2>1
  <2>4. K[k] \in Seq(S) /\ s[k+1] \in S  BY <2>1
  <2> HIDE DEF G, P
  <2> DEFINE old == K[k]
             new == K[k+1]
             n == Len(old)
  <2>5. old \in Seq(S) /\ n \in Nat /\ n + 1 \notin 1..n  BY <2>4
  <2>6. CASE s[k+1] \in T
    <3> DEFINE g == [i \in 1..n + 1 |-> IF i = n + 1 THEN k + 1 ELSE h[i]]
    <3>1. new = Append(old, s[k+1])  BY <2>2, <2>6
    <3> HIDE DEF new, old
    <3>2. new \in Seq(S) /\ Len(new) = n + 1 /\ new[n + 1] = s[k+1]
          /\ \A i \in 1..n : new[i] = old[i]
      BY <2>4, <2>5, <3>1
    <3> HIDE DEF n
    <3>3. \A i \in 1..n + 1 : i = n + 1 \/ i \in 1..n  BY <2>5
    <3>4. \A i \in 1..n : h[i] \in 1..k /\ h[i] # k + 1 /\ h[i] \in 1..k + 1
      <4>1. h \in [1..n -> 1..k]  BY <2>3 DEF n, old
      <4>2. \A m \in 1..k : m # k + 1 /\ m \in 1..k + 1  BY <2>1
      <4> QED  BY <4>1, <4>2
    <3>5. \A i \in 1..n + 1 : g[i] = IF i = n + 1 THEN k + 1 ELSE h[i]  OBVIOUS
    <3>6. k + 1 \in 1..k + 1  BY <2>1
    <3>7. g \in [1..n + 1 -> 1..k + 1]  BY <3>3, <3>4, <3>6
    <3> HIDE DEF g
    <3>8. \A i \in 1..n + 1 : new[i] = s[g[i]]
      BY <2>3, <2>5, <3>2, <3>3, <3>5 DEF n, old
    <3>9. \A i, j \in 1..n + 1 : g[i] = g[j] => i = j
      BY <2>3, <2>5, <3>3, <3>4, <3>5 DEF n, old
    <3>10. P(k + 1)
      <4>1. \E f : /\ f \in [1..Len(new) -> 1..k + 1]
                   /\ \A i \in 1..Len(new) : new[i] = s[f[i]]
                   /\ \A i, j \in 1..Len(new) : f[i] = f[j] => i = j
        BY <3>2, <3>7, <3>8, <3>9
      <4> QED  BY <3>2, <4>1 DEF P, new
    <3> QED  BY <3>10
  <2>7. CASE s[k+1] \notin T
    <3>1. h \in [1..Len(K[k]) -> 1..k + 1]  BY <2>1, <2>3
    <3>2. K[k+1] = K[k]  BY <2>2, <2>7
    <3> QED  BY <2>3, <2>4, <3>1, <3>2 DEF P
  <2> QED  BY <2>6, <2>7
<1>4. G = Nat
  <2> HIDE DEF P
  <2>1. G \in SUBSET Nat  OBVIOUS
  <2> HIDE DEF G
  <2> QED  BY <1>2, <1>3, <2>1, SetInduction
<1>5. Len(s) \in Nat /\ P(Len(s))
  <2>1. Len(s) \in Nat  OBVIOUS
  <2> HIDE DEF P
  <2> QED  BY <1>4, <2>1
<1>6. Keep(s, T) = K[Len(s)]
  BY <1>1 DEF Prefixes
<1>7. DOMAIN s = 1..Len(s) /\ DOMAIN Keep(s, T) = 1..Len(Keep(s, T))
  BY <1>5, <1>6
<1> QED  BY <1>5, <1>6, <1>7 DEF KeptFrom
===========================================================================
