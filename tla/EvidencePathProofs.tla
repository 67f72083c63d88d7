--------------------------- MODULE EvidencePathProofs --------------------------
(* Proofs about EvidencePath, for every set of calls, every section and every  *)
(* limit of size: what the registry hands out is of one release, the evidence  *)
(* that is collected stays so, and what a tool found gets through the checks;  *)
(* a context keeps its budgets, leaves nothing out in silence and talks over   *)
(* no item; and a section of one file that was read to its end arrives whole.  *)
EXTENDS EvidencePathInvariants, TLAPS

-------------------------------------------------------------------------------
(* Induction over the naturals, and folds over sequences.                      *)

(* Induction over the naturals, stated of a set.                               *)
LEMMA SetInduction ==
  ASSUME NEW T, 0 \in T, \A n \in Nat : n \in T => n + 1 \in T
  PROVE  \A n \in Nat : n \in T
<1> SUFFICES ASSUME NEW m \in Nat, m \notin T
             PROVE  FALSE
  OBVIOUS
<1> DEFINE Out == {n \in Nat : n \notin T}
           Spans == {0..n : n \in Out}
<1>1. Spans \subseteq FiniteSubsetsOf(Nat) /\ Spans # {}
  <2>1. ASSUME NEW n \in Nat
        PROVE  IsFiniteSet(0..n) /\ 0..n \subseteq Nat
    BY FS_Interval
  <2> QED BY <2>1 DEF FiniteSubsetsOf
<1>2. PICK low \in Spans : \A s \in Spans : <<s, low>> \notin StrictSubsetOrdering(Nat)
  <2> HIDE DEF Spans
  <2> QED BY <1>1, FS_StrictSubsetOrderingWellFounded, WFMin
<1>3. PICK n \in Out : low = 0..n
  OBVIOUS
<1>4. n \in Nat /\ n # 0 /\ n - 1 \in Nat /\ n = (n - 1) + 1
  OBVIOUS
<1>5. n - 1 \in Out
  BY <1>4
<1>6. 0..(n-1) \in Spans
  BY <1>5
<1>7. 0..(n-1) \subseteq 0..n /\ 0..(n-1) # 0..n /\ 0..(n-1) \in SUBSET Nat /\ 0..n \in SUBSET Nat
  BY <1>4
<1>8. <<0..(n-1), 0..n>> \in StrictSubsetOrdering(Nat)
  BY <1>7 DEF StrictSubsetOrdering
<1> QED BY <1>2, <1>3, <1>6, <1>8

(* Numbers up to a bound have a greatest one, and Max is it.                   *)
LEMMA GreatestOne ==
  ASSUME NEW n \in Nat, NEW S \in SUBSET (0..n), S # {}
  PROVE  /\ Max(S) \in S
         /\ \A x \in S : x <= Max(S)
         /\ \A y \in S : (\A x \in S : x <= y) => Max(S) = y
<1> DEFINE T == {m \in Nat : \A Q \in SUBSET (0..m) : Q # {} => \E y \in Q : \A x \in Q : x <= y}
<1>1. 0 \in T
  <2>1. ASSUME NEW Q \in SUBSET (0..0), Q # {}
        PROVE  \E y \in Q : \A x \in Q : x <= y
    <3>1. \A x \in Q : x = 0
      OBVIOUS
    <3>2. 0 \in Q
      BY <2>1, <3>1
    <3> QED BY <3>1, <3>2
  <2> QED BY <2>1
<1>2. ASSUME NEW m \in Nat, m \in T
      PROVE  m + 1 \in T
  <2>1. ASSUME NEW Q \in SUBSET (0..(m+1)), Q # {}
        PROVE  \E y \in Q : \A x \in Q : x <= y
    <3>1. CASE m + 1 \in Q
      BY <3>1
    <3>2. CASE m + 1 \notin Q
      <4>1. Q \in SUBSET (0..m)
        BY <3>2
      <4> QED BY <1>2, <2>1, <4>1
    <3> QED BY <3>1, <3>2
  <2> QED BY <2>1
<1>3. n \in T
  <2> HIDE DEF T
  <2> QED BY <1>1, <1>2, SetInduction
<1>4. \E y \in S : \A x \in S : x <= y
  BY <1>3
<1>5. \E y \in S : \A x \in S : y >= x
  BY <1>4
<1>6. Max(S) \in S /\ \A x \in S : Max(S) >= x
  BY <1>5 DEF Max
<1>7. \A x \in S : x \in Nat
  OBVIOUS
<1>8. \A x \in S : x <= Max(S)
  BY <1>6, <1>7
<1>9. ASSUME NEW y \in S, \A x \in S : x <= y
      PROVE  Max(S) = y
  <2>1. Max(S) \in Nat /\ y \in Nat
    BY <1>6, <1>7
  <2>2. Max(S) <= y
    BY <1>6, <1>9
  <2>3. y <= Max(S)
    BY <1>8
  <2> QED BY <2>1, <2>2, <2>3
<1> QED BY <1>6, <1>8, <1>9

(* Numbers up to a bound have a least one, and Min is it.                      *)
LEMMA LeastOne ==
  ASSUME NEW n \in Nat, NEW S \in SUBSET (0..n), S # {}
  PROVE  Min(S) \in S /\ \A x \in S : Min(S) <= x
<1> DEFINE R == {n - x : x \in S}
<1>1. R \in SUBSET (0..n) /\ R # {}
  <2>1. \A x \in S : n - x \in 0..n
    OBVIOUS
  <2>2. \E x \in S : n - x \in R
    OBVIOUS
  <2> QED BY <2>1, <2>2
<1>2. Max(R) \in R /\ \A y \in R : y <= Max(R)
  <2> HIDE DEF R
  <2> QED BY <1>1, GreatestOne
<1>3. PICK x \in S : Max(R) = n - x
  BY <1>2
<1>4. ASSUME NEW y \in S PROVE x <= y
  <2>1. n - y <= n - x
    BY <1>2, <1>3
  <2>2. x \in Nat /\ y \in Nat
    OBVIOUS
  <2> QED BY <2>1, <2>2
<1>5. \E z \in S : \A y \in S : z <= y
  BY <1>4
<1>6. \E z \in S : \A y \in S : y >= z
  BY <1>5
<1> QED BY <1>5 DEF Min

(* What folds over a sequence takes off at step k.                             *)
LEMMA MaxUpto ==
  ASSUME NEW k \in Nat \ {0}
  PROVE  Max(1..k) = k /\ (1..k) \ {k} = 1..(k-1) /\ 1..k # {}
<1>1. 1..k \in SUBSET (0..k) /\ k \in 1..k /\ \A x \in 1..k : x <= k
  OBVIOUS
<1>2. Max(1..k) = k
  BY <1>1, GreatestOne
<1>3. (1..k) \ {k} = 1..(k-1)
  OBVIOUS
<1> QED BY <1>1, <1>2, <1>3

(* What is folded over a sequence exists when no step leaves a set. *)
LEMMA FoldExists ==
  ASSUME NEW n \in Nat, NEW D, NEW base \in D, NEW st \in [1..n -> [D -> D]]
  PROVE  \E g : Folds(g, n, D, base, st)
<1> DEFINE Upto(m, g) == g = [s \in SUBSET (1..m) |->
                                IF s = {} THEN base ELSE st[Max(s)][g[s \ {Max(s)}]]]
           T == {m \in Nat : m <= n => \E g : Upto(m, g) /\ \A s \in SUBSET (1..m) : g[s] \in D}
<1>1. 0 \in T
  <2> DEFINE g == [s \in SUBSET (1..0) |-> base]
  <2>1. \A s \in SUBSET (1..0) : s = {}
    OBVIOUS
  <2>2. g = [s \in SUBSET (1..0) |-> IF s = {} THEN base ELSE st[Max(s)][g[s \ {Max(s)}]]]
    BY <2>1
  <2>3. Upto(0, g) /\ \A s \in SUBSET (1..0) : g[s] \in D
    BY <2>2
  <2> HIDE DEF g, Upto
  <2> QED BY <2>3
<1>2. ASSUME NEW m \in Nat, m \in T
      PROVE  m + 1 \in T
  <2> HIDE DEF Upto
  <2> SUFFICES ASSUME m + 1 <= n
               PROVE  \E g : Upto(m + 1, g) /\ \A s \in SUBSET (1..(m+1)) : g[s] \in D
    OBVIOUS
  <2>0. m <= n /\ m + 1 \in 1..n
    OBVIOUS
  <2>1. PICK a : Upto(m, a) /\ \A s \in SUBSET (1..m) : a[s] \in D
    BY <1>2, <2>0
  <2> DEFINE g == [s \in SUBSET (1..(m+1)) |->
                     IF m + 1 \in s THEN st[m+1][a[s \ {m+1}]] ELSE a[s]]
  <2>2. ASSUME NEW s \in SUBSET (1..(m+1))
        PROVE  g[s] = (IF s = {} THEN base ELSE st[Max(s)][g[s \ {Max(s)}]]) /\ g[s] \in D
    <3>1. CASE m + 1 \in s
      <4>1. Max(s) = m + 1
        <5>1. s \in SUBSET (0..(m+1)) /\ s # {} /\ \A x \in s : x <= m + 1
          BY <3>1
        <5> QED BY <3>1, <5>1, GreatestOne
      <4>2. s \ {m+1} \in SUBSET (1..m) /\ m + 1 \notin s \ {m+1}
        OBVIOUS
      <4>3. s \ {m+1} \in SUBSET (1..(m+1))
        OBVIOUS
      <4>4. g[s \ {m+1}] = a[s \ {m+1}]
        BY <4>2, <4>3
      <4>5. g[s] = st[m+1][a[s \ {m+1}]] /\ s # {}
        BY <3>1
      <4>6. a[s \ {m+1}] \in D /\ st[m+1] \in [D -> D]
        BY <2>0, <2>1, <4>2
      <4> HIDE DEF g
      <4> QED BY <4>1, <4>4, <4>5, <4>6
    <3>2. CASE m + 1 \notin s
      <4>0. \A x \in s : x \in 1..m
        BY <3>2
      <4>1. s \in SUBSET (1..m) /\ s \ {Max(s)} \in SUBSET (1..m) /\ s \ {Max(s)} \in SUBSET (1..(m+1))
            /\ m + 1 \notin s \ {Max(s)}
        BY <3>2, <4>0
      <4>2. g[s] = a[s] /\ g[s \ {Max(s)}] = a[s \ {Max(s)}]
        BY <3>2, <4>1
      <4>3. a[s] = (IF s = {} THEN base ELSE st[Max(s)][a[s \ {Max(s)}]]) /\ a[s] \in D
        BY <2>1, <4>1 DEF Upto
      <4> HIDE DEF g
      <4> QED BY <4>2, <4>3
    <3> QED BY <3>1, <3>2
  <2>3. g = [s \in SUBSET (1..(m+1)) |-> g[s]]
    OBVIOUS
  <2>4. Upto(m + 1, g) /\ \A s \in SUBSET (1..(m+1)) : g[s] \in D
    <3> HIDE DEF g
    <3> QED BY <2>2, <2>3 DEF Upto
  <2> HIDE DEF g
  <2> QED BY <2>4
<1>3. n \in T
  <2> HIDE DEF T
  <2> QED BY <1>1, <1>2, SetInduction
<1>4. \E g : Upto(n, g) /\ \A s \in SUBSET (1..n) : g[s] \in D
  <2> HIDE DEF Upto
  <2> QED BY <1>3
<1> QED BY <1>4 DEF Folds

(* What holds at the start and is kept by each step holds at each step.        *)
LEMMA FoldStays ==
  ASSUME NEW n \in Nat, NEW D, NEW g, g[{}] \in D,
         \A k \in 1..n : g[1..(k-1)] \in D => g[1..k] \in D
  PROVE  \A k \in 0..n : g[1..k] \in D
<1> DEFINE T == {k \in Nat : k <= n => g[1..k] \in D}
<1>1. 0 \in T
  <2>1. 1..0 = {}
    OBVIOUS
  <2> QED BY <2>1
<1>2. ASSUME NEW k \in Nat, k \in T
      PROVE  k + 1 \in T
  <2>1. (k + 1) - 1 = k
    OBVIOUS
  <2> QED BY <1>2, <2>1
<1>3. \A k \in Nat : k \in T
  <2> HIDE DEF T
  <2> QED BY <1>1, <1>2, SetInduction
<1> QED BY <1>3

-------------------------------------------------------------------------------
(* Sequences of sequences.                                                     *)

(* Sequences are flattened one after another. *)
LEMMA FlattenRuns ==
  ASSUME NEW S, NEW seqs \in Seq(Seq(S))
  PROVE  \E h : Flattens(h, seqs, S)
<1> DEFINE n == Len(seqs)
           Upto(m, f) == f = [i \in 1..m |-> IF i = 1 THEN seqs[i] ELSE f[i-1] \o seqs[i]]
           F == CHOOSE f : Upto(n, f)
           T == {m \in Nat : m <= n => \E f : Upto(m, f)}
<1>1. n \in Nat /\ \A i \in 1..n : seqs[i] \in Seq(S)
  OBVIOUS
<1>2. CASE n = 0
  <2> DEFINE h == [k \in {0} |-> <<>>]
  <2>1. seqs = <<>> /\ FlattenSeq(seqs) = seqs
    BY <1>2 DEF FlattenSeq
  <2>2. 1..n = {} /\ 0..n = {0} /\ n \in Nat
    BY <1>2
  <2>3. h[0] = <<>> /\ h[n] = <<>> /\ \A k \in 0..n : h[k] = <<>>
    BY <1>2, <2>2
  <2>4. <<>> \in Seq(S)
    OBVIOUS
  <2> HIDE DEF h, n
  <2>5. Flattens(h, seqs, S)
    BY <2>1, <2>2, <2>3, <2>4 DEF Flattens, n
  <2> QED BY <2>5
<1>3. CASE n # 0
  <2>1. 0 \in T
    <3>1. Upto(0, [k \in 1..0 |-> 0])
      OBVIOUS
    <3> QED BY <3>1
  <2>2. ASSUME NEW m \in Nat, m \in T PROVE m + 1 \in T
    <3> HIDE DEF n, Upto
    <3> SUFFICES ASSUME m + 1 <= n PROVE \E f : Upto(m + 1, f)
      OBVIOUS
    <3>1. m <= n /\ m \in Nat
      BY <1>1
    <3>2. PICK f : Upto(m, f)
      BY <2>2, <3>1
    <3> DEFINE g == [i \in 1..(m+1) |-> IF i = m + 1
                                        THEN IF m + 1 = 1 THEN seqs[i] ELSE f[m] \o seqs[i]
                                        ELSE f[i]]
    <3>3. ASSUME NEW i \in 1..(m+1)
          PROVE  g[i] = IF i = 1 THEN seqs[i] ELSE g[i-1] \o seqs[i]
      <4>1. CASE i = m + 1 /\ i = 1
        BY <4>1
      <4>2. CASE i = m + 1 /\ i # 1
        <5>1. i - 1 = m /\ m \in 1..(m+1) /\ m # m + 1
          BY <4>2
        <5>2. g[m] = f[m]
          BY <5>1
        <5>3. g[i] = f[m] \o seqs[i]
          BY <4>2
        <5> HIDE DEF g
        <5> QED BY <4>2, <5>1, <5>2, <5>3
      <4>3. CASE i # m + 1
        <5>1. i \in 1..m /\ g[i] = f[i]
          BY <4>3
        <5>2. f[i] = IF i = 1 THEN seqs[i] ELSE f[i-1] \o seqs[i]
          BY <3>2, <5>1 DEF Upto
        <5>3. i # 1 => g[i-1] = f[i-1]
          <6>1. i # 1 => i - 1 \in 1..(m+1) /\ i - 1 # m + 1
            BY <5>1
          <6> QED BY <6>1
        <5> HIDE DEF g
        <5> QED BY <5>1, <5>2, <5>3
      <4> QED BY <4>1, <4>2, <4>3
    <3>4. g = [i \in 1..(m+1) |-> g[i]]
      OBVIOUS
    <3>5. Upto(m + 1, g)
      <4> HIDE DEF g
      <4> QED BY <3>3, <3>4 DEF Upto
    <3> HIDE DEF g
    <3> QED BY <3>5
  <2>3. \A m \in Nat : m \in T
    <3> HIDE DEF T
    <3> QED BY <2>1, <2>2, SetInduction
  <2>4. Upto(n, F)
    <3> HIDE DEF Upto
    <3>1. n \in T /\ n <= n
      BY <1>1, <2>3
    <3>2. \E f : Upto(n, f)
      BY <3>1
    <3> QED BY <3>2
  <2>5. FlattenSeq(seqs) = F[n]
    BY <1>3 DEF FlattenSeq
  <2> HIDE DEF F
  <2> DEFINE h == [k \in 0..n |-> IF k = 0 THEN <<>> ELSE F[k]]
  <2>6. \A k \in 1..n : F[k] = IF k = 1 THEN seqs[k] ELSE F[k-1] \o seqs[k]
    BY <2>4
  <2> DEFINE U == {k \in Nat : k \in 1..n => F[k] \in Seq(S)}
  <2>7. \A k \in Nat : k \in U
    <3>1. 0 \in U
      OBVIOUS
    <3>2. ASSUME NEW k \in Nat, k \in U PROVE k + 1 \in U
      <4> HIDE DEF n
      <4> SUFFICES ASSUME k + 1 \in 1..n PROVE F[k + 1] \in Seq(S)
        OBVIOUS
      <4>1. F[k + 1] = IF k + 1 = 1 THEN seqs[k + 1] ELSE F[k] \o seqs[k + 1]
        BY <1>1, <2>6
      <4>2. seqs[k + 1] \in Seq(S)
        BY <1>1
      <4>3. k + 1 # 1 => F[k] \in Seq(S)
        BY <1>1, <3>2
      <4> QED BY <4>1, <4>2, <4>3
    <3> HIDE DEF U
    <3> QED BY <3>1, <3>2, SetInduction
  <2>8. h[0] = <<>> /\ h[n] = F[n] /\ \A k \in 1..n : h[k] = F[k] /\ (k # 1 => h[k-1] = F[k-1])
    <3> HIDE DEF n
    <3>1. 0 \in 0..n /\ n \in 0..n /\ \A k \in 1..n : k \in 0..n /\ k # 0 /\ k - 1 \in 0..n /\ (k # 1 => k - 1 # 0)
      BY <1>1
    <3> QED BY <1>3, <3>1
  <2> HIDE DEF h, n
  <2>9. \A k \in 0..n : h[k] \in Seq(S)
    <3> SUFFICES ASSUME NEW k \in 0..n PROVE h[k] \in Seq(S)
      OBVIOUS
    <3>1. CASE k = 0
      <4>1. <<>> \in Seq(S)
        OBVIOUS
      <4> QED BY <2>8, <3>1, <4>1
    <3>2. CASE k # 0
      <4>1. k \in 1..n /\ k \in Nat
        BY <1>1, <3>2
      <4> QED BY <2>7, <2>8, <4>1
    <3> QED BY <3>1, <3>2
  <2>10. ASSUME NEW k \in 1..n PROVE h[k] = h[k-1] \o seqs[k]
    <3>1. CASE k = 1
      <4>1. seqs[1] \in Seq(S) /\ h[1] = seqs[1] /\ 1 - 1 = 0
        BY <1>1, <2>6, <2>8, <3>1
      <4>2. <<>> \o seqs[1] = seqs[1]
        BY <4>1
      <4> QED BY <2>8, <3>1, <4>1, <4>2
    <3>2. CASE k # 1
      BY <2>6, <2>8, <3>2
    <3> QED BY <3>1, <3>2
  <2>11. Flattens(h, seqs, S)
    BY <1>1, <2>5, <2>8, <2>9, <2>10 DEF Flattens, n
  <2> QED BY <2>11
<1> QED BY <1>2, <1>3

LEMMA FlattenTyped ==
  ASSUME NEW S, NEW seqs \in Seq(Seq(S))
  PROVE  FlattenSeq(seqs) \in Seq(S)
<1>1. PICK h : Flattens(h, seqs, S)
  BY FlattenRuns
<1>2. Len(seqs) \in 0..Len(seqs)
  BY <1>1 DEF Flattens
<1> QED BY <1>1, <1>2 DEF Flattens

(* The pieces of a live search are texts again.                                *)
LEMMA BothHave ==
  ASSUME NEW S, NEW a \in Seq(S), NEW b \in Seq(S)
  PROVE  ToSet(a \o b) = ToSet(a) \cup ToSet(b)
<1> DEFINE m == Len(a)  n == Len(b)  c == a \o b
<1>1. m \in Nat /\ n \in Nat /\ DOMAIN a = 1..m /\ DOMAIN b = 1..n /\ DOMAIN c = 1..(m + n)
      /\ (\A k \in 1..m : c[k] = a[k]) /\ (\A k \in 1..n : c[m + k] = b[k])
  OBVIOUS
<1> HIDE DEF m, n, c
<1>2. \A k \in 1..(m + n) : k \in 1..m \/ (k - m \in 1..n /\ m + (k - m) = k)
  BY <1>1
<1>3. (\A k \in 1..m : k \in 1..(m + n)) /\ (\A k \in 1..n : m + k \in 1..(m + n))
  BY <1>1
<1>4. \A k \in 1..(m + n) : c[k] \in ToSet(a) \/ c[k] \in ToSet(b)
  <2> SUFFICES ASSUME NEW k \in 1..(m + n) PROVE c[k] \in ToSet(a) \/ c[k] \in ToSet(b)
    OBVIOUS
  <2>1. CASE k \in 1..m
    BY <1>1, <2>1 DEF ToSet
  <2>2. CASE k - m \in 1..n /\ m + (k - m) = k
    <3>1. c[k] = b[k - m]
      BY <1>1, <2>2
    <3> QED BY <1>1, <2>2, <3>1 DEF ToSet
  <2> QED BY <1>2, <2>1, <2>2
<1>5. \A x \in ToSet(a) : x \in ToSet(c)
  BY <1>1, <1>3 DEF ToSet
<1>6. \A x \in ToSet(b) : x \in ToSet(c)
  BY <1>1, <1>3 DEF ToSet
<1>7. \A x \in ToSet(c) : x \in ToSet(a) \/ x \in ToSet(b)
  BY <1>1, <1>4 DEF ToSet
<1> QED BY <1>5, <1>6, <1>7 DEF c

LEMMA FlattenHas ==
  ASSUME NEW S, NEW seqs \in Seq(Seq(S)), NEW g \in DOMAIN seqs, NEW k \in DOMAIN seqs[g]
  PROVE  seqs[g][k] \in ToSet(FlattenSeq(seqs))
<1> DEFINE n == Len(seqs)
<1>1. PICK h : Flattens(h, seqs, S)
  BY FlattenRuns
<1>2. n \in Nat /\ g \in 1..n /\ \A i \in 1..n : seqs[i] \in Seq(S)
  OBVIOUS
<1>3. /\ FlattenSeq(seqs) = h[n]
      /\ \A i \in 0..n : h[i] \in Seq(S)
      /\ \A i \in 1..n : h[i] = h[i-1] \o seqs[i]
  BY <1>1 DEF Flattens
<1> HIDE DEF n
<1> DEFINE V == {i \in Nat : g <= i /\ i <= n => seqs[g][k] \in ToSet(h[i])}
<1>4. 0 \in V
  BY <1>2
<1>5. ASSUME NEW i \in Nat, i \in V PROVE i + 1 \in V
  <2> SUFFICES ASSUME g <= i + 1, i + 1 <= n PROVE seqs[g][k] \in ToSet(h[i + 1])
    OBVIOUS
  <2>1. i \in 0..n /\ i + 1 \in 1..n /\ (i + 1) - 1 = i
    BY <1>2
  <2>2. h[i + 1] = h[i] \o seqs[i + 1] /\ h[i] \in Seq(S) /\ seqs[i + 1] \in Seq(S)
    BY <1>2, <1>3, <2>1
  <2>3. ToSet(h[i + 1]) = ToSet(h[i]) \cup ToSet(seqs[i + 1])
    BY <2>2, BothHave
  <2>4. CASE g = i + 1
    BY <2>3, <2>4 DEF ToSet
  <2>5. CASE g # i + 1
    <3>1. g <= i /\ i <= n
      BY <1>2, <2>1, <2>5
    <3> QED BY <1>5, <2>3, <3>1
  <2> QED BY <2>4, <2>5
<1>6. \A i \in Nat : i \in V
  <2> HIDE DEF V
  <2> QED BY <1>4, <1>5, SetInduction
<1> QED BY <1>2, <1>3, <1>6

(* The longest of some sequences.                                              *)
LEMMA LongestIs ==
  ASSUME NEW S, NEW groups \in Seq(Seq(S))
  PROVE  LET longest == Max({Len(groups[g]) : g \in DOMAIN groups} \cup {0})
         IN longest \in Nat /\ \A g \in DOMAIN groups : Len(groups[g]) <= longest
<1> DEFINE n == Len(groups)
           L == {Len(groups[g]) : g \in DOMAIN groups} \cup {0}
           V == {k \in Nat : k <= n => \E m \in Nat : \A g \in 1..k : Len(groups[g]) <= m}
<1>1. n \in Nat /\ DOMAIN groups = 1..n /\ \A g \in 1..n : Len(groups[g]) \in Nat
  OBVIOUS
<1> HIDE DEF n
<1>2. 0 \in V
  OBVIOUS
<1>3. ASSUME NEW k \in Nat, k \in V PROVE k + 1 \in V
  <2> SUFFICES ASSUME k + 1 <= n PROVE \E m \in Nat : \A g \in 1..(k + 1) : Len(groups[g]) <= m
    OBVIOUS
  <2>1. k <= n /\ k + 1 \in 1..n
    BY <1>1
  <2>2. PICK m \in Nat : \A g \in 1..k : Len(groups[g]) <= m
    BY <1>3, <2>1
  <2> DEFINE x == Len(groups[k + 1])
  <2>3. x \in Nat
    BY <1>1, <2>1
  <2>4. ASSUME NEW g \in 1..(k + 1) PROVE Len(groups[g]) <= m + x
    <3>1. Len(groups[g]) \in Nat
      <4>1. g \in 1..n
        BY <1>1, <2>1
      <4> QED BY <1>1, <4>1
    <3>2. CASE g = k + 1
      BY <2>3, <3>2
    <3>3. CASE g \in 1..k
      <4>1. Len(groups[g]) <= m
        BY <2>2, <3>3
      <4> HIDE DEF x
      <4> QED BY <2>3, <3>1, <4>1
    <3> QED BY <3>2, <3>3
  <2> HIDE DEF x
  <2>5. m + x \in Nat
    BY <2>3
  <2> QED BY <2>4, <2>5
<1>4. \A k \in Nat : k \in V
  <2> HIDE DEF V
  <2> QED BY <1>2, <1>3, SetInduction
<1>5. PICK m \in Nat : \A g \in 1..n : Len(groups[g]) <= m
  <2>1. n \in V
    <3> HIDE DEF V
    <3> QED BY <1>1, <1>4
  <2>2. n <= n
    BY <1>1
  <2>3. n \in V => (n <= n => \E m \in Nat : \A g \in 1..n : Len(groups[g]) <= m)
    OBVIOUS
  <2> HIDE DEF V
  <2> QED BY <2>1, <2>2, <2>3
<1>6. L \in SUBSET (0..m) /\ L # {}
  BY <1>1, <1>5
<1> HIDE DEF L
<1>7. Max(L) \in L /\ \A x \in L : x <= Max(L)
  BY <1>6, GreatestOne
<1>8. Max(L) \in Nat
  <2>1. Max(L) \in 0..m
    BY <1>6, <1>7
  <2> QED BY <2>1
<1>9. \A g \in DOMAIN groups : Len(groups[g]) <= Max(L)
  BY <1>7 DEF L
<1> QED BY <1>8, <1>9 DEF L

LEMMA FlattenOne ==
  ASSUME NEW S, NEW seqs \in Seq(Seq(S)), Len(seqs) = 1
  PROVE  FlattenSeq(seqs) = seqs[1]
<1>1. PICK h : Flattens(h, seqs, S)
  BY FlattenRuns
<1>5. /\ FlattenSeq(seqs) = h[Len(seqs)] /\ h[0] = <<>>
      /\ \A i \in 1..Len(seqs) : h[i] = h[i-1] \o seqs[i]
  BY <1>1 DEF Flattens
<1>2. FlattenSeq(seqs) = h[1] /\ h[0] = <<>> /\ h[1] = h[0] \o seqs[1]
  <2>1. 1 \in 1..Len(seqs) /\ 1 - 1 = 0
    OBVIOUS
  <2>2. h[1] = h[1 - 1] \o seqs[1]
    BY <1>5, <2>1
  <2> QED BY <1>5, <2>1, <2>2
<1>3. seqs[1] \in Seq(S)
  OBVIOUS
<1>4. <<>> \o seqs[1] = seqs[1]
  BY <1>3
<1> QED BY <1>2, <1>4

LEMMA FlattenSingles ==
  ASSUME NEW S, NEW seqs \in Seq(Seq(S)), \A k \in 1..Len(seqs) : Len(seqs[k]) = 1
  PROVE  FlattenSeq(seqs) = [k \in 1..Len(seqs) |-> seqs[k][1]]
<1> DEFINE n == Len(seqs)
<1>1. PICK h : Flattens(h, seqs, S)
  BY FlattenRuns
<1>2. n \in Nat /\ \A k \in 1..n : seqs[k] \in Seq(S) /\ Len(seqs[k]) = 1
  OBVIOUS
<1>3. /\ FlattenSeq(seqs) = h[n] /\ h[0] = <<>>
      /\ \A i \in 0..n : h[i] \in Seq(S)
      /\ \A i \in 1..n : h[i] = h[i-1] \o seqs[i]
  BY <1>1 DEF Flattens
<1> HIDE DEF n
<1> DEFINE Q(k) == Len(h[k]) = k /\ \A j \in 1..k : h[k][j] = seqs[j][1]
           V == {k \in Nat : k <= n => Q(k)}
<1>4. 0 \in V
  BY <1>3
<1>5. ASSUME NEW k \in Nat, k \in V PROVE k + 1 \in V
  <2> SUFFICES ASSUME k + 1 <= n PROVE Q(k + 1)
    <3> HIDE DEF Q
    <3> QED OBVIOUS
  <2>1. k + 1 \in 1..n /\ k \in 0..n /\ (k + 1) - 1 = k /\ k <= n
    BY <1>2
  <2>2. Q(k)
    BY <1>5, <2>1
  <2> DEFINE a == h[k]  b == seqs[k + 1]  c == h[k + 1]
  <2>3. a \in Seq(S) /\ b \in Seq(S) /\ Len(b) = 1 /\ c = a \o b /\ Len(a) = k /\ \A j \in 1..k : a[j] = seqs[j][1]
    BY <1>2, <1>3, <2>1, <2>2
  <2> HIDE DEF a, b, c
  <2>4. Len(c) = k + 1 /\ (\A j \in 1..k : c[j] = a[j]) /\ c[k + 1] = b[1]
    <3>0. a \in Seq(S) /\ b \in Seq(S) /\ c = a \o b
      BY <2>3
    <3>1. /\ Len(c) = Len(a) + Len(b)
          /\ \A j \in 1..Len(a) : c[j] = a[j]
          /\ \A j \in 1..Len(b) : c[Len(a) + j] = b[j]
      BY <3>0
    <3>2. 1 \in 1..Len(b)
      BY <2>3
    <3> QED BY <2>3, <3>1, <3>2
  <2>5. \A j \in 1..(k + 1) : j \in 1..k \/ j = k + 1
    OBVIOUS
  <2>6. \A j \in 1..(k + 1) : c[j] = seqs[j][1]
    BY <2>3, <2>4, <2>5 DEF b
  <2> QED BY <2>4, <2>6 DEF c
<1>6. \A k \in Nat : k \in V
  <2> HIDE DEF V
  <2> QED BY <1>4, <1>5, SetInduction
<1>7. Q(n)
  <2>1. n <= n
    BY <1>2
  <2> HIDE DEF Q
  <2> QED BY <1>2, <1>6, <2>1
<1> DEFINE w == h[n]
<1>8. w \in Seq(S) /\ Len(w) = n /\ \A j \in 1..n : w[j] = seqs[j][1]
  <2>1. n \in 0..n
    BY <1>2
  <2> QED BY <1>3, <1>7, <2>1
<1> HIDE DEF w
<1>9. w = [j \in 1..n |-> w[j]]
  BY <1>8
<1>10. w = [j \in 1..n |-> seqs[j][1]]
  BY <1>8, <1>9
<1> QED BY <1>3, <1>10 DEF w, n

-------------------------------------------------------------------------------
(* Texts: where their lines are and how long they are.                         *)

(* What each line of a text is.                                                *)
LEMMA LineTyped ==
  ASSUME NEW t \in Texts, NEW k \in 1..Len(t)
  PROVE  /\ t[k] \in Lines /\ t[k].size \in Nat /\ t[k].id \in Nat /\ t[k].from \in Nat
         /\ t[k].kind \in Kinds /\ Len(t) \in Nat /\ DOMAIN t = 1..Len(t)
<1>1. t[k] \in Lines /\ Len(t) \in Nat /\ DOMAIN t = 1..Len(t)
  BY DEF Texts
<1> QED BY <1>1 DEF Lines

(* Where the lines of a text begin, one after another.                         *)
LEMMA LineStarts ==
  ASSUME NEW t \in Texts
  PROVE  \E F : /\ \A k \in 1..Len(t) : F[k] = IF k = 1 THEN 0 ELSE F[k-1] + t[k-1].size + 1
                /\ \A k \in 1..Len(t) : F[k] \in Nat /\ LineStart(t, k) = F[k]
<1> DEFINE n == Len(t)
           Upto(m, f) == f = [k \in 1..m |-> IF k = 1 THEN 0 ELSE f[k-1] + t[k-1].size + 1]
           T == {m \in Nat : \E f : Upto(m, f)}
<1>0. n \in Nat /\ \A k \in 1..n : t[k].size \in Nat
  BY LineTyped DEF Texts
<1>1. 0 \in T
  <2>1. Upto(0, [k \in 1..0 |-> 0])
    OBVIOUS
  <2> QED BY <2>1
<1>2. ASSUME NEW m \in Nat, m \in T
      PROVE  m + 1 \in T
  <2>1. PICK f : Upto(m, f)
    BY <1>2
  <2> DEFINE g == [k \in 1..(m+1) |-> IF k = m + 1
                                      THEN IF m + 1 = 1 THEN 0 ELSE f[m] + t[m].size + 1
                                      ELSE f[k]]
  <2>2. ASSUME NEW k \in 1..(m+1)
        PROVE  g[k] = IF k = 1 THEN 0 ELSE g[k-1] + t[k-1].size + 1
    <3>1. CASE k = m + 1 /\ k = 1
      BY <3>1
    <3>2. CASE k = m + 1 /\ k # 1
      <4>1. k - 1 = m /\ m \in 1..(m+1) /\ m # m + 1
        BY <3>2
      <4>2. g[m] = f[m]
        BY <4>1
      <4>3. g[k] = f[m] + t[m].size + 1
        BY <3>2
      <4> HIDE DEF g
      <4> QED BY <3>2, <4>1, <4>2, <4>3
    <3>3. CASE k # m + 1
      <4>1. k \in 1..m /\ g[k] = f[k]
        BY <3>3
      <4>2. f[k] = IF k = 1 THEN 0 ELSE f[k-1] + t[k-1].size + 1
        BY <2>1, <4>1
      <4>3. k # 1 => g[k-1] = f[k-1]
        <5>1. k # 1 => k - 1 \in 1..(m+1) /\ k - 1 # m + 1
          BY <4>1
        <5> QED BY <5>1
      <4> HIDE DEF g
      <4> QED BY <4>1, <4>2, <4>3
    <3> QED BY <3>1, <3>2, <3>3
  <2>3. g = [k \in 1..(m+1) |-> g[k]]
    OBVIOUS
  <2>4. Upto(m + 1, g)
    <3> HIDE DEF g
    <3> QED BY <2>2, <2>3
  <2> HIDE DEF g, Upto
  <2> QED BY <2>4
<1>3. \A m \in Nat : m \in T
  <2> HIDE DEF T
  <2> QED BY <1>1, <1>2, SetInduction
<1>4. \A m \in Nat : Upto(m, CHOOSE f : Upto(m, f))
  <2> HIDE DEF Upto
  <2> QED BY <1>3
<1>5. \A m \in Nat : LineStart(t, m) = (CHOOSE f : Upto(m, f))[m]
  BY DEF LineStart
<1> DEFINE F == CHOOSE f : Upto(n, f)
<1>6. \A k \in 1..n : F[k] = IF k = 1 THEN 0 ELSE F[k-1] + t[k-1].size + 1
  <2>1. Upto(n, F)
    BY <1>0, <1>4
  <2> HIDE DEF F
  <2> QED BY <2>1
<1> HIDE DEF F
<1> DEFINE S == {k \in Nat : k \in 1..n =>
                    F[k] \in Nat /\ \A m \in 1..n : k <= m => (CHOOSE f : Upto(m, f))[k] = F[k]}
<1>7. 0 \in S
  OBVIOUS
<1>8. ASSUME NEW k \in Nat, k \in S
      PROVE  k + 1 \in S
  <2> SUFFICES ASSUME k + 1 \in 1..n
               PROVE  F[k+1] \in Nat /\ \A m \in 1..n : k + 1 <= m => (CHOOSE f : Upto(m, f))[k+1] = F[k+1]
    OBVIOUS
  <2>1. (k + 1) - 1 = k
    OBVIOUS
  <2>2. CASE k = 0
    <3>1. F[k+1] = 0
      BY <1>6, <2>2
    <3>2. ASSUME NEW m \in 1..n
          PROVE  (CHOOSE f : Upto(m, f))[k+1] = 0
      <4> DEFINE h == CHOOSE f : Upto(m, f)
      <4>1. Upto(m, h) /\ 1 \in 1..m
        BY <1>4
      <4> HIDE DEF h
      <4>2. h[1] = 0
        BY <4>1
      <4> QED BY <4>2, <2>2 DEF h
    <3> QED BY <3>1, <3>2
  <2>3. CASE k # 0
    <3>1. k \in 1..n /\ F[k] \in Nat /\ t[k].size \in Nat
      BY <1>0, <1>8, <2>3
    <3>2. F[k+1] = F[k] + t[k].size + 1
      BY <1>6, <2>1, <2>3
    <3>3. ASSUME NEW m \in 1..n, k + 1 <= m
          PROVE  (CHOOSE f : Upto(m, f))[k+1] = F[k+1]
      <4> DEFINE h == CHOOSE f : Upto(m, f)
      <4>0. m \in Nat /\ k + 1 \in 1..m /\ k <= m
        BY <3>3
      <4>2. h[k] = F[k]
        BY <1>8, <3>1, <4>0
      <4>1. Upto(m, h)
        <5> HIDE DEF Upto
        <5> QED BY <1>4, <4>0
      <4> HIDE DEF h
      <4>3. h[k+1] = h[k] + t[k].size + 1
        BY <2>1, <2>3, <4>0, <4>1
      <4> QED BY <3>2, <4>2, <4>3 DEF h
    <3> QED BY <3>1, <3>2, <3>3
  <2> QED BY <2>2, <2>3
<1>9. \A k \in Nat : k \in S
  <2> HIDE DEF S
  <2> QED BY <1>7, <1>8, SetInduction
<1>10. \A k \in 1..n : F[k] \in Nat /\ LineStart(t, k) = F[k]
  <2>1. ASSUME NEW k \in 1..n
        PROVE  F[k] \in Nat /\ (CHOOSE f : Upto(k, f))[k] = F[k]
    <3>1. k \in Nat /\ k <= k
      OBVIOUS
    <3> QED BY <1>9, <3>1
  <2> HIDE DEF Upto, S
  <2> QED BY <1>5, <2>1
<1> QED BY <1>6, <1>10

(* Where the lines of a text begin and end.                                    *)
LEMMA StartOfLine ==
  ASSUME NEW t \in Texts, NEW k \in 1..Len(t)
  PROVE  /\ LineStart(t, k) \in Nat /\ LineEnd(t, k) \in Nat /\ t[k].size \in Nat
         /\ LineEnd(t, k) = LineStart(t, k) + t[k].size
         /\ k = 1 => LineStart(t, k) = 0
         /\ k # 1 => k - 1 \in 1..Len(t) /\ LineStart(t, k) = LineEnd(t, k - 1) + 1
<1>1. PICK F : /\ \A j \in 1..Len(t) : F[j] = IF j = 1 THEN 0 ELSE F[j-1] + t[j-1].size + 1
               /\ \A j \in 1..Len(t) : F[j] \in Nat /\ LineStart(t, j) = F[j]
  BY LineStarts
<1>2. t[k].size \in Nat
  BY LineTyped
<1>3. k # 1 => k - 1 \in 1..Len(t) /\ LineStart(t, k) = LineStart(t, k - 1) + t[k-1].size + 1
               /\ t[k-1].size \in Nat /\ LineStart(t, k - 1) \in Nat
  <2>1. k # 1 => k - 1 \in 1..Len(t)
    BY DEF Texts
  <2> QED BY <1>1, <2>1, LineTyped
<1> QED BY <1>1, <1>2, <1>3 DEF LineEnd

(* Where a line begins depends on the lengths of the lines before it only.     *)
LEMMA StartsAgree ==
  ASSUME NEW t \in Texts, NEW u \in Texts, NEW m \in Nat, m <= Len(t), m <= Len(u),
         \A k \in 1..(m-1) : t[k].size = u[k].size
  PROVE  \A k \in 1..m : LineStart(t, k) = LineStart(u, k)
<1> DEFINE T == {k \in Nat : k \in 1..m => LineStart(t, k) = LineStart(u, k)}
<1>1. 0 \in T
  OBVIOUS
<1>2. ASSUME NEW k \in Nat, k \in T
      PROVE  k + 1 \in T
  <2> SUFFICES ASSUME k + 1 \in 1..m PROVE LineStart(t, k + 1) = LineStart(u, k + 1)
    OBVIOUS
  <2>0. Len(t) \in Nat /\ Len(u) \in Nat
    BY DEF Texts
  <2>1. k + 1 \in 1..Len(t) /\ k + 1 \in 1..Len(u) /\ (k + 1) - 1 = k
    BY <2>0
  <2>2. CASE k = 0
    BY <2>1, <2>2, StartOfLine
  <2>3. CASE k # 0
    <3>1. k \in 1..m /\ k \in 1..(m-1) /\ k \in 1..Len(t) /\ k \in 1..Len(u) /\ k + 1 # 1
      BY <2>0, <2>3
    <3>2. LineStart(t, k) = LineStart(u, k) /\ t[k].size = u[k].size
      BY <1>2, <3>1
    <3>3. LineStart(t, k + 1) = LineEnd(t, k) + 1 /\ LineStart(u, k + 1) = LineEnd(u, k) + 1
      BY <2>1, <3>1, StartOfLine
    <3>4. LineEnd(t, k) = LineStart(t, k) + t[k].size /\ LineEnd(u, k) = LineStart(u, k) + u[k].size
      BY DEF LineEnd
    <3> QED BY <3>2, <3>3, <3>4
  <2> QED BY <2>2, <2>3
<1>3. \A k \in Nat : k \in T
  <2> HIDE DEF T
  <2> QED BY <1>1, <1>2, SetInduction
<1> QED BY <1>3

(* A line ends before the ones after it begin.                                 *)
LEMMA LinesInOrder ==
  ASSUME NEW t \in Texts, NEW i \in 1..Len(t)
  PROVE  \A j \in 1..Len(t) : i < j => LineEnd(t, i) < LineStart(t, j)
<1> DEFINE T == {j \in Nat : j \in 1..Len(t) /\ i < j => LineEnd(t, i) < LineStart(t, j)}
<1>0. Len(t) \in Nat
  BY DEF Texts
<1>1. 0 \in T
  OBVIOUS
<1>2. ASSUME NEW j \in Nat, j \in T
      PROVE  j + 1 \in T
  <2> SUFFICES ASSUME j + 1 \in 1..Len(t), i < j + 1 PROVE LineEnd(t, i) < LineStart(t, j + 1)
    OBVIOUS
  <2>1. j \in 1..Len(t) /\ j + 1 # 1 /\ (j + 1) - 1 = j
    BY <1>0
  <2>0. LineStart(t, j + 1) = LineEnd(t, j) + 1
    BY <2>1, StartOfLine
  <2>5. /\ LineEnd(t, j) \in Nat /\ LineStart(t, j) \in Nat /\ t[j].size \in Nat
        /\ LineEnd(t, j) = LineStart(t, j) + t[j].size
    BY <2>1, StartOfLine
  <2>6. LineEnd(t, i) \in Nat
    BY StartOfLine
  <2>2. LineStart(t, j + 1) = LineEnd(t, j) + 1 /\ LineEnd(t, j) \in Nat /\ LineStart(t, j) \in Nat
        /\ LineStart(t, j) <= LineEnd(t, j) /\ LineEnd(t, i) \in Nat
    BY <2>0, <2>5, <2>6
  <2>3. CASE i = j
    BY <2>2, <2>3
  <2>4. CASE i # j
    <3>1. LineEnd(t, i) < LineStart(t, j)
      BY <1>2, <2>1, <2>4
    <3> QED BY <2>2, <3>1
  <2> QED BY <2>3, <2>4
<1>3. \A j \in Nat : j \in T
  <2> HIDE DEF T
  <2> QED BY <1>1, <1>2, SetInduction
<1> QED BY <1>3

(* The length of a text.                                                       *)
LEMMA CharsIs ==
  ASSUME NEW t \in Texts
  PROVE  /\ Chars(t) \in Nat
         /\ t = <<>> => Chars(t) = 0
         /\ t # <<>> => Len(t) \in 1..Len(t) /\ Chars(t) = LineEnd(t, Len(t))
<1>1. CASE t = <<>>
  BY <1>1 DEF Chars
<1>2. CASE t # <<>>
  <2>1. Len(t) \in 1..Len(t)
    BY <1>2 DEF Texts
  <2> QED BY <1>2, <2>1, StartOfLine DEF Chars
<1> QED BY <1>1, <1>2

(* The length of two texts, one after the other, and with a blank line         *)
(* between.                                                                    *)
LEMMA CharsOfBoth ==
  ASSUME NEW t \in Texts, NEW u \in Texts, t # <<>>, u # <<>>
  PROVE  t \o u \in Texts /\ t \o u # <<>> /\ Chars(t \o u) = Chars(t) + 1 + Chars(u)
<1> DEFINE v == t \o u
           T == {k \in Nat : k \in 1..Len(u) => LineStart(v, Len(t) + k) = Chars(t) + 1 + LineStart(u, k)}
<1>0. /\ v \in Texts /\ Len(v) = Len(t) + Len(u) /\ Len(t) \in Nat \ {0} /\ Len(u) \in Nat \ {0}
      /\ \A k \in 1..Len(t) : v[k] = t[k]
      /\ \A k \in 1..Len(u) : v[Len(t) + k] = u[k]
  BY DEF Texts
<1> HIDE DEF v
<1>1. 0 \in T
  OBVIOUS
<1>2. ASSUME NEW k \in Nat, k \in T
      PROVE  k + 1 \in T
  <2> SUFFICES ASSUME k + 1 \in 1..Len(u)
               PROVE  LineStart(v, Len(t) + (k + 1)) = Chars(t) + 1 + LineStart(u, k + 1)
    OBVIOUS
  <2>1. Len(t) + (k + 1) \in 1..Len(v) /\ Len(t) + (k + 1) # 1 /\ (Len(t) + (k + 1)) - 1 = Len(t) + k
    BY <1>0
  <2>2. LineStart(v, Len(t) + (k + 1)) = LineEnd(v, Len(t) + k) + 1
    BY <1>0, <2>1, StartOfLine
  <2>3. CASE k = 0
    <3>1. Len(t) \in 1..Len(t) /\ Len(t) \in 1..Len(v) /\ Len(t) + k = Len(t) /\ k + 1 = 1
      BY <1>0, <2>3
    <3>2. LineStart(v, Len(t)) = LineStart(t, Len(t))
      <4>1. \A i \in 1..(Len(t) - 1) : v[i].size = t[i].size
        BY <1>0
      <4>2. Len(t) <= Len(v) /\ Len(t) <= Len(t)
        BY <1>0
      <4> QED BY <1>0, <3>1, <4>1, <4>2, StartsAgree
    <3>3. LineEnd(v, Len(t)) = LineEnd(t, Len(t))
      BY <1>0, <3>1, <3>2 DEF LineEnd
    <3>4. LineStart(u, k + 1) = 0
      BY <3>1, StartOfLine
    <3> QED BY <2>2, <3>1, <3>3, <3>4, CharsIs
  <2>4. CASE k # 0
    <3>1. k \in 1..Len(u) /\ k + 1 # 1 /\ (k + 1) - 1 = k /\ Len(t) + k \in 1..Len(v)
      BY <1>0, <2>4
    <3>2. LineStart(v, Len(t) + k) = Chars(t) + 1 + LineStart(u, k)
      BY <1>2, <3>1
    <3>3. LineEnd(v, Len(t) + k) = LineStart(v, Len(t) + k) + u[k].size
      BY <1>0, <3>1, StartOfLine
    <3>4. LineStart(u, k + 1) = LineEnd(u, k) + 1 /\ LineEnd(u, k) = LineStart(u, k) + u[k].size
          /\ LineStart(u, k) \in Nat /\ u[k].size \in Nat
      BY <3>1, StartOfLine
    <3>5. Chars(t) \in Nat
      BY CharsIs
    <3> DEFINE at == LineStart(v, Len(t) + k)  next == LineStart(v, Len(t) + (k + 1))
               from == LineStart(u, k)  size == u[k].size  after == LineStart(u, k + 1)
               before == Chars(t)
    <3>6. at = before + 1 + from /\ next = (at + size) + 1 /\ after = (from + size) + 1
      BY <2>2, <3>2, <3>3, <3>4
    <3>7. before \in Nat /\ from \in Nat /\ size \in Nat
      BY <3>4, <3>5
    <3> HIDE DEF at, next, from, size, after, before
    <3>8. next = before + 1 + after
      BY <3>6, <3>7
    <3> QED BY <3>8 DEF next, before, after
  <2> QED BY <2>3, <2>4
<1>3. \A k \in Nat : k \in T
  <2> HIDE DEF T
  <2> QED BY <1>1, <1>2, SetInduction
<1>4. Len(u) \in 1..Len(u) /\ v # <<>> /\ u # <<>>
  BY <1>0
<1>5. LineStart(v, Len(v)) = Chars(t) + 1 + LineStart(u, Len(u))
  BY <1>0, <1>3, <1>4
<1>6. LineEnd(v, Len(v)) = LineStart(v, Len(v)) + u[Len(u)].size
  BY <1>0, <1>4 DEF LineEnd
<1>7. Chars(v) = LineEnd(v, Len(v)) /\ Chars(u) = LineStart(u, Len(u)) + u[Len(u)].size
  BY <1>0, <1>4, CharsIs DEF LineEnd
<1>8. LineStart(u, Len(u)) \in Nat /\ u[Len(u)].size \in Nat /\ Chars(t) \in Nat
  BY <1>4, CharsIs, StartOfLine
<1> QED BY <1>0, <1>4, <1>5, <1>6, <1>7, <1>8 DEF v

LEMMA CharsOfJoined ==
  ASSUME NEW t \in Texts, NEW u \in Texts, t # <<>>, u # <<>>
  PROVE  Joined(t, u) \in Texts /\ Joined(t, u) # <<>> /\ Chars(Joined(t, u)) = Chars(t) + 2 + Chars(u)
<1> DEFINE b == <<Blank>>
<1>1. b \in Texts /\ b # <<>> /\ Len(b) = 1 /\ b[1].size = 0
  BY DEF Texts, Lines, Blank, Kinds
<1> HIDE DEF b
<1>2. Chars(b) = 0
  <2>1. 1 \in 1..Len(b)
    BY <1>1
  <2>2. LineStart(b, 1) = 0 /\ LineEnd(b, 1) = LineStart(b, 1) + b[1].size
    BY <1>1, <2>1, StartOfLine
  <2>3. Chars(b) = LineEnd(b, Len(b))
    BY <1>1, CharsIs
  <2> QED BY <1>1, <2>2, <2>3
<1>3. b \o u \in Texts /\ b \o u # <<>> /\ Chars(b \o u) = 1 + Chars(u)
  BY <1>1, <1>2, CharsOfBoth, CharsIs
<1>4. Chars(t \o (b \o u)) = Chars(t) + 1 + Chars(b \o u) /\ t \o (b \o u) \in Texts /\ t \o (b \o u) # <<>>
  BY <1>3, CharsOfBoth
<1>5. Joined(t, u) = t \o (b \o u)
  BY <1>1 DEF Joined, Texts, b
<1> QED BY <1>3, <1>4, <1>5, CharsIs

-------------------------------------------------------------------------------
(* The parser: the chunks of a section.                                        *)

(* How often a number fits into another.                                       *)
LEMMA DivBound ==
  ASSUME NEW a \in Nat, NEW d \in Nat \ {0}
  PROVE  a \div d \in Nat /\ (a \div d) * d <= a
OBVIOUS

LEMMA DivLeast ==
  ASSUME NEW a \in Nat, NEW b \in Nat, NEW d \in Nat \ {0}, a * d <= b
  PROVE  a <= b \div d
OBVIOUS

LEMMA DivRest ==
  ASSUME NEW a \in Nat, NEW d \in Nat \ {0}
  PROVE  a \div d \in Nat /\ (a \div d) * d <= a /\ a < (a \div d) * d + d
OBVIOUS

LEMMA PieceTyped ==
  ASSUME NEW line \in Lines, NEW a \in Nat, NEW b \in Nat
  PROVE  [line EXCEPT !.from = a, !.size = b] \in Lines
BY DEF Lines

(* The characters from one place to another are of lines one after another. *)
LEMMA TouchedIs ==
  ASSUME NEW t \in Texts, NEW a \in Nat, NEW b \in Nat, a < b, b <= Chars(t)
  PROVE  \E lo \in 1..Len(t), hi \in 1..Len(t) :
           /\ lo <= hi /\ Touched(t, a, b) = lo..hi
           /\ Min(Touched(t, a, b)) = lo /\ Cardinality(Touched(t, a, b)) = hi - lo + 1
<1> DEFINE n == Len(t)
           After == {i \in 1..n : a <= LineEnd(t, i)}
           Behind == {i \in 1..n : LineStart(t, i) <= b}
           lo == Min(After)  hi == Max(Behind)
<1>1. n \in Nat /\ DOMAIN t = 1..n
  BY DEF Texts
<1>2. t # <<>>
  BY CharsIs
<1>3. n \in 1..n /\ 1 \in 1..n /\ Chars(t) = LineEnd(t, n)
  BY <1>1, <1>2, CharsIs
<1>4. \A i \in 1..n : /\ LineStart(t, i) \in Nat /\ LineEnd(t, i) \in Nat /\ LineStart(t, i) <= LineEnd(t, i)
                      /\ i = 1 => LineStart(t, i) = 0
                      /\ i # 1 => i - 1 \in 1..n /\ LineStart(t, i) = LineEnd(t, i - 1) + 1
  <2> SUFFICES ASSUME NEW i \in 1..n
               PROVE  /\ LineStart(t, i) \in Nat /\ LineEnd(t, i) \in Nat /\ LineStart(t, i) <= LineEnd(t, i)
                      /\ i = 1 => LineStart(t, i) = 0
                      /\ i # 1 => i - 1 \in 1..n /\ LineStart(t, i) = LineEnd(t, i - 1) + 1
    OBVIOUS
  <2>1. /\ LineStart(t, i) \in Nat /\ LineEnd(t, i) \in Nat /\ t[i].size \in Nat
        /\ LineEnd(t, i) = LineStart(t, i) + t[i].size
    BY StartOfLine
  <2>2. i = 1 => LineStart(t, i) = 0
    BY StartOfLine
  <2>3. i # 1 => i - 1 \in 1..n /\ LineStart(t, i) = LineEnd(t, i - 1) + 1
    BY StartOfLine
  <2>4. LineStart(t, i) <= LineEnd(t, i)
    BY <2>1
  <2> QED BY <2>1, <2>2, <2>3, <2>4
<1>5. \A i, j \in 1..n : i < j => LineEnd(t, i) < LineStart(t, j)
  BY LinesInOrder
<1>6. After \in SUBSET (0..n) /\ n \in After
  BY <1>1, <1>3, <1>4, CharsIs
<1>7. Behind \in SUBSET (0..n) /\ 1 \in Behind
  BY <1>1, <1>3, <1>4
<1>8. lo \in After /\ \A i \in After : lo <= i
  <2> HIDE DEF After, n
  <2> QED BY <1>1, <1>6, LeastOne
<1>9. hi \in Behind /\ \A i \in Behind : i <= hi
  <2> HIDE DEF Behind, n
  <2> QED BY <1>1, <1>7, GreatestOne
<1>10. lo \in 1..n /\ hi \in 1..n
  BY <1>8, <1>9
<1> HIDE DEF lo, hi
<1>11. lo \in Behind
  <2>1. CASE lo = 1
    BY <1>7, <2>1
  <2>2. CASE lo # 1
    <3>1. lo - 1 \in 1..n /\ LineStart(t, lo) = LineEnd(t, lo - 1) + 1 /\ LineEnd(t, lo - 1) \in Nat
      BY <1>4, <1>10, <2>2
    <3>2. lo - 1 \notin After
      BY <1>8, <1>10
    <3>3. LineStart(t, lo) <= a
      BY <3>1, <3>2
    <3>4. LineStart(t, lo) <= b
      BY <1>4, <1>10, <3>3
    <3> QED BY <1>10, <3>4
  <2> QED BY <2>1, <2>2
<1>12. lo <= hi
  BY <1>9, <1>11
<1>13. ASSUME NEW i \in lo..hi
       PROVE  i \in 1..n /\ LineStart(t, i) <= b /\ a <= LineEnd(t, i)
  <2>1. i \in 1..n
    BY <1>10
  <2>2. a <= LineEnd(t, i)
    <3>1. a <= LineEnd(t, lo) /\ LineEnd(t, lo) \in Nat /\ LineEnd(t, i) \in Nat /\ LineStart(t, i) \in Nat
          /\ LineStart(t, i) <= LineEnd(t, i)
      BY <1>4, <1>8, <1>10, <2>1
    <3>2. CASE i = lo
      BY <3>1, <3>2
    <3>3. CASE i # lo
      <4>1. LineEnd(t, lo) < LineStart(t, i)
        BY <1>5, <1>10, <2>1, <3>3
      <4> QED BY <3>1, <4>1
    <3> QED BY <3>2, <3>3
  <2>3. LineStart(t, i) <= b
    <3>1. LineStart(t, hi) <= b /\ LineStart(t, hi) \in Nat /\ LineStart(t, i) \in Nat /\ LineEnd(t, i) \in Nat
          /\ LineStart(t, i) <= LineEnd(t, i)
      BY <1>4, <1>9, <1>10, <2>1
    <3>2. CASE i = hi
      BY <3>1, <3>2
    <3>3. CASE i # hi
      <4>1. LineEnd(t, i) < LineStart(t, hi)
        BY <1>5, <1>10, <2>1, <3>3
      <4> QED BY <3>1, <4>1
    <3> QED BY <3>2, <3>3
  <2> QED BY <2>1, <2>2, <2>3
<1>14. Touched(t, a, b) = lo..hi
  <2>1. \A i \in Touched(t, a, b) : i \in After /\ i \in Behind
    BY <1>1 DEF Touched
  <2>2. \A i \in Touched(t, a, b) : i \in lo..hi
    BY <1>8, <1>9, <1>10, <2>1
  <2>3. \A i \in lo..hi : i \in Touched(t, a, b)
    BY <1>1, <1>13 DEF Touched
  <2> QED BY <2>2, <2>3
<1>15. Cardinality(lo..hi) = hi - lo + 1
  BY <1>10, <1>12, FS_Interval
<1>16. Min(lo..hi) = lo
  <2>1. lo..hi \in SUBSET (0..n) /\ lo..hi # {} /\ lo \in lo..hi
    BY <1>10, <1>12
  <2>2. Min(lo..hi) \in lo..hi /\ \A x \in lo..hi : Min(lo..hi) <= x
    <3> HIDE DEF n
    <3> QED BY <1>1, <2>1, LeastOne
  <2> QED BY <1>10, <2>1, <2>2
<1> QED BY <1>10, <1>12, <1>14, <1>15, <1>16

(* What is held of a line, and that what lies between the two places is kept.  *)
LEMMA PieceIs ==
  ASSUME NEW t \in Texts, NEW a \in Nat, NEW b \in Nat, a < b, NEW i \in Touched(t, a, b)
  PROVE  /\ Piece(t, a, b, i) \in Lines
         /\ \A c \in LineStart(t, i)..(LineEnd(t, i) - 1) :
              a <= c /\ c < b => <<t[i].id, t[i].from + (c - LineStart(t, i))>> \in Origin(Piece(t, a, b, i))
<1> DEFINE low == LineStart(t, i)  high == LineEnd(t, i)  start == Greatest(a, low)
           from == t[i].from + (start - low)  size == Least(b, high) - start
<1>1. i \in 1..Len(t) /\ low <= b /\ a <= high
  BY DEF Touched, Texts
<1>2. low \in Nat /\ high \in Nat /\ low <= high
  <2>1. LineStart(t, i) \in Nat /\ LineEnd(t, i) \in Nat /\ t[i].size \in Nat /\ LineEnd(t, i) = LineStart(t, i) + t[i].size
    BY <1>1, StartOfLine
  <2> QED BY <2>1
<1>3. t[i] \in Lines /\ t[i].from \in Nat
  BY <1>1, LineTyped
<1>0. Piece(t, a, b, i) = [t[i] EXCEPT !.from = from, !.size = size]
  <2> HIDE DEF size, start, low
  <2>1. [t[i] EXCEPT !.from = @ + (start - low), !.size = size] = [t[i] EXCEPT !.from = from, !.size = size]
    OBVIOUS
  <2> QED BY <2>1 DEF Piece, size, start, low
<1> HIDE DEF low, high
<1>4. start \in Nat /\ start - low \in Nat /\ size \in Nat
  BY <1>1, <1>2 DEF Greatest, Least
<1>5. from \in Nat
  BY <1>3, <1>4
<1> DEFINE line == [t[i] EXCEPT !.from = from, !.size = size]
<1>6. line \in Lines
  <2> HIDE DEF from, size
  <2> QED BY <1>3, <1>4, <1>5, PieceTyped
<1>7. line.id = t[i].id /\ line.from = from /\ line.size = size
  <2> HIDE DEF from, size
  <2> QED BY <1>3 DEF Lines
<1>8. ASSUME NEW c \in low..(high - 1), a <= c, c < b
      PROVE  <<t[i].id, t[i].from + (c - low)>> \in Origin(line)
  <2> DEFINE k == c - start
  <2>1. k \in 0..(size - 1)
    BY <1>2, <1>8 DEF Greatest, Least
  <2>2. from + k = t[i].from + (c - low)
    <3>1. c \in Nat
      BY <1>2
    <3> DEFINE g == t[i].from
    <3>2. g \in Nat /\ from = g + (start - low)
      BY <1>3
    <3> HIDE DEF start, g, from
    <3>3. from + k = g + (c - low)
      BY <1>2, <1>4, <3>1, <3>2
    <3> QED BY <3>3 DEF g
  <2> HIDE DEF k, from, size
  <2> QED BY <1>7, <2>1, <2>2 DEF Origin
<1> QED BY <1>0, <1>6, <1>8 DEF low, high

LEMMA WindowIs ==
  ASSUME NEW t \in Texts, NEW a \in Nat, NEW b \in Nat, a < b, b <= Chars(t)
  PROVE  /\ Window(t, a, b) \in SomeTexts
         /\ \A i \in DOMAIN t : \A c \in LineStart(t, i)..(LineEnd(t, i) - 1) :
              a <= c /\ c < b => <<t[i].id, t[i].from + (c - LineStart(t, i))>> \in Origins(Window(t, a, b))
<1>1. PICK lo \in 1..Len(t), hi \in 1..Len(t) :
           /\ lo <= hi /\ Touched(t, a, b) = lo..hi
           /\ Min(Touched(t, a, b)) = lo /\ Cardinality(Touched(t, a, b)) = hi - lo + 1
  BY TouchedIs
<1> DEFINE n == hi - lo + 1  w == [k \in 1..n |-> Piece(t, a, b, lo + k - 1)]
<1>2. n \in Nat \ {0} /\ \A k \in 1..n : lo + k - 1 \in lo..hi
  BY <1>1
<1>3. Window(t, a, b) = w
  <2>1. Window(t, a, b) = [k \in 1..Cardinality(Touched(t, a, b)) |-> Piece(t, a, b, Min(Touched(t, a, b)) + k - 1)]
    BY DEF Window, Piece, Touched
  <2> QED BY <1>1, <2>1
<1>4. \A k \in 1..n : Piece(t, a, b, lo + k - 1) \in Lines
  BY <1>1, <1>2, PieceIs
<1>5. w \in Seq(Lines) /\ w # <<>> /\ DOMAIN w = 1..n
  <2> HIDE DEF n
  <2>1. w \in [1..n -> Lines]
    BY <1>4
  <2> HIDE DEF w
  <2>2. DOMAIN w = 1..n /\ n \in Nat
    BY <1>2, <2>1
  <2>3. w \in Seq(Lines)
    BY <2>1, <2>2
  <2>4. Len(w) = n
    BY <2>2, <2>3
  <2>5. w # <<>>
    BY <1>2, <2>4
  <2> QED BY <2>2, <2>3, <2>5
<1>6. ASSUME NEW i \in DOMAIN t, NEW c \in LineStart(t, i)..(LineEnd(t, i) - 1), a <= c, c < b
      PROVE  <<t[i].id, t[i].from + (c - LineStart(t, i))>> \in Origins(w)
  <2>1. i \in 1..Len(t)
    BY DEF Texts
  <2>2. LineStart(t, i) \in Nat /\ LineEnd(t, i) \in Nat
    BY <2>1, StartOfLine
  <2>3. i \in Touched(t, a, b)
    BY <1>6, <2>2 DEF Touched
  <2> DEFINE o == <<t[i].id, t[i].from + (c - LineStart(t, i))>>  k == i - lo + 1
  <2>4. o \in Origin(Piece(t, a, b, i))
    BY <1>6, <2>3, PieceIs
  <2>5. k \in 1..n /\ lo + k - 1 = i
    BY <1>1, <2>3
  <2>6. k \in DOMAIN w /\ w[k] = Piece(t, a, b, i)
    BY <1>5, <2>5
  <2> HIDE DEF w, o, k
  <2>7. o \in Origins(w)
    BY <2>4, <2>6 DEF Origins
  <2> QED BY <2>7 DEF o
<1> HIDE DEF w
<1> QED BY <1>3, <1>5, <1>6 DEF SomeTexts, Texts

(* The pieces of prose: none is empty.                                         *)
(* Where the pieces of prose begin and end.                                    *)
LEMMA PiecesOfProse ==
  ASSUME NEW text \in Texts
  PROVE  LET M == MaxChunkChars
             n == Chars(text)
             pieces == (n + M - 1) \div M
         IN /\ pieces \in Nat
            /\ \A p \in 1..pieces :
                 (p - 1) * M \in Nat /\ Least(p * M, n) \in Nat /\ (p - 1) * M < Least(p * M, n) /\ Least(p * M, n) <= n
            /\ \A c \in 0..(n - 1) : \E p \in 1..pieces : (p - 1) * M <= c /\ c < Least(p * M, n)
<1> DEFINE M == MaxChunkChars  n == Chars(text)  b == n + M - 1  pieces == b \div M
<1>1. M \in Nat \ {0} /\ n \in Nat
  BY ChunkAssumption, CharsIs
<1> HIDE DEF M, n
<1>2. b \in Nat
  BY <1>1
<1> HIDE DEF b
<1>3. pieces \in Nat /\ pieces * M <= b
  BY <1>1, <1>2, DivBound
<1>4. ASSUME NEW p \in 1..pieces
      PROVE  (p - 1) * M \in Nat /\ Least(p * M, n) \in Nat /\ (p - 1) * M < Least(p * M, n) /\ Least(p * M, n) <= n
  <2> HIDE DEF pieces
  <2>1. p \in Nat \ {0} /\ p <= pieces /\ p - 1 \in Nat
    BY <1>3
  <2> DEFINE low == (p - 1) * M  high == p * M  all == pieces * M
  <2>2. low \in Nat /\ high \in Nat /\ all \in Nat
    BY <1>1, <1>3, <2>1
  <2>3. high = low + M
    BY <1>1, <2>1
  <2>4. high <= all
    BY <1>1, <1>3, <2>1
  <2>5. all <= b
    BY <1>3
  <2> HIDE DEF low, high, all
  <2>6. low < n
    BY <1>1, <2>2, <2>3, <2>4, <2>5 DEF b
  <2>7. low < high
    BY <1>1, <2>2, <2>3
  <2>8. low \in Nat /\ Least(high, n) \in Nat /\ low < Least(high, n) /\ Least(high, n) <= n
    BY <1>1, <2>2, <2>6, <2>7 DEF Least
  <2> QED BY <2>8 DEF low, high
<1>5. ASSUME NEW c \in 0..(n - 1)
      PROVE  \E p \in 1..pieces : (p - 1) * M <= c /\ c < Least(p * M, n)
  <2> DEFINE q == c \div M  p == q + 1  low == q * M  high == p * M
  <2>1. c \in Nat /\ c < n
    BY <1>1
  <2>2. q \in Nat /\ low <= c /\ c < low + M
    BY <1>1, <2>1, DivRest
  <2> HIDE DEF q
  <2>3. low \in Nat /\ high = low + M /\ p \in Nat \ {0} /\ p - 1 = q
    BY <1>1, <2>2
  <2>4. high <= b
    <3> HIDE DEF low, high, p
    <3> QED BY <1>1, <2>1, <2>2, <2>3 DEF b
  <2>5. p <= b \div M
    <3> HIDE DEF p
    <3> QED BY <1>1, <1>2, <2>3, <2>4, DivLeast
  <2>6. p \in 1..pieces
    <3> HIDE DEF p
    <3>1. p <= pieces
      BY <2>5
    <3> HIDE DEF pieces
    <3> QED BY <1>3, <2>3, <3>1
  <2>7. (p - 1) * M <= c
    BY <2>2, <2>3
  <2>8. c < Least(high, n)
    <3> HIDE DEF low, high
    <3> QED BY <1>1, <2>1, <2>2, <2>3 DEF Least
  <2> HIDE DEF p, pieces
  <2> QED BY <2>6, <2>7, <2>8
<1> HIDE DEF pieces
<1> QED BY <1>3, <1>4, <1>5 DEF M, n, pieces, b

LEMMA SplitTextTyped ==
  ASSUME NEW text \in Texts
  PROVE  SplitText(text) \in Seq(SomeTexts)
<1> DEFINE M == MaxChunkChars  n == Chars(text)  pieces == (n + M - 1) \div M
           At(p) == Window(text, (p - 1) * M, Least(p * M, n))
<1>1. /\ pieces \in Nat
      /\ \A p \in 1..pieces :
           (p - 1) * M \in Nat /\ Least(p * M, n) \in Nat /\ (p - 1) * M < Least(p * M, n) /\ Least(p * M, n) <= n
  BY PiecesOfProse
<1>2. SplitText(text) = [p \in 1..pieces |-> At(p)]
  BY DEF SplitText
<1> HIDE DEF pieces
<1>3. \A p \in 1..pieces : At(p) \in SomeTexts
  BY <1>1, WindowIs
<1> HIDE DEF At
<1> QED BY <1>1, <1>2, <1>3

LEMMA AddTableRowTyped ==
  ASSUME NEW header \in Texts, header # <<>>, NEW s \in TableState, NEW row \in Lines
  PROVE  AddTableRow(header, s, row) \in TableState
<1>1. header \o s.rows \in SomeTexts
  BY DEF SomeTexts, Texts, TableState
<1>2. <<row>> \in Texts /\ Append(s.rows, row) \in Texts
  BY DEF Texts, TableState
<1>3. [parts |-> Append(s.parts, header \o s.rows), rows |-> <<row>>] \in TableState
  BY <1>1, <1>2 DEF TableState
<1>4. [s EXCEPT !.rows = Append(@, row)] \in TableState
  BY <1>2 DEF TableState
<1> QED BY <1>3, <1>4 DEF AddTableRow

(* The rows of a table are split one after another. *)
LEMMA RowsSplit ==
  ASSUME NEW header \in Texts, header # <<>>, NEW rest \in Texts
  PROVE  \E F : /\ F[0] = [parts |-> <<>>, rows |-> <<>>]
                /\ \A k \in 0..Len(rest) : F[k] \in TableState
                /\ \A k \in 1..Len(rest) : F[k] = AddTableRow(header, F[k-1], rest[k])
                /\ FoldLeft(LAMBDA s, row : AddTableRow(header, s, row), [parts |-> <<>>, rows |-> <<>>], rest) = F[Len(rest)]
<1> DEFINE base == [parts |-> <<>>, rows |-> <<>>]
           n == Len(rest)
           seq == rest
           D == TableState
           st == [k \in 1..n |-> [s \in D |-> AddTableRow(header, s, seq[k])]]
           G == CHOOSE g : g = [s \in SUBSET (1..n) |->
                  IF s = {} THEN base ELSE AddTableRow(header, g[s \ {Max(s)}], seq[Max(s)])]
           end == FoldLeft(LAMBDA s, row : AddTableRow(header, s, row), base, seq)
           F == [k \in 0..n |-> G[1..k]]
<1>1. DOMAIN seq = 1..n /\ n \in Nat
  BY DEF Texts
<1>0. n \in Nat
  BY <1>1
<1>2. base \in D
  BY DEF TableState, Texts
<1>3. \A s \in D : \A k \in 1..n : AddTableRow(header, s, seq[k]) \in D
  <2>1. \A k \in 1..n : seq[k] \in Lines
    BY DEF Texts
  <2> QED BY <2>1, AddTableRowTyped
<1>12. FoldLeft(LAMBDA s, row : AddTableRow(header, s, row), [parts |-> <<>>, rows |-> <<>>], rest) = end
  BY DEF base, seq
<1>13. \A k \in 1..n : seq[k] = rest[k]
  BY <1>1
<1> HIDE DEF n, base, seq, D
<1>5. st \in [1..n -> [D -> D]]
  BY <1>3
<1> HIDE DEF st
<1>6. G = [s \in SUBSET (1..n) |-> IF s = {} THEN base ELSE AddTableRow(header, G[s \ {Max(s)}], seq[Max(s)])]
  <2>1. PICK g : Folds(g, n, D, base, st)
    BY <1>0, <1>2, <1>5, FoldExists
  <2>2. ASSUME NEW s \in SUBSET (1..n), s # {}
        PROVE  st[Max(s)][g[s \ {Max(s)}]] = AddTableRow(header, g[s \ {Max(s)}], seq[Max(s)])
    <3>1. s \in SUBSET (0..n)
      OBVIOUS
    <3>2. Max(s) \in 1..n
      BY <1>0, <2>2, <3>1, GreatestOne
    <3>3. g[s \ {Max(s)}] \in D
      BY <2>1 DEF Folds
    <3> QED BY <3>2, <3>3 DEF st
  <2>3. g = [s \in SUBSET (1..n) |-> IF s = {} THEN base ELSE AddTableRow(header, g[s \ {Max(s)}], seq[Max(s)])]
    BY <2>1, <2>2 DEF Folds
  <2> QED BY <2>3
<1>7. end = G[1..n]
  BY <1>1 DEF FoldLeft, MapThenFoldSet
<1> HIDE DEF G
<1>8. G[{}] = base
  <2>1. {} \in SUBSET (1..n)
    OBVIOUS
  <2> QED BY <1>6, <2>1
<1>9. \A k \in 1..n : G[1..k] = AddTableRow(header, G[1..(k-1)], seq[k])
  <2> SUFFICES ASSUME NEW k \in 1..n PROVE G[1..k] = AddTableRow(header, G[1..(k-1)], seq[k])
    OBVIOUS
  <2>1. k \in Nat \ {0} /\ 1..k \in SUBSET (1..n)
    BY <1>0
  <2>2. Max(1..k) = k /\ (1..k) \ {k} = 1..(k-1) /\ 1..k # {}
    BY <2>1, MaxUpto
  <2> QED BY <1>6, <2>1, <2>2
<1>10. \A k \in 0..n : G[1..k] \in D
  <2>1. G[{}] \in D
    BY <1>2, <1>8
  <2>2. \A k \in 1..n : G[1..(k-1)] \in D => G[1..k] \in D
    BY <1>3, <1>9
  <2> QED BY <1>0, <2>1, <2>2, FoldStays
<1>11. /\ F[0] = base /\ F[n] = G[1..n]
       /\ \A k \in 0..n : F[k] = G[1..k]
       /\ \A k \in 1..n : F[k] = AddTableRow(header, F[k-1], seq[k])
  <2>1. 1..0 = {} /\ 0 \in 0..n /\ n \in 0..n
    BY <1>0
  <2>2. \A k \in 1..n : k \in 0..n /\ k - 1 \in 0..n
    BY <1>0
  <2> QED BY <1>8, <1>9, <2>1, <2>2
<1> HIDE DEF F, end
<1>14. F[0] = base /\ (\A k \in 0..n : F[k] \in D) /\ FoldLeft(LAMBDA s, row : AddTableRow(header, s, row), [parts |-> <<>>, rows |-> <<>>], rest) = F[n]
  BY <1>7, <1>10, <1>11, <1>12
<1>15. \A k \in 1..n : F[k] = AddTableRow(header, F[k-1], rest[k])
  BY <1>11, <1>13
<1> QED BY <1>14, <1>15 DEF base, n, D

(* What is repeated of a table, and what comes after it. *)
LEMMA TableHeader ==
  ASSUME NEW table \in Blocks, ~InProse(table)
  PROVE  /\ table \in SomeTexts /\ HeaderOf(table) \in SomeTexts
         /\ Len(HeaderOf(table)) \in {2, 4}
         /\ \A i \in 1..Len(HeaderOf(table)) : HeaderOf(table)[i] = table[i]
<1> DEFINE m == IF table[1].kind = "head" THEN 2 ELSE 4  header == SubSeq(table, 1, m)
<1>1. table \in Texts /\ table # <<>> /\ Len(table) \in Nat /\ InTable(table)
  BY DEF Blocks, Texts
<1>2. PICK h \in 1..(Len(table) - 1) : table[h].kind = "head" /\ (h = 1 \/ h > 2)
  BY <1>1 DEF InTable
<1>3. m \in {2, 4} /\ m <= Len(table)
  <2>1. CASE h = 1
    BY <1>1, <1>2, <2>1
  <2>2. CASE h # 1
    <3>1. Len(table) >= 4
      BY <1>1, <1>2, <2>2
    <3> QED BY <1>1, <3>1
  <2> QED BY <2>1, <2>2
<1> HIDE DEF m
<1>4. table \in Seq(Lines) /\ 1 \in 1..(Len(table) + 1) /\ m \in (1 - 1)..Len(table)
  BY <1>1, <1>3 DEF Texts
<1>5. header \in Seq(Lines) /\ Len(header) = m
  <2>1. header \in Seq(Lines)
    BY <1>4
  <2>2. Len(header) = m
    <3>1. m = 2 \/ m = 4
      BY <1>3
    <3>2. m = 2 => Len(SubSeq(table, 1, 2)) = 2
      BY <1>1, <1>3 DEF Texts
    <3>3. m = 4 => Len(SubSeq(table, 1, 4)) = 4
      BY <1>1, <1>3 DEF Texts
    <3> QED BY <3>1, <3>2, <3>3
  <2> QED BY <2>1, <2>2
<1>6. \A i \in 1..m : header[i] = table[i]
  BY <1>3, <1>4
<1>7. header # <<>>
  BY <1>3, <1>5
<1>8. HeaderOf(table) = header
  BY DEF HeaderOf, m
<1> HIDE DEF header
<1> QED BY <1>1, <1>3, <1>5, <1>6, <1>7, <1>8 DEF SomeTexts, Texts

LEMMA TableRest ==
  ASSUME NEW table \in Blocks, ~InProse(table), Len(table) > Len(HeaderOf(table)) + 1
  PROVE  /\ RestOf(table) \in Texts /\ Len(RestOf(table)) = Len(table) - Len(HeaderOf(table))
         /\ \A k \in 1..Len(RestOf(table)) : RestOf(table)[k] = table[k + Len(HeaderOf(table))]
<1> DEFINE m == Len(HeaderOf(table))  rest == SubSeq(table, m + 1, Len(table))
<1>1. table \in Seq(Lines) /\ m \in {2, 4} /\ Len(table) \in Nat
  BY TableHeader DEF SomeTexts, Texts
<1>2. Len(table) > m + 1
  OBVIOUS
<1>3. rest = RestOf(table)
  BY DEF RestOf
<1> HIDE DEF m
<1>4. m + 1 \in 1..(Len(table) + 1) /\ Len(table) \in ((m + 1) - 1)..Len(table)
  BY <1>1, <1>2
<1>5. rest \in Seq(Lines)
  BY <1>1, <1>4
<1>6. Len(rest) = Len(table) - m
  BY <1>1, <1>2, <1>4
<1>7. ASSUME NEW k \in 1..(Len(table) - m) PROVE rest[k] = table[k + m]
  <2>1. k \in 1..(Len(table) - (m + 1) + 1) /\ (m + 1) + k - 1 = k + m
    BY <1>1, <1>2
  <2>2. rest[k] = table[(m + 1) + k - 1]
    BY <1>1, <1>4, <2>1
  <2> QED BY <2>1, <2>2
<1> HIDE DEF rest
<1> QED BY <1>3, <1>5, <1>6, <1>7 DEF Texts, m

LEMMA SplitTableIs ==
  ASSUME NEW table \in Texts
  PROVE  LET header == HeaderOf(table)
             end == FoldLeft(LAMBDA s, row : AddTableRow(header, s, row), [parts |-> <<>>, rows |-> <<>>],
                             RestOf(table))
         IN \/ SplitTable(table) = <<table>>
            \/ (~(Len(table) <= Len(header) + 1) /\ SplitTable(table) = Append(end.parts, header \o end.rows))
BY DEF SplitTable, AddTableRow, HeaderOf, RestOf

LEMMA SplitTableTyped ==
  ASSUME NEW table \in Blocks, ~InProse(table)
  PROVE  SplitTable(table) \in Seq(SomeTexts)
<1> DEFINE header == HeaderOf(table)
           rest == RestOf(table)
           end == FoldLeft(LAMBDA s, row : AddTableRow(header, s, row), [parts |-> <<>>, rows |-> <<>>], rest)
<1>1. table \in Texts /\ table # <<>> /\ Len(table) \in Nat /\ header \in Texts /\ header # <<>> /\ Len(header) \in {2, 4}
  BY TableHeader DEF SomeTexts, Texts
<1>2. CASE SplitTable(table) = <<table>>
  <2>1. <<table>> \in Seq(SomeTexts)
    BY <1>1 DEF SomeTexts
  <2> QED BY <1>2, <2>1
<1>3. CASE ~(Len(table) <= Len(header) + 1) /\ SplitTable(table) = Append(end.parts, header \o end.rows)
  <2>0. ~(Len(table) <= Len(header) + 1)
    BY <1>3
  <2>1. Len(table) > Len(header) + 1
    <3> HIDE DEF header, rest, end
    <3> QED BY <1>1, <2>0
  <2>2. rest \in Texts
    BY <2>1, TableRest
  <2> HIDE DEF header, rest
  <2>5. PICK F : (\A k \in 0..Len(rest) : F[k] \in TableState) /\ end = F[Len(rest)]
    BY <1>1, <2>2, RowsSplit
  <2> HIDE DEF end
  <2>6. Len(rest) \in 0..Len(rest)
    BY <2>2 DEF Texts
  <2>7. end.parts \in Seq(SomeTexts) /\ end.rows \in Texts
    BY <2>5, <2>6 DEF TableState
  <2>8. header \o end.rows \in SomeTexts
    BY <1>1, <2>7 DEF SomeTexts, Texts
  <2>9. Append(end.parts, header \o end.rows) \in Seq(SomeTexts)
    BY <2>7, <2>8
  <2> QED BY <1>3, <2>9
<1>4. SplitTable(table) = <<table>>
      \/ (~(Len(table) <= Len(header) + 1) /\ SplitTable(table) = Append(end.parts, header \o end.rows))
  BY <1>1, SplitTableIs
<1> HIDE DEF header, rest, end
<1> QED BY <1>2, <1>3, <1>4

LEMMA PiecesTyped ==
  ASSUME NEW block \in Blocks
  PROVE  Pieces(block) \in Seq(SomeTexts)
<1>1. block \in Texts
  BY DEF Blocks
<1> QED BY <1>1, SplitTextTyped, SplitTableTyped DEF Pieces

(* A piece is put to the last chunk when both fit, so that neighbours never    *)
(* do.                                                                         *)
LEMMA AddPieceKeeps ==
  ASSUME NEW g \in Grouped, NEW piece \in SomeTexts
  PROVE  AddPiece(g, piece) \in Grouped
<1>1. g \in Seq(SomeTexts) /\ Len(g) \in Nat /\ DOMAIN g = 1..Len(g) /\ \A i \in 1..Len(g) : g[i] \in SomeTexts
  BY DEF Grouped
<1>2. \A t \in SomeTexts : t \in Texts /\ t # <<>> /\ Chars(t) \in Nat
  BY CharsIs DEF SomeTexts
<1>3. MaxChunkChars \in Nat
  BY ChunkAssumption
<1>4. CASE g = <<>>
  <2>1. AddPiece(g, piece) = <<piece>>
    BY <1>4 DEF AddPiece
  <2>2. <<piece>> \in Seq(SomeTexts) /\ Len(<<piece>>) = 1
    OBVIOUS
  <2> QED BY <2>1, <2>2 DEF Grouped
<1>5. CASE g # <<>>
  <2> DEFINE n == Len(g)
             J == Joined(g[n], piece)
  <2>1. n \in Nat /\ n \in 1..n /\ Last(g) = g[n] /\ g[n] \in SomeTexts
    BY <1>1, <1>5 DEF Last
  <2>2. J \in SomeTexts /\ Chars(J) = Chars(g[n]) + 2 + Chars(piece)
    BY <1>2, <2>1, CharsOfJoined DEF SomeTexts
  <2>3. Chars(J) \in Nat /\ Chars(g[n]) \in Nat /\ Chars(piece) \in Nat
    BY <1>2, <2>1, <2>2
  <2> HIDE DEF J
  <2>4. CASE Chars(J) <= MaxChunkChars
    <3> DEFINE h == [i \in 1..n |-> IF i = n THEN J ELSE g[i]]
    <3>1. AddPiece(g, piece) = h
      <4>1. AddPiece(g, piece) = [g EXCEPT ![n] = J]
        BY <1>5, <2>1, <2>4 DEF AddPiece, J
      <4>2. [g EXCEPT ![n] = J] = h
        BY <1>1, <2>1
      <4> QED BY <4>1, <4>2
    <3>2. h \in Seq(SomeTexts) /\ Len(h) = n
      <4>1. \A i \in 1..n : h[i] \in SomeTexts
        BY <1>1, <2>2
      <4>2. DOMAIN h = 1..n
        OBVIOUS
      <4>3. h \in [1..n -> SomeTexts]
        <5> HIDE DEF h
        <5>1. h = [i \in 1..n |-> h[i]]
          BY DEF h
        <5> QED BY <4>1, <5>1
      <4> HIDE DEF h
      <4> QED BY <2>1, <4>3
    <3>3. ASSUME NEW i \in 1..(n - 1)
          PROVE  Chars(h[i]) + 2 + Chars(h[i+1]) > MaxChunkChars
      <4>1. i \in 1..n /\ i + 1 \in 1..n /\ i # n
        BY <2>1
      <4>2. h[i] = g[i] /\ h[i+1] = (IF i + 1 = n THEN J ELSE g[i+1])
        BY <4>1
      <4>3. Chars(g[i]) + 2 + Chars(g[i+1]) > MaxChunkChars
        BY DEF Grouped
      <4>4. Chars(g[i]) \in Nat /\ Chars(g[i+1]) \in Nat
        BY <1>1, <1>2, <4>1
      <4> HIDE DEF h
      <4>5. CASE i + 1 = n
        BY <1>3, <2>2, <2>3, <4>2, <4>3, <4>4, <4>5
      <4>6. CASE i + 1 # n
        BY <4>2, <4>3, <4>6
      <4> QED BY <4>5, <4>6
    <3> HIDE DEF h
    <3> QED BY <3>1, <3>2, <3>3 DEF Grouped
  <2>5. CASE ~(Chars(J) <= MaxChunkChars)
    <3> DEFINE h == Append(g, piece)
    <3>1. AddPiece(g, piece) = h
      BY <1>5, <2>1, <2>5 DEF AddPiece, J
    <3>2. h \in Seq(SomeTexts) /\ Len(h) = n + 1
      BY <1>1
    <3>3. ASSUME NEW i \in 1..((n + 1) - 1)
          PROVE  Chars(h[i]) + 2 + Chars(h[i+1]) > MaxChunkChars
      <4>1. i \in 1..n
        BY <2>1
      <4>2. h[i] = g[i]
        BY <1>1, <4>1
      <4>3. CASE i = n
        <5>1. h[i+1] = piece
          BY <1>1, <4>3
        <5> HIDE DEF h
        <5> QED BY <1>3, <2>2, <2>3, <2>5, <4>2, <4>3, <5>1
      <4>4. CASE i # n
        <5>1. i \in 1..(n - 1) /\ i + 1 \in 1..n
          BY <2>1, <4>1, <4>4
        <5>2. h[i+1] = g[i+1]
          BY <1>1, <5>1
        <5> HIDE DEF h
        <5> QED BY <4>2, <5>1, <5>2 DEF Grouped
      <4> QED BY <4>3, <4>4
    <3> HIDE DEF h
    <3> QED BY <3>1, <3>2, <3>3 DEF Grouped
  <2> QED BY <2>4, <2>5
<1> QED BY <1>4, <1>5

(* The pieces of a block, one after another.                                   *)
LEMMA BlockRuns ==
  ASSUME NEW start \in Grouped, NEW block \in Blocks
  PROVE  \E F : /\ F[0] = start
                /\ \A k \in 0..Len(Pieces(block)) : F[k] \in Grouped
                /\ \A k \in 1..Len(Pieces(block)) : F[k] = AddPiece(F[k-1], Pieces(block)[k])
                /\ AddBlock(start, block) = F[Len(Pieces(block))]
<1> DEFINE base == start
           n == Len(Pieces(block))
           seq == Pieces(block)
           D == Grouped
           st == [k \in 1..n |-> [s \in D |-> AddPiece(s, seq[k])]]
           G == CHOOSE g : g = [s \in SUBSET (1..n) |->
                  IF s = {} THEN base ELSE AddPiece(g[s \ {Max(s)}], seq[Max(s)])]
           end == FoldLeft(AddPiece, base, seq)
           F == [k \in 0..n |-> G[1..k]]
<1>1. DOMAIN seq = 1..n /\ n \in Nat
  BY PiecesTyped
<1>0. n \in Nat
  BY <1>1
<1>2. base \in D
  OBVIOUS
<1>3. \A s \in D : \A k \in 1..n : AddPiece(s, seq[k]) \in D
  BY <1>1, PiecesTyped, AddPieceKeeps
<1>12. AddBlock(start, block) = end
  BY DEF AddBlock, base, seq
<1>13. \A k \in 1..n : seq[k] = Pieces(block)[k]
  BY <1>1
<1> HIDE DEF n, base, seq, D
<1>5. st \in [1..n -> [D -> D]]
  BY <1>3
<1> HIDE DEF st
<1>6. G = [s \in SUBSET (1..n) |-> IF s = {} THEN base ELSE AddPiece(G[s \ {Max(s)}], seq[Max(s)])]
  <2>1. PICK g : Folds(g, n, D, base, st)
    BY <1>0, <1>2, <1>5, FoldExists
  <2>2. ASSUME NEW s \in SUBSET (1..n), s # {}
        PROVE  st[Max(s)][g[s \ {Max(s)}]] = AddPiece(g[s \ {Max(s)}], seq[Max(s)])
    <3>1. s \in SUBSET (0..n)
      OBVIOUS
    <3>2. Max(s) \in 1..n
      BY <1>0, <2>2, <3>1, GreatestOne
    <3>3. g[s \ {Max(s)}] \in D
      BY <2>1 DEF Folds
    <3> QED BY <3>2, <3>3 DEF st
  <2>3. g = [s \in SUBSET (1..n) |-> IF s = {} THEN base ELSE AddPiece(g[s \ {Max(s)}], seq[Max(s)])]
    BY <2>1, <2>2 DEF Folds
  <2> QED BY <2>3
<1>7. end = G[1..n]
  BY <1>1 DEF FoldLeft, MapThenFoldSet
<1> HIDE DEF G
<1>8. G[{}] = base
  <2>1. {} \in SUBSET (1..n)
    OBVIOUS
  <2> QED BY <1>6, <2>1
<1>9. \A k \in 1..n : G[1..k] = AddPiece(G[1..(k-1)], seq[k])
  <2> SUFFICES ASSUME NEW k \in 1..n PROVE G[1..k] = AddPiece(G[1..(k-1)], seq[k])
    OBVIOUS
  <2>1. k \in Nat \ {0} /\ 1..k \in SUBSET (1..n)
    BY <1>0
  <2>2. Max(1..k) = k /\ (1..k) \ {k} = 1..(k-1) /\ 1..k # {}
    BY <2>1, MaxUpto
  <2> QED BY <1>6, <2>1, <2>2
<1>10. \A k \in 0..n : G[1..k] \in D
  <2>1. G[{}] \in D
    BY <1>2, <1>8
  <2>2. \A k \in 1..n : G[1..(k-1)] \in D => G[1..k] \in D
    BY <1>3, <1>9
  <2> QED BY <1>0, <2>1, <2>2, FoldStays
<1>11. /\ F[0] = base /\ F[n] = G[1..n]
       /\ \A k \in 0..n : F[k] = G[1..k]
       /\ \A k \in 1..n : F[k] = AddPiece(F[k-1], seq[k])
  <2>1. 1..0 = {} /\ 0 \in 0..n /\ n \in 0..n
    BY <1>0
  <2>2. \A k \in 1..n : k \in 0..n /\ k - 1 \in 0..n
    BY <1>0
  <2> QED BY <1>8, <1>9, <2>1, <2>2
<1> HIDE DEF F, end
<1>14. F[0] = base /\ (\A k \in 0..n : F[k] \in D) /\ AddBlock(start, block) = F[n]
  BY <1>7, <1>10, <1>11, <1>12
<1>15. \A k \in 1..n : F[k] = AddPiece(F[k-1], Pieces(block)[k])
  BY <1>11, <1>13
<1> QED BY <1>14, <1>15 DEF base, n, D

LEMMA AddBlockKeeps ==
  ASSUME NEW base \in Grouped, NEW block \in Blocks
  PROVE  AddBlock(base, block) \in Grouped
<1>1. PICK F : /\ \A k \in 0..Len(Pieces(block)) : F[k] \in Grouped
               /\ AddBlock(base, block) = F[Len(Pieces(block))]
  BY BlockRuns
<1>2. Len(Pieces(block)) \in 0..Len(Pieces(block))
  BY PiecesTyped
<1> QED BY <1>1, <1>2

(* The blocks of a section, one after another.                                 *)
LEMMA ChunkRuns ==
  ASSUME NEW section \in Seq(Blocks)
  PROVE  \E F : /\ F[0] = <<>>
                /\ \A k \in 0..Len(section) : F[k] \in Grouped
                /\ \A k \in 1..Len(section) : F[k] = AddBlock(F[k-1], section[k])
                /\ Chunks(section) = F[Len(section)]
<1> DEFINE base == <<>>
           n == Len(section)
           seq == section
           D == Grouped
           st == [k \in 1..n |-> [s \in D |-> AddBlock(s, seq[k])]]
           G == CHOOSE g : g = [s \in SUBSET (1..n) |->
                  IF s = {} THEN base ELSE AddBlock(g[s \ {Max(s)}], seq[Max(s)])]
           end == FoldLeft(AddBlock, base, seq)
           F == [k \in 0..n |-> G[1..k]]
<1>1. DOMAIN seq = 1..n /\ n \in Nat
  OBVIOUS
<1>0. n \in Nat
  BY <1>1
<1>2. base \in D
  BY DEF Grouped
<1>3. \A s \in D : \A k \in 1..n : AddBlock(s, seq[k]) \in D
  BY <1>1, AddBlockKeeps
<1>12. Chunks(section) = end
  BY DEF Chunks, base, seq
<1>13. \A k \in 1..n : seq[k] = section[k]
  BY <1>1
<1> HIDE DEF n, base, seq, D
<1>5. st \in [1..n -> [D -> D]]
  BY <1>3
<1> HIDE DEF st
<1>6. G = [s \in SUBSET (1..n) |-> IF s = {} THEN base ELSE AddBlock(G[s \ {Max(s)}], seq[Max(s)])]
  <2>1. PICK g : Folds(g, n, D, base, st)
    BY <1>0, <1>2, <1>5, FoldExists
  <2>2. ASSUME NEW s \in SUBSET (1..n), s # {}
        PROVE  st[Max(s)][g[s \ {Max(s)}]] = AddBlock(g[s \ {Max(s)}], seq[Max(s)])
    <3>1. s \in SUBSET (0..n)
      OBVIOUS
    <3>2. Max(s) \in 1..n
      BY <1>0, <2>2, <3>1, GreatestOne
    <3>3. g[s \ {Max(s)}] \in D
      BY <2>1 DEF Folds
    <3> QED BY <3>2, <3>3 DEF st
  <2>3. g = [s \in SUBSET (1..n) |-> IF s = {} THEN base ELSE AddBlock(g[s \ {Max(s)}], seq[Max(s)])]
    BY <2>1, <2>2 DEF Folds
  <2> QED BY <2>3
<1>7. end = G[1..n]
  BY <1>1 DEF FoldLeft, MapThenFoldSet
<1> HIDE DEF G
<1>8. G[{}] = base
  <2>1. {} \in SUBSET (1..n)
    OBVIOUS
  <2> QED BY <1>6, <2>1
<1>9. \A k \in 1..n : G[1..k] = AddBlock(G[1..(k-1)], seq[k])
  <2> SUFFICES ASSUME NEW k \in 1..n PROVE G[1..k] = AddBlock(G[1..(k-1)], seq[k])
    OBVIOUS
  <2>1. k \in Nat \ {0} /\ 1..k \in SUBSET (1..n)
    BY <1>0
  <2>2. Max(1..k) = k /\ (1..k) \ {k} = 1..(k-1) /\ 1..k # {}
    BY <2>1, MaxUpto
  <2> QED BY <1>6, <2>1, <2>2
<1>10. \A k \in 0..n : G[1..k] \in D
  <2>1. G[{}] \in D
    BY <1>2, <1>8
  <2>2. \A k \in 1..n : G[1..(k-1)] \in D => G[1..k] \in D
    BY <1>3, <1>9
  <2> QED BY <1>0, <2>1, <2>2, FoldStays
<1>11. /\ F[0] = base /\ F[n] = G[1..n]
       /\ \A k \in 0..n : F[k] = G[1..k]
       /\ \A k \in 1..n : F[k] = AddBlock(F[k-1], seq[k])
  <2>1. 1..0 = {} /\ 0 \in 0..n /\ n \in 0..n
    BY <1>0
  <2>2. \A k \in 1..n : k \in 0..n /\ k - 1 \in 0..n
    BY <1>0
  <2> QED BY <1>8, <1>9, <2>1, <2>2
<1> HIDE DEF F, end
<1>14. F[0] = base /\ (\A k \in 0..n : F[k] \in D) /\ Chunks(section) = F[n]
  BY <1>7, <1>10, <1>11, <1>12
<1>15. \A k \in 1..n : F[k] = AddBlock(F[k-1], section[k])
  BY <1>11, <1>13
<1> QED BY <1>14, <1>15 DEF base, n, D

LEMMA ChunksGrouped ==
  ASSUME NEW seq \in Seq(Blocks)
  PROVE  Chunks(seq) \in Grouped
<1>1. PICK F : /\ \A k \in 0..Len(seq) : F[k] \in Grouped
               /\ Chunks(seq) = F[Len(seq)]
  BY ChunkRuns
<1>2. Len(seq) \in 0..Len(seq)
  OBVIOUS
<1> QED BY <1>1, <1>2

-------------------------------------------------------------------------------
(* The reader: a prefix of a chunk.                                            *)

(* A line that is cut to n characters has n.                                   *)
LEMMA CutTyped ==
  ASSUME NEW line \in Lines, NEW n \in Nat
  PROVE  CutLine(line, n) \in Lines /\ CutLine(line, n).size = n
<1> DEFINE kind == IF line.kind = "prose" \/ n = line.size THEN line.kind
                   ELSE IF line.kind = "row" /\ line.size - n < LastCell THEN line.kind
                   ELSE "broken"
<1>1. kind \in Kinds
  BY DEF Lines, Kinds
<1>2. CutLine(line, n) = [line EXCEPT !.size = n, !.kind = kind]
  BY DEF CutLine
<1> HIDE DEF kind
<1> QED BY <1>1, <1>2 DEF Lines

(* The lines of which a prefix shows something are the first ones.             *)
LEMMA PrefixIs ==
  ASSUME NEW t \in Texts, NEW n \in Nat \ {0}
  PROVE  \E c \in Nat :
           /\ c <= Len(t)
           /\ Prefix(t, n) = [i \in 1..c |-> CutLine(t[i], Least(t[i].size, n - LineStart(t, i)))]
           /\ \A i \in 1..c : LineStart(t, i) < n
           /\ c < Len(t) => LineStart(t, c + 1) >= n
<1> DEFINE lines == {i \in DOMAIN t : LineStart(t, i) < n \/ (i = 1 /\ n > 0)}
           L == {i \in 1..Len(t) : LineStart(t, i) < n}
           T == {m \in Nat : m <= Len(t) =>
                   \E c \in Nat : c <= m /\ {i \in 1..m : LineStart(t, i) < n} = 1..c
                                  /\ (c < m => LineStart(t, c + 1) >= n)}
<1>0. Len(t) \in Nat /\ DOMAIN t = 1..Len(t)
  BY DEF Texts
<1>1. lines = L
  <2>1. 1 \in 1..Len(t) => LineStart(t, 1) = 0
    BY StartOfLine
  <2> QED BY <1>0, <2>1
<1>2. 0 \in T
  <2>1. {i \in 1..0 : LineStart(t, i) < n} = 1..0
    OBVIOUS
  <2> QED BY <2>1
<1>3. ASSUME NEW m \in Nat, m \in T
      PROVE  m + 1 \in T
  <2> DEFINE Below(k) == {i \in 1..k : LineStart(t, i) < n}
  <2> SUFFICES ASSUME m + 1 <= Len(t)
               PROVE  \E c \in Nat : c <= m + 1 /\ Below(m + 1) = 1..c
                                     /\ (c < m + 1 => LineStart(t, c + 1) >= n)
    OBVIOUS
  <2>1. m <= Len(t) /\ m + 1 \in 1..Len(t)
    BY <1>0
  <2>2. PICK c \in Nat : c <= m /\ Below(m) = 1..c /\ (c < m => LineStart(t, c + 1) >= n)
    BY <1>3, <2>1
  <2>3. Below(m + 1) = Below(m) \cup (IF LineStart(t, m + 1) < n THEN {m + 1} ELSE {})
    OBVIOUS
  <2>4. LineStart(t, m + 1) \in Nat
    BY <2>1, StartOfLine
  <2> HIDE DEF Below
  <2>5. CASE c = m /\ LineStart(t, m + 1) < n
    <3>1. Below(m + 1) = 1..(m+1)
      <4>1. 1..(m+1) = (1..m) \cup {m+1}
        OBVIOUS
      <4>2. Below(m + 1) = Below(m) \cup {m + 1}
        BY <2>3, <2>5
      <4> QED BY <2>2, <2>5, <4>1, <4>2
    <3> QED BY <3>1
  <2>6. CASE c = m /\ ~(LineStart(t, m + 1) < n)
    <3>1. Below(m + 1) = 1..m
      BY <2>2, <2>3, <2>6
    <3> QED BY <2>4, <2>6, <3>1
  <2>7. CASE c # m
    <3>1. c < m /\ c + 1 \in 1..Len(t) /\ c + 1 < m + 1
      BY <2>1, <2>2, <2>7
    <3>2. LineStart(t, c + 1) >= n
      BY <2>2, <3>1
    <3>3. LineEnd(t, c + 1) < LineStart(t, m + 1)
      BY <2>1, <3>1, LinesInOrder
    <3>4. LineEnd(t, c + 1) = LineStart(t, c + 1) + t[c+1].size /\ LineStart(t, c + 1) \in Nat /\ t[c+1].size \in Nat
      BY <3>1, StartOfLine
    <3>5. ~(LineStart(t, m + 1) < n)
      BY <2>4, <3>2, <3>3, <3>4
    <3>6. Below(m + 1) = 1..c
      BY <2>2, <2>3, <3>5
    <3> QED BY <3>1, <3>2, <3>6
  <2> QED BY <2>5, <2>6, <2>7
<1>4. \A m \in Nat : m \in T
  <2> HIDE DEF T
  <2> QED BY <1>2, <1>3, SetInduction
<1>5. PICK c \in Nat : c <= Len(t) /\ L = 1..c /\ (c < Len(t) => LineStart(t, c + 1) >= n)
  BY <1>0, <1>4
<1>6. Cardinality(1..c) = c
  <2>1. 1 \in Int /\ c \in Int
    OBVIOUS
  <2>2. Cardinality(1..c) = IF 1 > c THEN 0 ELSE c - 1 + 1
    BY <2>1, FS_Interval
  <2> QED BY <2>2
<1>7. Cardinality(lines) = c
  BY <1>1, <1>5, <1>6
<1>8. Prefix(t, n) = [i \in 1..c |-> CutLine(t[i], Least(t[i].size, n - LineStart(t, i)))]
  BY <1>7 DEF Prefix
<1>9. \A i \in 1..c : LineStart(t, i) < n
  BY <1>5
<1> QED BY <1>5, <1>8, <1>9

(* The first n characters of a text are no more than n.                        *)
LEMMA PrefixFits ==
  ASSUME NEW t \in Texts, NEW n \in Nat \ {0}
  PROVE  Prefix(t, n) \in Texts /\ Chars(Prefix(t, n)) \in Nat /\ Chars(Prefix(t, n)) <= n
<1> DEFINE P == Prefix(t, n)
<1>1. PICK c \in Nat :
           /\ c <= Len(t)
           /\ Prefix(t, n) = [i \in 1..c |-> CutLine(t[i], Least(t[i].size, n - LineStart(t, i)))]
           /\ \A i \in 1..c : LineStart(t, i) < n
           /\ c < Len(t) => LineStart(t, c + 1) >= n
  BY PrefixIs
<1>2. ASSUME NEW i \in 1..c
      PROVE  /\ i \in 1..Len(t) /\ LineStart(t, i) \in Nat /\ t[i].size \in Nat
             /\ LineEnd(t, i) = LineStart(t, i) + t[i].size
             /\ P[i] \in Lines
             /\ P[i].size = Least(t[i].size, n - LineStart(t, i))
             /\ P[i].size \in Nat
  <2>1. i \in 1..Len(t) /\ Len(t) \in Nat
    BY <1>1 DEF Texts
  <2>2. LineStart(t, i) \in Nat /\ t[i].size \in Nat /\ LineEnd(t, i) = LineStart(t, i) + t[i].size
    BY <2>1, StartOfLine
  <2>3. n - LineStart(t, i) \in Nat
    BY <1>1, <2>2
  <2>4. Least(t[i].size, n - LineStart(t, i)) \in Nat
    BY <2>2, <2>3 DEF Least
  <2>5. t[i] \in Lines
    BY <2>1, LineTyped
  <2>6. P[i] = CutLine(t[i], Least(t[i].size, n - LineStart(t, i)))
    BY <1>1
  <2> QED BY <2>1, <2>2, <2>4, <2>5, <2>6, CutTyped
<1>3. P \in [1..c -> Lines] /\ P \in Texts /\ Len(P) = c
  <2>1. P = [i \in 1..c |-> P[i]]
    BY <1>1
  <2>2. P \in [1..c -> Lines]
    <3> HIDE DEF P
    <3> QED BY <1>2, <2>1
  <2> HIDE DEF P
  <2> QED BY <2>2 DEF Texts
<1> HIDE DEF P
<1>4. CASE c = 0
  <2>1. P = <<>>
    BY <1>3, <1>4 DEF Texts
  <2> QED BY <1>3, <2>1, CharsIs DEF P
<1>5. CASE c # 0
  <2>1. c \in 1..c /\ c \in 1..Len(P) /\ P # <<>> /\ Len(t) \in Nat /\ Len(P) = c
    BY <1>3, <1>5 DEF Texts
  <2>2. ASSUME NEW i \in 1..(c-1)
        PROVE  P[i].size = t[i].size
    <3>1. i \in 1..c /\ i + 1 \in 1..c /\ i + 1 # 1 /\ (i + 1) - 1 = i
      BY <2>1
    <3>2. LineStart(t, i + 1) = LineEnd(t, i) + 1
      BY <1>2, <3>1, StartOfLine
    <3>3. LineStart(t, i + 1) < n
      BY <1>1, <3>1
    <3>4. /\ LineStart(t, i) \in Nat /\ t[i].size \in Nat
          /\ LineEnd(t, i) = LineStart(t, i) + t[i].size
          /\ P[i].size = Least(t[i].size, n - LineStart(t, i))
      BY <1>2, <3>1
    <3>5. t[i].size < n - LineStart(t, i)
      BY <3>2, <3>3, <3>4
    <3> QED BY <3>4, <3>5 DEF Least
  <2>3. LineStart(P, c) = LineStart(t, c)
    <3>1. \A i \in 1..(c-1) : P[i].size = t[i].size
      BY <2>2
    <3>2. c <= Len(P) /\ c <= Len(t)
      BY <1>1, <2>1
    <3> QED BY <1>3, <2>1, <3>1, <3>2, StartsAgree
  <2>4. Chars(P) = LineEnd(P, c)
    BY <1>3, <2>1, CharsIs
  <2>5. LineEnd(P, c) = LineStart(t, c) + Least(t[c].size, n - LineStart(t, c))
    BY <1>2, <2>1, <2>3 DEF LineEnd
  <2>6. LineStart(t, c) \in Nat /\ t[c].size \in Nat /\ LineStart(t, c) < n
    BY <1>1, <1>2, <2>1
  <2>7. Chars(P) <= n /\ Chars(P) \in Nat
    BY <2>4, <2>5, <2>6 DEF Least
  <2> QED BY <1>3, <2>7 DEF P
<1> QED BY <1>4, <1>5

-------------------------------------------------------------------------------
(* What rows take in a result.                                                 *)

(* What rows take is a sum over them.                                          *)
LEMMA ListedSums ==
  ASSUME NEW S, \A x \in S : x.size \in Nat, NEW rows \in Seq(S)
  PROVE  \E h : /\ h[0] = 0 /\ Listed(rows) = h[Len(rows)]
                /\ \A k \in 0..Len(rows) : h[k] \in Nat
                /\ \A k \in 1..Len(rows) : h[k] = h[k-1] + rows[k].size + 2 * CitationChars
<1> DEFINE base == 0
           n == Len(rows)
           st == [k \in 1..n |-> [s \in Nat |-> s + rows[k].size + 2 * CitationChars]]
           G == CHOOSE g : g = [s \in SUBSET (1..n) |->
                    IF s = {} THEN base
                    ELSE g[s \ {Max(s)}] + rows[Max(s)].size + 2 * CitationChars]
<1>1. n \in Nat /\ DOMAIN rows = 1..n /\ \A k \in 1..n : rows[k] \in S
  OBVIOUS
<1>0. n \in Nat
  BY <1>1
<1>9. CitationChars \in Nat /\ 2 * CitationChars \in Nat
  BY WorldAssumption
<1>10. \A k \in 1..n : rows[k].size \in Nat
  BY <1>1
<1>7. base \in Nat
  OBVIOUS
<1> HIDE DEF n, base
<1>2. st \in [1..n -> [Nat -> Nat]]
  BY <1>9, <1>10
<1> HIDE DEF st
<1>3. G = [s \in SUBSET (1..n) |->
                    IF s = {} THEN base
                    ELSE G[s \ {Max(s)}] + rows[Max(s)].size + 2 * CitationChars]
  <2>1. PICK g : Folds(g, n, Nat, base, st)
    BY <1>0, <1>2, <1>7, FoldExists
  <2>2. ASSUME NEW s \in SUBSET (1..n), s # {}
        PROVE  st[Max(s)][g[s \ {Max(s)}]] = g[s \ {Max(s)}] + rows[Max(s)].size + 2 * CitationChars
    <3>1. s \in SUBSET (0..n)
      OBVIOUS
    <3>2. Max(s) \in 1..n
      BY <1>0, <2>2, <3>1, GreatestOne
    <3>3. g[s \ {Max(s)}] \in Nat
      BY <2>1 DEF Folds
    <3> QED BY <3>2, <3>3 DEF st
  <2>3. g = [s \in SUBSET (1..n) |-> IF s = {} THEN base
                    ELSE g[s \ {Max(s)}] + rows[Max(s)].size + 2 * CitationChars]
    BY <2>1, <2>2 DEF Folds
  <2> QED BY <2>3
<1>4. Listed(rows) = G[1..n]
  BY <1>1 DEF Listed, FoldLeft, MapThenFoldSet, base
<1> HIDE DEF G
<1>5. G[{}] \in Nat /\ G[{}] = 0
  <2>1. {} \in SUBSET (1..n)
    OBVIOUS
  <2> QED BY <1>3, <2>1 DEF base
<1>6. \A k \in 1..n : G[1..k] = G[1..(k-1)] + rows[k].size + 2 * CitationChars
  <2>1. ASSUME NEW k \in 1..n
        PROVE  G[1..k] = G[1..(k-1)] + rows[k].size + 2 * CitationChars
    <3>1. k \in Nat \ {0} /\ 1..k \in SUBSET (1..n)
      BY <1>0
    <3>2. Max(1..k) = k /\ (1..k) \ {k} = 1..(k-1) /\ 1..k # {}
      BY <3>1, MaxUpto
    <3> QED BY <1>3, <3>1, <3>2
  <2> QED BY <2>1
<1>8. \A k \in 1..n : G[1..(k-1)] \in Nat => G[1..k] \in Nat
  <2> SUFFICES ASSUME NEW k \in 1..n, G[1..(k-1)] \in Nat PROVE G[1..k] \in Nat
    OBVIOUS
  <2> DEFINE before == G[1..(k-1)]  after == G[1..k]  size == rows[k].size  cites == 2 * CitationChars
  <2>1. after = before + size + cites
    BY <1>6
  <2>2. before \in Nat /\ size \in Nat /\ cites \in Nat
    BY <1>9, <1>10
  <2> HIDE DEF before, after, size, cites
  <2>3. after \in Nat
    BY <2>1, <2>2
  <2> QED BY <2>3 DEF after
<1>11. \A k \in 0..n : G[1..k] \in Nat
  <2>1. G[{}] \in Nat
    BY <1>5
  <2> QED BY <1>0, <1>8, <2>1, FoldStays
<1> DEFINE h == [k \in 0..n |-> G[1..k]]
<1>12. 1..0 = {} /\ 0 \in 0..n /\ n \in 0..n
  BY <1>0
<1>13. h[0] = 0 /\ Listed(rows) = h[n] /\ \A k \in 0..n : h[k] \in Nat
  BY <1>4, <1>5, <1>11, <1>12
<1>14. ASSUME NEW k \in 1..n
       PROVE  h[k] = h[k-1] + rows[k].size + 2 * CitationChars
  <2>1. k \in 0..n /\ k - 1 \in 0..n
    BY <1>0
  <2> QED BY <1>6, <2>1
<1> HIDE DEF h
<1> QED BY <1>13, <1>14 DEF n

(* What rows take grows by what each one takes.                                *)
LEMMA ListedOne ==
  ASSUME NEW S, \A x \in S : x.size \in Nat, NEW rows \in Seq(S), NEW row \in S
  PROVE  /\ Listed(rows) \in Nat
         /\ Listed(<<>>) = 0
         /\ Listed(Append(rows, row)) = Listed(rows) + row.size + 2 * CitationChars
<1> DEFINE n == Len(rows)
           more == Append(rows, row)
<1>0. n \in Nat /\ more \in Seq(S) /\ Len(more) = n + 1 /\ more[n+1] = row
      /\ \A k \in 1..n : more[k] = rows[k]
  OBVIOUS
<1>1. PICK g : /\ g[0] = 0 /\ Listed(rows) = g[n]
               /\ \A k \in 0..n : g[k] \in Nat
               /\ \A k \in 1..n : g[k] = g[k-1] + rows[k].size + 2 * CitationChars
  BY ListedSums
<1> HIDE DEF more
<1>2. PICK h : /\ h[0] = 0 /\ Listed(more) = h[Len(more)]
               /\ \A k \in 0..Len(more) : h[k] \in Nat
               /\ \A k \in 1..Len(more) : h[k] = h[k-1] + more[k].size + 2 * CitationChars
  BY <1>0, ListedSums
<1> HIDE DEF n
<1> DEFINE T == {k \in Nat : k <= n => h[k] = g[k]}
<1>3. 0 \in T
  BY <1>1, <1>2
<1>4. ASSUME NEW k \in Nat, k \in T PROVE k + 1 \in T
  <2> SUFFICES ASSUME k + 1 <= n PROVE h[k+1] = g[k+1]
    OBVIOUS
  <2>1. k + 1 \in 1..n /\ k + 1 \in 1..Len(more) /\ (k + 1) - 1 = k /\ k <= n
    BY <1>0
  <2>2. h[k] = g[k]
    BY <1>4, <2>1
  <2>3. h[k+1] = h[k] + more[k+1].size + 2 * CitationChars
    BY <1>2, <2>1
  <2>4. g[k+1] = g[k] + rows[k+1].size + 2 * CitationChars
    BY <1>1, <2>1
  <2>5. more[k+1] = rows[k+1]
    BY <1>0, <2>1
  <2> QED BY <2>2, <2>3, <2>4, <2>5
<1>5. \A k \in Nat : k \in T
  <2> HIDE DEF T
  <2> QED BY <1>3, <1>4, SetInduction
<1>6. h[n] = g[n]
  BY <1>0, <1>5
<1>7. n + 1 \in 1..Len(more) /\ (n + 1) - 1 = n /\ n \in 0..n
  BY <1>0
<1>8. h[n+1] = h[n] + row.size + 2 * CitationChars
  BY <1>0, <1>2, <1>7
<1>9. Listed(<<>>) = 0
  <2>1. <<>> \in Seq(S) /\ Len(<<>>) = 0
    OBVIOUS
  <2> QED BY <2>1, ListedSums
<1> QED BY <1>0, <1>1, <1>2, <1>6, <1>7, <1>8, <1>9 DEF more

(* Of rows of which the first ones are kept.                                   *)
LEMMA ListedStarts ==
  ASSUME NEW S, \A x \in S : x.size \in Nat, NEW rows \in Seq(S), NEW m \in 0..Len(rows)
  PROVE  SubSeq(rows, 1, m) \in Seq(S) /\ Len(SubSeq(rows, 1, m)) = m
         /\ Listed(SubSeq(rows, 1, m)) \in Nat
<1>1. SubSeq(rows, 1, m) \in Seq(S) /\ Len(SubSeq(rows, 1, m)) = m
  OBVIOUS
<1> HIDE DEF Listed
<1>2. PICK h : /\ h[0] = 0 /\ Listed(SubSeq(rows, 1, m)) = h[Len(SubSeq(rows, 1, m))]
               /\ \A k \in 0..Len(SubSeq(rows, 1, m)) : h[k] \in Nat
               /\ \A k \in 1..Len(SubSeq(rows, 1, m)) : h[k] = h[k-1] + SubSeq(rows, 1, m)[k].size + 2 * CitationChars
  BY <1>1, ListedSums
<1> QED BY <1>1, <1>2

-------------------------------------------------------------------------------
(* The reader: a page and what it takes.                                       *)

(* A page gets a row that has the part asked for, or a later one. *)
LEMMA AddPartIs ==
  ASSUME NEW rows, NEW from, NEW maxChars, NEW s, NEW k
  PROVE  AddPart(rows, from, maxChars, s, k)
           = IF rows[k].part < from THEN s ELSE Put(rows, maxChars, s, k)
BY DEF AddPart, Put

LEMMA NumberedTyped ==
  ASSUME NEW chunks \in Grouped
  PROVE  /\ Numbered(chunks) \in Seq(RowTexts) /\ Len(Numbered(chunks)) = Len(chunks) /\ Len(chunks) \in Nat
         /\ \A k \in 1..Len(chunks) : /\ Numbered(chunks)[k].part = k /\ Numbered(chunks)[k].text = chunks[k]
                                    /\ chunks[k] \in SomeTexts
<1> DEFINE n == Len(chunks)  rows == Numbered(chunks)
<1>1. n \in Nat /\ DOMAIN chunks = 1..n /\ \A k \in 1..n : chunks[k] \in SomeTexts
  BY DEF Grouped
<1>2. rows = [k \in 1..n |-> [part |-> k, text |-> chunks[k]]]
  BY <1>1 DEF Numbered
<1> HIDE DEF rows, n
<1>3. \A k \in 1..n : rows[k].part = k /\ rows[k].text = chunks[k]
  BY <1>2
<1>4. \A k \in 1..n : [part |-> k, text |-> chunks[k]] \in RowTexts
  BY <1>1 DEF RowTexts
<1>5. rows \in [1..n -> RowTexts]
  BY <1>2, <1>4
<1>6. rows \in Seq(RowTexts) /\ DOMAIN rows = 1..n
  BY <1>1, <1>5
<1>7. Len(rows) = n
  BY <1>1, <1>6
<1> QED BY <1>1, <1>3, <1>6, <1>7 DEF rows, n

(* The rows of a page, part by part.                                           *)
LEMMA RowTyped ==
  ASSUME NEW parts \in Seq(PartTexts), NEW one \in PartTexts
  PROVE  LET Sized == [source : Nat, text : Texts, cite : {"labelled"}, size : Nat]
             row == Row(one.source, one.text, "labelled", 2 * Chars(one.text))
         IN /\ RowsOf(parts) \in Seq(Sized) /\ Len(RowsOf(parts)) = Len(parts)
            /\ row \in Sized /\ row.size = 2 * Chars(one.text) /\ \A x \in Sized : x.size \in Nat
            /\ RowsOf(Append(parts, one)) = Append(RowsOf(parts), row)
            /\ RowsOf(<<>>) = <<>>
<1> DEFINE Sized == [source : Nat, text : Texts, cite : {"labelled"}, size : Nat]
           RowOf(x) == Row(x.source, x.text, "labelled", 2 * Chars(x.text))
<1>1. ASSUME NEW x \in PartTexts
      PROVE  RowOf(x) \in Sized /\ RowOf(x).size = 2 * Chars(x.text)
             /\ [ChunkRow(x.source, x.text) EXCEPT !.size = 2 * @] = RowOf(x)
  <2>1. x.source \in Nat /\ x.text \in Texts /\ Chars(x.text) \in Nat
    BY CharsIs DEF PartTexts
  <2>2. 2 * Chars(x.text) \in Nat
    BY <2>1
  <2>3. RowOf(x) = [source |-> x.source, text |-> x.text, cite |-> "labelled", size |-> 2 * Chars(x.text)]
    BY DEF Row
  <2>4. ChunkRow(x.source, x.text)
          = [source |-> x.source, text |-> x.text, cite |-> "labelled", size |-> Chars(x.text)]
    BY DEF Row, ChunkRow
  <2> HIDE DEF RowOf
  <2>5. [ChunkRow(x.source, x.text) EXCEPT !.size = 2 * @] = RowOf(x)
    BY <2>3, <2>4
  <2> QED BY <2>1, <2>2, <2>3, <2>5
<1>2. ASSUME NEW q \in Seq(PartTexts)
      PROVE  RowsOf(q) = [k \in 1..Len(q) |-> RowOf(q[k])]
  <2>1. DOMAIN q = 1..Len(q) /\ \A k \in 1..Len(q) : q[k] \in PartTexts
    OBVIOUS
  <2>2. RowsOf(q) = [k \in DOMAIN q |-> [ChunkRow(q[k].source, q[k].text) EXCEPT !.size = 2 * @]]
    BY DEF RowsOf, PageRows
  <2> HIDE DEF RowOf
  <2> QED BY <1>1, <2>1, <2>2
<1> HIDE DEF RowOf
<1>3. ASSUME NEW q \in Seq(PartTexts)
      PROVE  RowsOf(q) \in Seq(Sized) /\ Len(RowsOf(q)) = Len(q)
  <2>1. Len(q) \in Nat /\ \A k \in 1..Len(q) : q[k] \in PartTexts
    OBVIOUS
  <2>2. RowsOf(q) \in [1..Len(q) -> Sized]
    <3> HIDE DEF Sized
    <3> QED BY <1>1, <1>2, <2>1
  <2> HIDE DEF Sized
  <2> QED BY <2>1, <2>2
<1>4. RowsOf(Append(parts, one)) = Append(RowsOf(parts), RowOf(one))
  <2> DEFINE q == Append(parts, one)
             n == Len(parts)
  <2>1. n \in Nat /\ q \in Seq(PartTexts) /\ Len(q) = n + 1 /\ q[n+1] = one
        /\ \A k \in 1..n : q[k] = parts[k]
    OBVIOUS
  <2> HIDE DEF q
  <2>2. RowsOf(q) = [k \in 1..(n+1) |-> RowOf(q[k])]
    BY <1>2, <2>1
  <2>3. RowsOf(parts) = [k \in 1..n |-> RowOf(parts[k])]
    BY <1>2
  <2>4. RowsOf(parts) \in Seq(Sized) /\ Len(RowsOf(parts)) = n
    BY <1>3
  <2> DEFINE u == RowsOf(parts)
  <2> HIDE DEF u, Sized
  <2>5. Append(u, RowOf(one)) = [k \in 1..(n+1) |-> IF k = n + 1 THEN RowOf(one) ELSE u[k]]
    <3> DEFINE v == Append(u, RowOf(one))
    <3>1. RowOf(one) \in Sized
      BY <1>1
    <3>2. v \in Seq(Sized) /\ Len(v) = n + 1 /\ v[n+1] = RowOf(one) /\ \A k \in 1..n : v[k] = u[k]
      BY <2>4, <3>1 DEF u
    <3> HIDE DEF v
    <3>3. v = [k \in 1..(n+1) |-> v[k]]
      BY <3>2
    <3>4. \A k \in 1..(n+1) : v[k] = IF k = n + 1 THEN RowOf(one) ELSE u[k]
      <4>1. \A k \in 1..(n+1) : k # n + 1 => k \in 1..n
        BY <2>1
      <4> QED BY <3>2, <4>1
    <3> QED BY <3>3, <3>4 DEF v
  <2>6. \A k \in 1..n : u[k] = RowOf(parts[k])
    BY <2>3 DEF u
  <2>7. \A k \in 1..(n+1) : RowOf(q[k]) = IF k = n + 1 THEN RowOf(one) ELSE u[k]
    <3>1. \A k \in 1..(n+1) : k # n + 1 => k \in 1..n
      BY <2>1
    <3> QED BY <2>1, <2>6, <3>1
  <2> QED BY <2>2, <2>5, <2>7 DEF q, u
<1>5. RowsOf(<<>>) = <<>>
  <2>1. <<>> \in Seq(PartTexts) /\ Len(<<>>) = 0
    OBVIOUS
  <2>2. RowsOf(<<>>) \in Seq(Sized) /\ Len(RowsOf(<<>>)) = 0
    BY <1>3, <2>1
  <2> HIDE DEF Sized
  <2> QED BY <2>2
<1>6. \A x \in Sized : x.size \in Nat
  OBVIOUS
<1> QED BY <1>1, <1>3, <1>4, <1>5, <1>6 DEF RowOf

(* The loop that fills a page keeps its invariant: a part that was cut is its  *)
(* last, and of the whole ones no two neighbours could be one chunk.           *)
LEMMA PutKeeps ==
  ASSUME NEW chunks \in Grouped, NEW from \in Nat \ {0}, NEW maxChars \in Nat \ {0},
         NEW k \in Nat \ {0}, from + k - 1 <= Len(chunks),
         NEW s \in Paged(chunks, from, maxChars, k - 1)
  PROVE  Put(Numbered(chunks), maxChars, s, from + k - 1) \in Paged(chunks, from, maxChars, k)
<1> DEFINE p == from + k - 1
           sep == IF s.parts = <<>> THEN 0 ELSE 1
           m == Len(s.parts)
           available == maxChars - (s.used + sep)
           text == Prefix(chunks[p], available)
           rows == Numbered(chunks)
           one == [part |-> p, source |-> p, text |-> text]
           t == [parts |-> Append(s.parts, one), used |-> s.used + sep + Chars(text),
                 full |-> Chars(text) < Chars(chunks[p])]
           after == Put(rows, maxChars, s, p)
           C == 2 * CitationChars
<1>1. /\ s.parts \in Seq(PartTexts) /\ s.used \in Nat /\ s.full \in BOOLEAN
      /\ s = [parts |-> s.parts, used |-> s.used, full |-> s.full]
      /\ s.used <= maxChars /\ (s.parts = <<>> => s.used = 0) /\ SumOfParts(s) /\ FewParts(s, maxChars)
      /\ ~s.full =>
           /\ Len(s.parts) = k - 1
           /\ WholeParts(s)
           /\ k - 1 # 0 => Chars(s.parts[k-1].text) >= Chars(chunks[from + (k - 1) - 1])
  BY DEF Paged, PageState
<1>2. sep \in Nat /\ m \in Nat /\ (m = 0 <=> s.parts = <<>>) /\ p \in Nat /\ C \in Nat
      /\ MaxChunkChars \in Nat /\ PairChars \in Nat
  <2>1. m \in Nat /\ (m = 0 <=> s.parts = <<>>)
    BY <1>1
  <2>2. sep \in Nat /\ p \in Nat
    OBVIOUS
  <2>3. C \in Nat
    BY WorldAssumption
  <2>4. MaxChunkChars \in Nat /\ PairChars \in Nat
    BY ChunkAssumption DEF PairChars
  <2> QED BY <2>1, <2>2, <2>3, <2>4
<1> DEFINE U == s.used
<1>5. U \in Nat /\ U <= maxChars /\ (m = 0 => U = 0) /\ sep = (IF m = 0 THEN 0 ELSE 1)
  BY <1>1, <1>2
<1> HIDE DEF m, sep, U
<1>3. CASE s.full \/ maxChars <= s.used + sep
  <2>1. after = [s EXCEPT !.full = TRUE]
    BY <1>3 DEF Put, sep
  <2>2. after = [parts |-> s.parts, used |-> s.used, full |-> TRUE]
    BY <1>1, <2>1
  <2> HIDE DEF after
  <2>3. after \in PageState /\ after.parts = s.parts /\ after.used = s.used /\ after.full
    BY <1>1, <2>2 DEF PageState
  <2>4. SumOfParts(after) /\ FewParts(after, maxChars)
    BY <1>1, <2>3 DEF SumOfParts, FewParts
  <2> QED BY <1>1, <2>3, <2>4 DEF Paged, after
<1>4. CASE ~s.full /\ ~(maxChars <= s.used + sep)
  <2>1. after = t
    <3>1. rows[p].part = p /\ rows[p].text = chunks[p]
      <4>1. Len(chunks) \in Nat /\ p \in 1..Len(chunks)
        <5>1. Len(chunks) \in Nat
          BY NumberedTyped
        <5> QED BY <1>2, <5>1
      <4> HIDE DEF p
      <4> QED BY <4>1, NumberedTyped
    <3> HIDE DEF rows, p
    <3> QED BY <1>4, <3>1 DEF Put, sep
  <2>2. available \in Nat \ {0} /\ U + sep + available = maxChars
    <3>1. ~(maxChars <= U + sep)
      BY <1>4 DEF U
    <3>2. available = maxChars - (U + sep)
      BY DEF U
    <3>3. sep \in Nat /\ U \in Nat
      BY <1>2, <1>5
    <3> HIDE DEF available
    <3> QED BY <3>1, <3>2, <3>3
  <2>3. chunks[p] \in Texts /\ Chars(chunks[p]) \in Nat /\ p \in 1..Len(chunks) /\ Len(chunks) \in Nat
    <3>1. chunks \in Seq(SomeTexts) /\ Len(chunks) \in Nat
      BY DEF Grouped
    <3>2. p \in 1..Len(chunks)
      BY <1>2, <3>1
    <3>3. chunks[p] \in SomeTexts
      BY <3>1, <3>2
    <3> HIDE DEF p
    <3> QED BY <3>1, <3>2, <3>3, CharsIs DEF SomeTexts
  <2> HIDE DEF available, p, after, C
  <2>4. text \in Texts /\ Chars(text) \in Nat /\ Chars(text) <= available
    BY <2>2, <2>3, PrefixFits
  <2> HIDE DEF text
  <2> DEFINE cT == Chars(text)
  <2>13. cT \in Nat /\ cT <= available
    BY <2>4
  <2> HIDE DEF cT
  <2>5. one \in PartTexts
    BY <1>2, <2>4 DEF PartTexts
  <2>6. t.parts = Append(s.parts, one) /\ t.used = U + sep + cT
        /\ t.full = (Chars(text) < Chars(chunks[p])) /\ one.text = text
    BY DEF U, cT
  <2>7. t.parts \in Seq(PartTexts) /\ Len(t.parts) = m + 1 /\ t.parts[m+1] = one /\ t.parts # <<>>
    BY <1>1, <2>5, <2>6 DEF m
  <2>8. t.used \in Nat /\ t.used <= maxChars
    BY <1>2, <1>5, <2>2, <2>13, <2>6
  <2>9. t \in PageState
    <3>1. t.parts \in Seq(PartTexts) /\ t.used \in Nat /\ t.full \in BOOLEAN
      BY <2>6, <2>7, <2>8
    <3> QED BY <3>1 DEF PageState
  <2> HIDE DEF t
  <2>10. SumOfParts(t)
    <3> DEFINE Sized == [source : Nat, text : Texts, cite : {"labelled"}, size : Nat]
               row == Row(one.source, one.text, "labelled", 2 * Chars(one.text))
    <3>1. /\ RowsOf(s.parts) \in Seq(Sized) /\ Len(RowsOf(s.parts)) = Len(s.parts)
          /\ row \in Sized /\ row.size = 2 * Chars(one.text) /\ \A x \in Sized : x.size \in Nat
          /\ RowsOf(Append(s.parts, one)) = Append(RowsOf(s.parts), row)
      BY <1>1, <2>5, RowTyped
    <3>2. row.size = 2 * Chars(text)
      BY <3>1
    <3> HIDE DEF row, Sized
    <3>3. Listed(RowsOf(s.parts)) \in Nat
          /\ Listed(RowsOf(t.parts)) = Listed(RowsOf(s.parts)) + row.size + 2 * CitationChars
      BY <2>6, <3>1, ListedOne
    <3> DEFINE L == Listed(RowsOf(s.parts))
               CM == C * m
    <3>4. L + 2 * m = 2 * (U + sep) + CM
      BY <1>1, <1>2 DEF SumOfParts, C, m, U, sep
    <3>5. C * (m + 1) = CM + C /\ CM \in Nat
      BY <1>2
    <3>6. L \in Nat
      BY <3>3
    <3>8. Listed(RowsOf(t.parts)) = L + 2 * cT + C
      BY <3>2, <3>3 DEF L, C, cT
    <3>9. 2 * CitationChars * (m + 1) = CM + C
      BY <3>5 DEF C
    <3> HIDE DEF L, CM
    <3>7. (L + 2 * cT + C) + 2 * (m + 1) = 2 * (U + sep + cT + 1) + (CM + C)
      <4>1. m \in Nat /\ U \in Nat /\ sep \in Nat /\ C \in Nat
        BY <1>2, <1>5
      <4> QED BY <4>1, <2>13, <3>4, <3>5, <3>6
    <3> QED BY <2>6, <2>7, <3>7, <3>8, <3>9 DEF SumOfParts
  <2>11. FewParts(t, maxChars) /\ (~t.full => WholeParts(t))
    <3> DEFINE cL == Chars(s.parts[m].text)
    <3>1. PICK a \in Nat :
            \/ m = 2 * a /\ a * PairChars <= U + 1
            \/ m = 2 * a + 1 /\ a * PairChars + cL + 1 <= U + 1
      BY <1>1, <1>4 DEF WholeParts, m, U
    <3> DEFINE aP == a * PairChars
    <3>2. aP \in Nat /\ (a + 1) * PairChars = aP + PairChars /\ (a = 0 => aP = 0)
      BY <1>2
    <3>3. m # 0 => sep = 1 /\ U + 1 <= maxChars
      BY <1>2, <1>5, <2>2
    <3>4. t.parts[Len(t.parts)].text = text
      BY <2>6, <2>7
    <3> HIDE DEF aP, cL
    <3>5. CASE m = 2 * a /\ aP <= U + 1
      <4>0. m = 0 => a = 0
        BY <3>5
      <4>1. aP <= maxChars
        BY <1>2, <1>5, <3>2, <3>3, <3>5, <4>0
      <4>2. m + 1 <= 2 * a + 2 /\ m + 1 = 2 * a + 1
        BY <3>5
      <4>3. FewParts(t, maxChars)
        BY <2>7, <4>1, <4>2 DEF FewParts, aP
      <4>4. aP <= U + sep
        BY <1>2, <1>5, <3>2, <3>3, <3>5, <4>0
      <4>5. aP + cT + 1 <= t.used + 1
        BY <1>2, <1>5, <2>13, <2>6, <3>2, <4>4
      <4>6. WholeParts(t)
        BY <2>7, <3>4, <4>2, <4>5 DEF WholeParts, aP, cT
      <4> QED BY <4>3, <4>6
    <3>6. CASE m = 2 * a + 1 /\ aP + cL + 1 <= U + 1
      <4>0. m # 0 /\ sep = 1 /\ m = k - 1
        <5>1. m # 0
          BY <3>6
        <5>2. m = k - 1
          BY <1>1, <1>4 DEF m
        <5> QED BY <3>3, <5>1, <5>2
      <4>1. cL \in Nat
        <5>1. s.parts[m] \in PartTexts
          BY <1>1, <1>2, <4>0 DEF m
        <5> QED BY <5>1, CharsIs DEF PartTexts, cL
      <4>2. aP <= maxChars /\ m + 1 <= 2 * a + 2
        <5>1. m \in Nat /\ U \in Nat
          BY <1>2, <1>5
        <5>2. U <= maxChars
          BY <1>5
        <5> QED BY <3>2, <3>6, <4>1, <5>1, <5>2
      <4>3. FewParts(t, maxChars)
        BY <2>7, <4>2 DEF FewParts, aP
      <4>4. ASSUME ~t.full PROVE WholeParts(t)
        <5> DEFINE cP == Chars(chunks[p])
                   cQ == Chars(chunks[p-1])
        <5>0. cP \in Nat /\ ~(cT < cP)
          BY <2>3, <2>6, <4>4 DEF cT
        <5>2. p - 1 \in 1..(Len(chunks) - 1) /\ (p - 1) + 1 = p /\ p - 1 \in 1..Len(chunks)
              /\ from + (k - 1) - 1 = p - 1
          BY <2>3, <4>0 DEF p
        <5>3. cL >= cQ
          BY <1>1, <1>4, <4>0, <5>2 DEF cL
        <5>4. cQ + 2 + cP > MaxChunkChars
          BY <5>2 DEF Grouped
        <5>5. cQ \in Nat
          <6>1. chunks[p-1] \in SomeTexts
            BY <5>2 DEF Grouped
          <6> QED BY <6>1, CharsIs DEF SomeTexts
        <5> HIDE DEF cP, cQ
        <5>6. cL + 2 + cT >= PairChars
          BY <1>2, <2>13, <4>1, <5>0, <5>3, <5>4, <5>5 DEF PairChars
        <5>7. aP + PairChars <= t.used + 1
          <6>1. U \in Nat /\ PairChars \in Nat
            BY <1>2, <1>5
          <6>2. t.used = U + 1 + cT
            BY <2>6, <4>0
          <6> QED BY <2>13, <3>2, <3>6, <4>1, <5>6, <6>1, <6>2
        <5>8. m + 1 = 2 * (a + 1)
          BY <3>6
        <5> QED BY <2>7, <3>2, <5>7, <5>8 DEF WholeParts
      <4> QED BY <4>3, <4>4
    <3> QED BY <3>1, <3>5, <3>6 DEF aP
  <2>12. ~t.full => Len(t.parts) = k /\ Chars(t.parts[k].text) >= Chars(chunks[from + k - 1])
    <3>1. m + 1 = k
      BY <1>1, <1>4 DEF m
    <3>2. ~t.full => ~(cT < Chars(chunks[p]))
      BY <2>6 DEF cT
    <3>3. ~t.full => cT >= Chars(chunks[p])
      BY <2>3, <2>13, <3>2
    <3>4. t.parts[k].text = text
      BY <2>6, <2>7, <3>1
    <3> QED BY <2>7, <3>1, <3>3, <3>4 DEF p, cT
  <2> QED BY <2>1, <2>7, <2>8, <2>9, <2>10, <2>11, <2>12 DEF Paged, after, p
<1> QED BY <1>3, <1>4 DEF after, p

LEMMA AddPartTyped ==
  ASSUME NEW rows \in Seq(RowTexts), NEW from \in Nat, NEW maxChars \in Nat \ {0}, NEW p \in 1..Len(rows),
         NEW s \in PageState
  PROVE  AddPart(rows, from, maxChars, s, p) \in PageState
<1> DEFINE sep == IF s.parts = <<>> THEN 0 ELSE 1
           available == maxChars - (s.used + sep)
           text == Prefix(rows[p].text, available)
           one == [part |-> rows[p].part, source |-> p, text |-> text]
<1>1. s.parts \in Seq(PartTexts) /\ s.used \in Nat /\ s.full \in BOOLEAN /\ sep \in Nat
      /\ s = [parts |-> s.parts, used |-> s.used, full |-> s.full]
  BY DEF PageState
<1> HIDE DEF sep
<1>2. CASE s.full \/ maxChars <= s.used + sep
  <2>1. Put(rows, maxChars, s, p) = [s EXCEPT !.full = TRUE]
    BY <1>2 DEF Put, sep
  <2>2. [s EXCEPT !.full = TRUE] \in PageState
    BY DEF PageState
  <2> QED BY <2>1, <2>2, AddPartIs
<1>3. CASE ~s.full /\ ~(maxChars <= s.used + sep)
  <2>1. available \in Nat \ {0}
    BY <1>1, <1>3
  <2>0. rows[p] \in RowTexts /\ p \in Nat
    OBVIOUS
  <2>2. rows[p].text \in Texts /\ rows[p].part \in Nat /\ p \in Nat
    BY <2>0 DEF RowTexts, SomeTexts
  <2>3. Put(rows, maxChars, s, p) =
          [parts |-> Append(s.parts, one), used |-> s.used + sep + Chars(text),
           full |-> Chars(text) < Chars(rows[p].text)]
    BY <1>3 DEF Put, sep
  <2> HIDE DEF available
  <2>4. text \in Texts /\ Chars(text) \in Nat
    BY <2>1, <2>2, PrefixFits
  <2> HIDE DEF text
  <2>5. one \in PartTexts
    BY <2>2, <2>4 DEF PartTexts
  <2> HIDE DEF one
  <2>6. Append(s.parts, one) \in Seq(PartTexts) /\ s.used + sep + Chars(text) \in Nat
    BY <1>1, <2>4, <2>5
  <2>7. Put(rows, maxChars, s, p) \in PageState
    BY <2>3, <2>6 DEF PageState
  <2> QED BY <2>7, AddPartIs
<1> QED BY <1>2, <1>3

LEMMA PartsRun ==
  ASSUME NEW rows \in Seq(RowTexts), NEW from \in Nat, NEW maxChars \in Nat \ {0}
  PROVE  \E F : PartRuns(rows, from, maxChars, F)
<1> DEFINE base == [parts |-> <<>>, used |-> 0, full |-> FALSE]
           n == Len(rows)
           seq == [k \in DOMAIN rows |-> k]
           st == [k \in 1..n |-> [s \in PageState |-> AddPart(rows, from, maxChars, s, seq[k])]]
           G == CHOOSE g : g = [s \in SUBSET (1..n) |->
                            IF s = {} THEN base ELSE AddPart(rows, from, maxChars, g[s \ {Max(s)}], seq[Max(s)])]
           end == FoldLeft(LAMBDA s, k : AddPart(rows, from, maxChars, s, k), base, seq)
           F == [k \in 0..n |-> G[1..k]]
<1>0. n \in Nat
  OBVIOUS
<1>1. DOMAIN seq = 1..n /\ \A k \in 1..n : seq[k] = k
  OBVIOUS
<1>3. base \in PageState
  BY DEF PageState
<1>12. PartsFrom(rows, from, maxChars) = end.parts
  BY DEF PartsFrom
<1>13. \A s \in PageState : \A k \in 1..n : AddPart(rows, from, maxChars, s, seq[k]) \in PageState
  BY <1>1, AddPartTyped
<1> HIDE DEF n, seq, base
<1>5. st \in [1..n -> [PageState -> PageState]]
  BY <1>13
<1> HIDE DEF st
<1>6. G = [s \in SUBSET (1..n) |->
             IF s = {} THEN base ELSE AddPart(rows, from, maxChars, G[s \ {Max(s)}], seq[Max(s)])]
  <2>1. PICK g : Folds(g, n, PageState, base, st)
    BY <1>0, <1>3, <1>5, FoldExists
  <2>2. ASSUME NEW s \in SUBSET (1..n), s # {}
        PROVE  st[Max(s)][g[s \ {Max(s)}]] = AddPart(rows, from, maxChars, g[s \ {Max(s)}], seq[Max(s)])
    <3>1. s \in SUBSET (0..n)
      OBVIOUS
    <3>2. Max(s) \in 1..n
      BY <1>0, <2>2, <3>1, GreatestOne
    <3>3. g[s \ {Max(s)}] \in PageState
      BY <2>1 DEF Folds
    <3> QED BY <3>2, <3>3 DEF st
  <2>3. g = [s \in SUBSET (1..n) |->
             IF s = {} THEN base ELSE AddPart(rows, from, maxChars, g[s \ {Max(s)}], seq[Max(s)])]
    BY <2>1, <2>2 DEF Folds
  <2> QED BY <2>3
<1>7. end = G[1..n]
  BY <1>1 DEF FoldLeft, MapThenFoldSet
<1> HIDE DEF G
<1>8. G[{}] = base
  <2>1. {} \in SUBSET (1..n)
    OBVIOUS
  <2> QED BY <1>6, <2>1
<1>9. \A k \in 1..n : G[1..k] = AddPart(rows, from, maxChars, G[1..(k-1)], seq[k])
  <2> SUFFICES ASSUME NEW k \in 1..n PROVE G[1..k] = AddPart(rows, from, maxChars, G[1..(k-1)], seq[k])
    OBVIOUS
  <2>1. k \in Nat \ {0} /\ 1..k \in SUBSET (1..n)
    BY <1>0
  <2>2. Max(1..k) = k /\ (1..k) \ {k} = 1..(k-1) /\ 1..k # {}
    BY <2>1, MaxUpto
  <2> QED BY <1>6, <2>1, <2>2
<1>10. \A k \in 0..n : G[1..k] \in PageState
  <2>1. G[{}] \in PageState
    BY <1>3, <1>8
  <2>2. \A k \in 1..n : G[1..(k-1)] \in PageState => G[1..k] \in PageState
    BY <1>13, <1>9
  <2> QED BY <1>0, <2>1, <2>2, FoldStays
<1>11. /\ F[0] = base /\ F[n] = G[1..n]
       /\ \A k \in 0..n : F[k] = G[1..k]
       /\ \A k \in 1..n : F[k] = AddPart(rows, from, maxChars, F[k-1], seq[k])
  <2>1. 1..0 = {} /\ 0 \in 0..n /\ n \in 0..n
    BY <1>0
  <2>2. \A k \in 1..n : k \in 0..n /\ k - 1 \in 0..n
    BY <1>0
  <2> QED BY <1>8, <1>9, <2>1, <2>2
<1> HIDE DEF F, end
<1>14. F[0] = base /\ (\A k \in 0..n : F[k] \in PageState) /\ PartsFrom(rows, from, maxChars) = F[n].parts
  BY <1>7, <1>10, <1>11, <1>12
<1>15. \A k \in 1..n : F[k] = AddPart(rows, from, maxChars, F[k-1], k)
  BY <1>1, <1>11
<1>17. PartRuns(rows, from, maxChars, F)
  BY <1>14, <1>15 DEF base, n, PartRuns
<1> QED BY <1>17

(* The loop ends in a state that the invariant describes.                      *)
LEMMA PartsPaged ==
  ASSUME NEW chunks \in Grouped, NEW from \in Nat \ {0}, NEW maxChars \in Nat \ {0}
  PROVE  \E k \in Nat : \E s \in Paged(chunks, from, maxChars, k) :
           PartsFrom(Numbered(chunks), from, maxChars) = s.parts
<1> DEFINE base == [parts |-> <<>>, used |-> 0, full |-> FALSE]
           rows == Numbered(chunks)
           n == Len(chunks)
           Past(k) == IF k < from THEN 0 ELSE k + 1 - from
<1>1. rows \in Seq(RowTexts) /\ Len(rows) = n /\ n \in Nat /\ \A k \in 1..n : rows[k].part = k
  BY NumberedTyped
<1>2. PICK F : PartRuns(rows, from, maxChars, F)
  BY <1>1, PartsRun
<1>3. base \in PageState
  BY DEF PageState
<1>4. base \in Paged(chunks, from, maxChars, 0)
  <2>1. Listed(RowsOf(<<>>)) = 0
    <3>1. [part |-> 0, source |-> 0, text |-> <<>>] \in PartTexts
      BY DEF PartTexts, Texts
    <3>2. <<>> \in Seq(PartTexts)
      OBVIOUS
    <3>3. RowsOf(<<>>) = <<>>
      BY <3>1, <3>2, RowTyped
    <3>4. \A x \in [size : Nat] : x.size \in Nat
      OBVIOUS
    <3>5. <<>> \in Seq([size : Nat]) /\ [size |-> 0] \in [size : Nat]
      OBVIOUS
    <3> QED BY <3>3, <3>4, <3>5, ListedOne
  <2>2. CitationChars \in Nat
    BY WorldAssumption
  <2>3. SumOfParts(base)
    BY <2>1, <2>2 DEF SumOfParts
  <2>4. 0 * PairChars = 0
    BY ChunkAssumption DEF PairChars
  <2>5. FewParts(base, maxChars) /\ WholeParts(base)
    BY <2>4 DEF FewParts, WholeParts
  <2> QED BY <1>3, <2>3, <2>5 DEF Paged
<1> HIDE DEF base, rows, n
<1>5. F[0] = base /\ (\A k \in 1..n : F[k] = AddPart(rows, from, maxChars, F[k-1], k))
      /\ PartsFrom(rows, from, maxChars) = F[n].parts
  BY <1>1, <1>2 DEF PartRuns, base
<1> DEFINE T == {k \in Nat : k <= n => F[k] \in Paged(chunks, from, maxChars, Past(k)) /\ (k < from => F[k] = base)}
<1>7. 0 \in T
  BY <1>4, <1>5
<1>8. ASSUME NEW k \in Nat, k \in T PROVE k + 1 \in T
  <2> SUFFICES ASSUME k + 1 <= n
               PROVE  F[k + 1] \in Paged(chunks, from, maxChars, Past(k + 1)) /\ (k + 1 < from => F[k + 1] = base)
    <3> HIDE DEF Past
    <3> QED OBVIOUS
  <2>1. k + 1 \in Nat \ {0} /\ k + 1 \in 1..n /\ (k + 1) - 1 = k /\ k <= n
    BY <1>1
  <2>2. F[k + 1] = AddPart(rows, from, maxChars, F[k], k + 1) /\ rows[k + 1].part = k + 1
    BY <1>1, <1>5, <2>1
  <2>3. F[k] \in Paged(chunks, from, maxChars, Past(k)) /\ (k < from => F[k] = base)
    <3> HIDE DEF Past
    <3> QED BY <1>8, <2>1
  <2>4. CASE k + 1 < from
    <3>1. F[k + 1] = F[k] /\ k < from
      BY <2>2, <2>4, AddPartIs
    <3>2. Past(k + 1) = 0
      BY <2>4
    <3> HIDE DEF Past
    <3> QED BY <1>4, <2>3, <3>1, <3>2
  <2>5. CASE ~(k + 1 < from)
    <3>1. F[k + 1] = Put(rows, maxChars, F[k], k + 1)
      BY <2>2, <2>5, AddPartIs
    <3> DEFINE j == Past(k + 1)
    <3>2. j \in Nat \ {0} /\ from + j - 1 = k + 1 /\ Past(k) = j - 1
      BY <2>5
    <3> HIDE DEF j, Past
    <3>3. from + j - 1 <= Len(chunks)
      BY <1>1, <2>1, <3>2 DEF n
    <3>4. F[k] \in Paged(chunks, from, maxChars, j - 1)
      BY <2>3, <3>2
    <3>5. Put(rows, maxChars, F[k], from + j - 1) \in Paged(chunks, from, maxChars, j)
      BY <3>2, <3>3, <3>4, PutKeeps DEF rows
    <3> QED BY <2>5, <3>1, <3>2, <3>5 DEF j
  <2> QED BY <2>4, <2>5
<1>9. \A k \in Nat : k \in T
  <2> HIDE DEF T
  <2> QED BY <1>7, <1>8, SetInduction
<1>10. F[n] \in Paged(chunks, from, maxChars, Past(n)) /\ Past(n) \in Nat
  <2>1. Past(n) \in Nat
    BY <1>1
  <2>2. n <= n
    BY <1>1
  <2> HIDE DEF Past
  <2> QED BY <1>1, <1>9, <2>1, <2>2
<1> HIDE DEF Past
<1> QED BY <1>5, <1>10 DEF rows

(* The rows of a page, of whatever rows it was made.                           *)
LEMMA PageRowsTyped ==
  ASSUME NEW rows \in Seq(RowTexts), NEW from \in Nat, NEW maxChars \in Nat \ {0}
  PROVE  LET Sized == [source : Nat, text : Texts, cite : {"labelled"}, size : Nat]
             parts == PartsFrom(rows, from, maxChars)
             page  == PageRows(ReadSection(rows, from, maxChars))
         IN /\ parts \in Seq(PartTexts) /\ page = RowsOf(parts)
            /\ page \in Seq(Sized) /\ Len(page) = Len(parts) /\ Listed(page) \in Nat
<1> DEFINE parts == PartsFrom(rows, from, maxChars)
           Sized == [source : Nat, text : Texts, cite : {"labelled"}, size : Nat]
           m == Len(parts)
<1>1. PageRows(ReadSection(rows, from, maxChars)) = RowsOf(parts)
  BY DEF PageRows, RowsOf, ReadSection, PageOf
<1>2. parts \in Seq(PartTexts)
  <2>1. PICK F : PartRuns(rows, from, maxChars, F)
    BY PartsRun
  <2>2. Len(rows) \in 0..Len(rows)
    OBVIOUS
  <2>3. F[Len(rows)] \in PageState /\ parts = F[Len(rows)].parts
    BY <2>1, <2>2 DEF PartRuns
  <2> HIDE DEF parts
  <2> QED BY <2>3 DEF PageState
<1> HIDE DEF parts
<1>5. [part |-> 0, source |-> 0, text |-> <<>>] \in PartTexts
  BY DEF PartTexts, Texts
<1>6. RowsOf(parts) \in Seq(Sized) /\ Len(RowsOf(parts)) = m /\ \A x \in Sized : x.size \in Nat
  BY <1>2, <1>5, RowTyped
<1>7. Listed(RowsOf(parts)) \in Nat
  <2>1. SubSeq(RowsOf(parts), 1, m) = RowsOf(parts)
    BY <1>6
  <2>2. m \in 0..Len(RowsOf(parts))
    BY <1>2, <1>6
  <2> HIDE DEF Sized
  <2> QED BY <1>6, <2>1, <2>2, ListedStarts
<1> QED BY <1>1, <1>2, <1>6, <1>7 DEF parts

(* The rows of a page and what they take, where the path occurs once.          *)
LEMMA PageFits ==
  ASSUME NEW chunks \in Grouped, NEW from \in Nat \ {0}, NEW maxChars \in Nat \ {0}
  PROVE  LET rows == PageRows(ReadSection(Numbered(chunks), from, maxChars))
         IN rows # <<>> =>
              \E m \in Nat \ {0} : \E a \in Nat :
                /\ m <= 2 * a + 2 /\ a * PairChars <= maxChars
                /\ Listed(rows) <= 2 * (maxChars + 1 - m) + 2 * CitationChars * m
<1> DEFINE parts == PartsFrom(Numbered(chunks), from, maxChars)
           rows == PageRows(ReadSection(Numbered(chunks), from, maxChars))
           m == Len(parts)
<1>1. /\ parts \in Seq(PartTexts) /\ rows = RowsOf(parts) /\ Len(rows) = Len(parts) /\ Listed(rows) \in Nat
      /\ rows \in Seq([source : Nat, text : Texts, cite : {"labelled"}, size : Nat])
  BY NumberedTyped, PageRowsTyped
<1>2. PICK k \in Nat : \E s \in Paged(chunks, from, maxChars, k) : parts = s.parts
  BY PartsPaged
<1>3. PICK s \in Paged(chunks, from, maxChars, k) : parts = s.parts
  BY <1>2
<1> HIDE DEF parts, rows
<1>4. /\ s.used \in Nat /\ s.used <= maxChars
      /\ SumOfParts(s) /\ FewParts(s, maxChars) /\ (parts = <<>> => s.used = 0)
  BY <1>3 DEF Paged, PageState
<1>8. ASSUME rows # <<>>
      PROVE  \E j \in Nat \ {0} : \E a \in Nat :
                   /\ j <= 2 * a + 2 /\ a * PairChars <= maxChars
                   /\ Listed(rows) <= 2 * (maxChars + 1 - j) + 2 * CitationChars * j
  <2>1. m \in Nat \ {0} /\ parts # <<>>
    BY <1>1, <1>8
  <2> DEFINE L == Listed(rows)
             CM == 2 * CitationChars * m
             U == s.used
  <2>2. L + 2 * m = 2 * (U + 1) + CM
    BY <1>1, <1>3, <1>4, <2>1 DEF SumOfParts
  <2>3. CM \in Nat /\ U \in Nat /\ U <= maxChars /\ L \in Nat
    <3>1. CitationChars \in Nat
      BY WorldAssumption
    <3>2. CM \in Nat
      <4> HIDE DEF m
      <4> QED BY <2>1, <3>1
    <3>3. U \in Nat /\ U <= maxChars
      BY <1>4
    <3>4. L \in Nat
      BY <1>1
    <3> QED BY <3>2, <3>3, <3>4
  <2> HIDE DEF L, CM, U
  <2>4. L <= 2 * (maxChars + 1 - m) + CM
    BY <2>1, <2>2, <2>3
  <2>5. \E a \in Nat : m <= 2 * a + 2 /\ a * PairChars <= maxChars
    BY <1>3, <1>4 DEF FewParts
  <2> HIDE DEF m
  <2> QED BY <2>1, <2>4, <2>5 DEF L, CM
<1> QED BY <1>8 DEF rows

-------------------------------------------------------------------------------
(* The rows of a path.                                                         *)

(* What is numbered one, then what is numbered two and so on is in order. *)
LEMMA FlattenSorted ==
  ASSUME NEW seqs \in Seq(Seq(RowTexts)), \A p \in 1..Len(seqs) : seqs[p] \in Seq(OfPart(p))
  PROVE  LET flat == FlattenSeq(seqs)
         IN \A i, j \in 1..Len(flat) : i <= j => flat[i].part <= flat[j].part
<1> DEFINE n == Len(seqs)
<1>1. PICK h : Flattens(h, seqs, RowTexts)
  BY FlattenRuns
<1>2. n \in Nat /\ \A k \in 1..n : seqs[k] \in Seq(OfPart(k))
  OBVIOUS
<1>3. /\ FlattenSeq(seqs) = h[n] /\ h[0] = <<>>
      /\ \A i \in 0..n : h[i] \in Seq(RowTexts)
      /\ \A i \in 1..n : h[i] = h[i-1] \o seqs[i]
  BY <1>1 DEF Flattens
<1> HIDE DEF n
<1> DEFINE Q(k) == /\ \A i \in 1..Len(h[k]) : h[k][i].part \in 1..k
                   /\ \A i, j \in 1..Len(h[k]) : i <= j => h[k][i].part <= h[k][j].part
           V == {k \in Nat : k <= n => Q(k)}
<1>4. 0 \in V
  <2>1. 1..Len(h[0]) = {}
    BY <1>3
  <2> QED BY <2>1
<1>5. ASSUME NEW k \in Nat, k \in V PROVE k + 1 \in V
  <2> SUFFICES ASSUME k + 1 <= n PROVE Q(k + 1)
    <3> HIDE DEF Q
    <3> QED OBVIOUS
  <2>1. k + 1 \in 1..n /\ k \in 0..n /\ (k + 1) - 1 = k /\ k <= n
    BY <1>2
  <2>2. Q(k)
    BY <1>5, <2>1
  <2> DEFINE a == h[k]  b == seqs[k + 1]  c == h[k + 1]  x == Len(a)  y == Len(b)
  <2>3. a \in Seq(RowTexts) /\ b \in Seq(OfPart(k + 1)) /\ c = a \o b
    BY <1>2, <1>3, <2>1
  <2>4. (\A i \in 1..x : a[i].part \in 1..k) /\ (\A i, j \in 1..x : i <= j => a[i].part <= a[j].part)
    BY <2>2
  <2> HIDE DEF a, b, c
  <2>5. b \in Seq(RowTexts) /\ \A i \in 1..y : b[i].part = k + 1
    <3>1. \A z \in OfPart(k + 1) : z \in RowTexts /\ z.part = k + 1
      BY DEF OfPart
    <3> QED BY <2>3, <3>1
  <2>6. x \in Nat /\ y \in Nat /\ Len(c) = x + y /\ (\A i \in 1..x : c[i] = a[i]) /\ \A i \in 1..y : c[x + i] = b[i]
    BY <2>3, <2>5
  <2> HIDE DEF x, y
  <2>7. ASSUME NEW i \in 1..(x + y), ~(i \in 1..x) PROVE c[i].part = k + 1
    <3>1. i - x \in 1..y /\ x + (i - x) = i
      BY <2>6, <2>7
    <3> QED BY <2>5, <2>6, <3>1
  <2>8. \A i \in 1..(x + y) : c[i].part \in 1..(k + 1)
    <3>1. \A i \in 1..x : c[i].part \in 1..k
      BY <2>4, <2>6
    <3>2. \A q \in 1..k : q \in 1..(k + 1)
      OBVIOUS
    <3> QED BY <2>7, <3>1, <3>2
  <2>9. ASSUME NEW i \in 1..(x + y), NEW j \in 1..(x + y), i <= j PROVE c[i].part <= c[j].part
    <3>1. c[i].part \in 1..(k + 1)
      BY <2>8
    <3>2. CASE j \in 1..x
      <4>1. i \in 1..x
        BY <2>6, <2>9, <3>2
      <4> QED BY <2>4, <2>6, <2>9, <3>2, <4>1
    <3>3. CASE ~(j \in 1..x)
      <4>1. c[j].part = k + 1
        BY <2>7, <3>3
      <4> QED BY <3>1, <4>1
    <3> QED BY <3>2, <3>3
  <2> QED BY <2>6, <2>8, <2>9 DEF c
<1>6. \A k \in Nat : k \in V
  <2> HIDE DEF V
  <2> QED BY <1>4, <1>5, SetInduction
<1>7. Q(n)
  <2>1. n <= n
    BY <1>2
  <2> HIDE DEF Q
  <2> QED BY <1>2, <1>6, <2>1
<1> QED BY <1>3, <1>7

(* The rows of a file: in order of their parts, and every chunk is one.        *)
LEMMA InFileHolds ==
  ASSUME NEW file \in Seq(Seq(Blocks))
  PROVE  /\ InFile(file) \in Seq(RowTexts)
         /\ \A i, j \in 1..Len(InFile(file)) : i <= j => InFile(file)[i].part <= InFile(file)[j].part
         /\ \A o \in DOMAIN file : \A p \in 1..Len(Chunks(file[o])) :
              \E k \in 1..Len(InFile(file)) : InFile(file)[k].text = Chunks(file[o])[p]
         /\ Len(file) = 1 => InFile(file) = Numbered(Chunks(file[1]))
<1> DEFINE chunks  == [o \in DOMAIN file |-> Chunks(file[o])]
           longest == Max({Len(chunks[o]) : o \in DOMAIN file} \cup {0})
           most    == Max({Len(chunks[o]) : o \in DOMAIN chunks} \cup {0})
           One(p, o) == [part |-> p, text |-> chunks[o][p]]
           At(p, o) == IF p <= Len(chunks[o]) THEN <<One(p, o)>> ELSE <<>>
           Turn(p)  == [o \in DOMAIN file |-> At(p, o)]
           Round(p) == FlattenSeq(Turn(p))
           rounds == [p \in 1..longest |-> Round(p)]
           n == Len(file)
<1>1. InFile(file) = FlattenSeq(rounds)
  BY DEF InFile
<1>2. n \in Nat /\ DOMAIN file = 1..n
  OBVIOUS
<1>3. \A o \in 1..n : chunks[o] \in Seq(SomeTexts) /\ chunks[o] \in Grouped /\ chunks[o] = Chunks(file[o])
  <2> SUFFICES ASSUME NEW o \in 1..n
               PROVE  chunks[o] \in Seq(SomeTexts) /\ chunks[o] \in Grouped /\ chunks[o] = Chunks(file[o])
    OBVIOUS
  <2>1. file[o] \in Seq(Blocks) /\ chunks[o] = Chunks(file[o])
    OBVIOUS
  <2>2. Chunks(file[o]) \in Grouped
    BY <2>1, ChunksGrouped
  <2> QED BY <2>1, <2>2 DEF Grouped
<1>4. chunks \in Seq(Seq(SomeTexts)) /\ DOMAIN chunks = 1..n
  <2>1. DOMAIN chunks = 1..n
    BY <1>2
  <2>2. chunks = [o \in 1..n |-> chunks[o]]
    BY <1>2
  <2> HIDE DEF chunks, n
  <2>3. chunks \in [1..n -> Seq(SomeTexts)]
    BY <1>3, <2>2
  <2> QED BY <1>2, <2>1, <2>3
<1>5. longest = most
  BY <1>2, <1>4
<1>6. longest \in Nat /\ \A o \in 1..n : Len(chunks[o]) <= longest
  <2>1. most \in Nat /\ \A o \in DOMAIN chunks : Len(chunks[o]) <= most
    <3> HIDE DEF chunks
    <3> QED BY <1>4, LongestIs
  <2> HIDE DEF longest, most, chunks
  <2> QED BY <1>4, <1>5, <2>1
<1> HIDE DEF longest, most, chunks, n
<1>7. ASSUME NEW p \in 1..longest, NEW o \in 1..n
      PROVE  /\ At(p, o) \in Seq(OfPart(p))
             /\ p <= Len(chunks[o]) => One(p, o) \in OfPart(p)
  <2>1. Len(chunks[o]) \in Nat /\ chunks[o] \in Seq(SomeTexts)
    BY <1>3
  <2>2. CASE p <= Len(chunks[o])
    <3>1. chunks[o][p] \in SomeTexts /\ p \in Nat \ {0}
      BY <1>6, <2>1, <2>2
    <3>2. One(p, o) \in OfPart(p)
      BY <3>1 DEF OfPart, RowTexts
    <3> HIDE DEF One
    <3> QED BY <2>2, <3>2
  <2>3. CASE ~(p <= Len(chunks[o]))
    <3>1. At(p, o) = <<>>
      BY <2>3
    <3> HIDE DEF At
    <3> QED BY <2>3, <3>1
  <2> QED BY <2>2, <2>3
<1>8. ASSUME NEW p \in 1..longest
      PROVE  Turn(p) \in Seq(Seq(OfPart(p))) /\ Round(p) \in Seq(OfPart(p)) /\ Len(Turn(p)) = n /\ DOMAIN Turn(p) = 1..n
  <2> HIDE DEF At
  <2>1. Turn(p) \in [1..n -> Seq(OfPart(p))]
    BY <1>2, <1>7
  <2> HIDE DEF Turn
  <2>2. Turn(p) \in Seq(Seq(OfPart(p))) /\ DOMAIN Turn(p) = 1..n
    BY <1>2, <2>1
  <2>3. Len(Turn(p)) = n
    BY <1>2, <2>2
  <2> QED BY <2>2, <2>3, FlattenTyped
<1>9. ASSUME NEW p \in 1..longest PROVE Round(p) \in Seq(RowTexts)
  <2>1. Round(p) \in Seq(OfPart(p)) /\ \A x \in OfPart(p) : x \in RowTexts
    BY <1>8 DEF OfPart
  <2> HIDE DEF Round
  <2> QED BY <2>1
<1>10. rounds \in Seq(Seq(RowTexts)) /\ Len(rounds) = longest /\ DOMAIN rounds = 1..longest
       /\ \A p \in 1..longest : rounds[p] = Round(p)
  <2> HIDE DEF Round
  <2>1. rounds \in [1..longest -> Seq(RowTexts)] /\ \A p \in 1..longest : rounds[p] = Round(p)
    BY <1>9
  <2> HIDE DEF rounds
  <2>2. rounds \in Seq(Seq(RowTexts)) /\ DOMAIN rounds = 1..longest
    BY <1>6, <2>1
  <2>3. Len(rounds) = longest
    BY <1>6, <2>2
  <2> QED BY <2>1, <2>2, <2>3
<1> HIDE DEF rounds
<1>11. InFile(file) \in Seq(RowTexts)
  BY <1>1, <1>10, FlattenTyped
<1>12. \A i, j \in 1..Len(InFile(file)) : i <= j => InFile(file)[i].part <= InFile(file)[j].part
  <2>1. \A p \in 1..Len(rounds) : rounds[p] \in Seq(OfPart(p))
    BY <1>8, <1>10
  <2> QED BY <1>1, <1>10, <2>1, FlattenSorted
<1>13. ASSUME NEW o \in DOMAIN file, NEW p \in 1..Len(Chunks(file[o]))
       PROVE  \E k \in 1..Len(InFile(file)) : InFile(file)[k].text = Chunks(file[o])[p]
  <2>1. o \in 1..n /\ chunks[o] = Chunks(file[o]) /\ Len(chunks[o]) \in Nat
    BY <1>2, <1>3
  <2>2. p \in 1..longest /\ p <= Len(chunks[o])
    BY <1>6, <2>1
  <2> DEFINE x == One(p, o)  t == Turn(p)  r == Round(p)
  <2>3. t[o] = <<x>>
    BY <1>2, <2>1, <2>2
  <2>4. x.text = Chunks(file[o])[p]
    BY <2>1
  <2>5. t \in Seq(Seq(OfPart(p))) /\ o \in DOMAIN t /\ r = FlattenSeq(t)
    BY <1>8, <2>1, <2>2
  <2> HIDE DEF x, t, r
  <2>6. 1 \in DOMAIN t[o] /\ t[o][1] = x
    BY <2>3
  <2>7. x \in ToSet(r)
    BY <2>5, <2>6, FlattenHas
  <2>8. r \in Seq(RowTexts) /\ rounds[p] = r /\ p \in DOMAIN rounds
    BY <1>9, <1>10, <2>2 DEF r
  <2>9. PICK q \in DOMAIN r : r[q] = x
    BY <2>7 DEF ToSet
  <2>10. q \in DOMAIN rounds[p] /\ rounds[p][q] = x
    BY <2>8, <2>9
  <2>11. x \in ToSet(InFile(file))
    BY <1>1, <1>10, <2>8, <2>10, FlattenHas
  <2>12. PICK k \in DOMAIN InFile(file) : InFile(file)[k] = x
    BY <2>11 DEF ToSet
  <2>13. k \in 1..Len(InFile(file))
    BY <1>11
  <2> QED BY <2>4, <2>12, <2>13
<1>14. ASSUME Len(file) = 1
       PROVE  InFile(file) = Numbered(Chunks(file[1]))
  <2> DEFINE c == chunks[1]  m == Len(c)
  <2>1. n = 1 /\ 1 \in 1..n /\ c = Chunks(file[1]) /\ c \in Grouped /\ c \in Seq(SomeTexts)
    BY <1>3, <1>14 DEF n
  <2>2. longest = m
    <3>1. {Len(chunks[o]) : o \in DOMAIN file} = {m}
      BY <1>2, <2>1
    <3>2. m \in Nat
      BY <2>1
    <3>3. longest = Max({m} \cup {0})
      BY <3>1 DEF longest
    <3> HIDE DEF m
    <3>4. {m} \cup {0} \in SUBSET (0..m) /\ m \in ({m} \cup {0})
      BY <3>2
    <3>5. \A x \in {m} \cup {0} : x <= m
      BY <3>2
    <3> QED BY <3>2, <3>3, <3>4, <3>5, GreatestOne
  <2>3. ASSUME NEW p \in 1..m PROVE Round(p) = <<One(p, 1)>>
    <3>1. p \in 1..longest
      BY <2>2
    <3>2. Turn(p) \in Seq(Seq(OfPart(p))) /\ Len(Turn(p)) = 1
      BY <1>8, <2>1, <3>1
    <3>3. Round(p) = Turn(p)[1]
      BY <3>2, FlattenOne
    <3>4. Turn(p)[1] = At(p, 1)
      BY <1>2, <2>1
    <3>5. p <= Len(chunks[1])
      BY <2>1
    <3> QED BY <3>3, <3>4, <3>5
  <2> HIDE DEF Round, One
  <2>9. \A p \in 1..m : rounds[p] = <<One(p, 1)>>
    BY <1>10, <2>2, <2>3
  <2>10. ASSUME NEW p \in 1..m PROVE Len(rounds[p]) = 1 /\ rounds[p][1] = One(p, 1)
    <3> DEFINE x == One(p, 1)
    <3>1. rounds[p] = <<x>>
      BY <2>9
    <3> HIDE DEF x
    <3> QED BY <3>1 DEF x
  <2>4. \A p \in 1..Len(rounds) : Len(rounds[p]) = 1
    BY <1>10, <2>2, <2>10
  <2>5. InFile(file) = [p \in 1..Len(rounds) |-> rounds[p][1]]
    BY <1>1, <1>10, <2>4, FlattenSingles
  <2>6. DOMAIN c = 1..m
    BY <2>1
  <2>7. Numbered(c) = [p \in 1..m |-> One(p, 1)]
    BY <2>6 DEF Numbered, One
  <2>8. \A p \in 1..m : rounds[p][1] = One(p, 1)
    BY <2>10
  <2> HIDE DEF One, c, m
  <2> QED BY <1>10, <2>1, <2>2, <2>5, <2>7, <2>8
<1> QED BY <1>11, <1>12, <1>13, <1>14

(* The rows of a path.                                                         *)
LEMMA RowsHold ==
  ASSUME NEW all \in Seq(Seq(Seq(Blocks)))
  PROVE  /\ Rows(all) \in Seq(RowTexts)
         /\ Len(all) = 1 => Rows(all) = InFile(all[1]) /\ all[1] \in Seq(Seq(Blocks))
         /\ Len(all) = 1 /\ Len(all[1]) = 1 =>
              \E chunks \in Grouped : Rows(all) = Numbered(chunks)
<1> DEFINE seqs == [f \in DOMAIN all |-> InFile(all[f])]
           n == Len(all)
<1>1. n \in Nat /\ DOMAIN all = 1..n /\ \A f \in 1..n : all[f] \in Seq(Seq(Blocks))
  OBVIOUS
<1>2. Rows(all) = FlattenSeq(seqs)
  BY DEF Rows
<1>3. seqs \in Seq(Seq(RowTexts)) /\ Len(seqs) = n /\ \A f \in 1..n : seqs[f] = InFile(all[f])
  <2> HIDE DEF n
  <2>1. seqs \in [1..n -> Seq(RowTexts)] /\ \A f \in 1..n : seqs[f] = InFile(all[f])
    BY <1>1, InFileHolds
  <2> HIDE DEF seqs
  <2>2. seqs \in Seq(Seq(RowTexts)) /\ DOMAIN seqs = 1..n
    BY <1>1, <2>1
  <2>3. Len(seqs) = n
    BY <1>1, <2>2
  <2> QED BY <2>1, <2>2, <2>3
<1> HIDE DEF seqs
<1>4. Rows(all) \in Seq(RowTexts)
  BY <1>2, <1>3, FlattenTyped
<1>5. ASSUME n = 1 PROVE Rows(all) = InFile(all[1]) /\ all[1] \in Seq(Seq(Blocks))
  BY <1>1, <1>2, <1>3, <1>5, FlattenOne
<1>6. ASSUME n = 1, Len(all[1]) = 1 PROVE \E chunks \in Grouped : Rows(all) = Numbered(chunks)
  <2>1. all[1] \in Seq(Seq(Blocks)) /\ all[1][1] \in Seq(Blocks)
    BY <1>5, <1>6
  <2>2. InFile(all[1]) = Numbered(Chunks(all[1][1])) /\ Chunks(all[1][1]) \in Grouped
    BY <1>6, <2>1, InFileHolds, ChunksGrouped
  <2> QED BY <1>5, <1>6, <2>2
<1> QED BY <1>4, <1>5, <1>6

-------------------------------------------------------------------------------
(* A live search.                                                              *)

LEMMA SlicesTyped ==
  ASSUME NEW line \in Lines
  PROVE  Slices(line) \in Seq(Lines)
<1> DEFINE n == (line.size + SearchChars - 1) \div SearchChars
           skipped(k) == (k - 1) * SearchChars
           size(k) == Least(SearchChars, line.size - skipped(k))
           Slice(k) == IF k = 1 THEN CutLine(line, size(k))
                       ELSE [kind |-> "prose", id |-> line.id, from |-> line.from + skipped(k), size |-> size(k)]
<1>1. SearchChars \in Nat \ {0} /\ line.size \in Nat /\ line.from \in Nat /\ line.id \in Nat
  BY WorldAssumption DEF Lines
<1>2. line.size + SearchChars - 1 \in Nat
  BY <1>1
<1>3. n \in Nat /\ n * SearchChars <= line.size + SearchChars - 1
  BY <1>1, <1>2, DivBound
<1>4. Slices(line) = [k \in 1..n |-> Slice(k)]
  BY DEF Slices
<1> HIDE DEF n
<1>5. ASSUME NEW k \in 1..n
      PROVE  Slice(k) \in Lines
  <2>1. k - 1 \in Nat /\ k \in Nat /\ k <= n
    BY <1>3
  <2>2. skipped(k) \in Nat
    BY <1>1, <2>1
  <2>3. k * SearchChars <= n * SearchChars
    BY <1>1, <1>3, <2>1
  <2>4. skipped(k) = k * SearchChars - SearchChars
    BY <1>1, <2>1
  <2>5. k * SearchChars \in Nat /\ n * SearchChars \in Nat
    BY <1>1, <1>3, <2>1
  <2>6. line.size - skipped(k) \in Nat
    BY <1>1, <1>3, <2>2, <2>3, <2>4, <2>5
  <2>7. size(k) \in Nat
    <3> HIDE DEF skipped
    <3> QED BY <1>1, <2>6 DEF Least
  <2>8. line.from + skipped(k) \in Nat
    <3> HIDE DEF skipped
    <3> QED BY <1>1, <2>2
  <2> HIDE DEF skipped, size
  <2>9. CutLine(line, size(k)) \in Lines
    BY <2>7, CutTyped
  <2>10. [kind |-> "prose", id |-> line.id, from |-> line.from + skipped(k), size |-> size(k)] \in Lines
    BY <1>1, <2>7, <2>8 DEF Lines, Kinds
  <2> QED BY <2>9, <2>10
<1> HIDE DEF Slice
<1> QED BY <1>3, <1>4, <1>5

LEMMA AddLineTyped ==
  ASSUME NEW pieces \in Seq(Texts), NEW line \in Lines
  PROVE  AddLine(pieces, line) \in Seq(Texts)
<1>1. <<line>> \in Texts
  BY DEF Texts
<1>2. CASE pieces # <<>> /\ Chars(Append(Last(pieces), line)) <= SearchChars
  <2> DEFINE n == Len(pieces)
             more == Append(pieces[n], line)
             h == [i \in 1..n |-> IF i = n THEN more ELSE pieces[i]]
  <2>1. n \in Nat /\ n \in 1..n /\ DOMAIN pieces = 1..n /\ \A i \in 1..n : pieces[i] \in Texts
    BY <1>2
  <2>2. more \in Texts
    BY <2>1 DEF Texts
  <2>3. AddLine(pieces, line) = [pieces EXCEPT ![n] = more]
    BY <1>2 DEF AddLine
  <2> HIDE DEF more
  <2>4. [pieces EXCEPT ![n] = more] = h
    BY <2>1
  <2>5. h \in [1..n -> Texts]
    BY <2>1, <2>2
  <2> HIDE DEF h
  <2> QED BY <2>1, <2>3, <2>4, <2>5
<1>3. CASE ~(pieces # <<>> /\ Chars(Append(Last(pieces), line)) <= SearchChars)
  BY <1>1, <1>3 DEF AddLine
<1> QED BY <1>2, <1>3

LEMMA SubchunksTyped ==
  ASSUME NEW text \in Texts
  PROVE  SearchSubchunks(text) \in Seq(Texts)
<1> DEFINE base == <<>>
           seq == FlattenSeq([i \in DOMAIN text |-> Slices(text[i])])
           n == Len(seq)
           D == Seq(Texts)
           st == [k \in 1..n |-> [s \in D |-> AddLine(s, seq[k])]]
           G == CHOOSE g : g = [s \in SUBSET (1..n) |->
                            IF s = {} THEN base ELSE AddLine(g[s \ {Max(s)}], seq[Max(s)])]
           end == FoldLeft(AddLine, base, seq)
<1>1. seq \in Seq(Lines)
  <2>1. \A i \in 1..Len(text) : Slices(text[i]) \in Seq(Lines)
    BY LineTyped, SlicesTyped
  <2>2. DOMAIN text = 1..Len(text) /\ Len(text) \in Nat
    BY DEF Texts
  <2>3. [i \in DOMAIN text |-> Slices(text[i])] \in Seq(Seq(Lines))
    BY <2>1, <2>2
  <2> QED BY <2>3, FlattenTyped
<1>2. base \in D
  OBVIOUS
<1> HIDE DEF seq, base, D
<1>3. DOMAIN seq = 1..n /\ n \in Nat /\ \A k \in 1..n : seq[k] \in Lines
  BY <1>1
<1>0. n \in Nat
  BY <1>3
<1> HIDE DEF n
<1>4. \A s \in D : \A k \in 1..n : AddLine(s, seq[k]) \in D
  BY <1>3, AddLineTyped DEF D
<1>5. st \in [1..n -> [D -> D]]
  BY <1>4
<1> HIDE DEF st
<1>6. G = [s \in SUBSET (1..n) |-> IF s = {} THEN base ELSE AddLine(G[s \ {Max(s)}], seq[Max(s)])]
  <2>1. PICK g : Folds(g, n, D, base, st)
    BY <1>0, <1>2, <1>5, FoldExists
  <2>2. ASSUME NEW s \in SUBSET (1..n), s # {}
        PROVE  st[Max(s)][g[s \ {Max(s)}]] = AddLine(g[s \ {Max(s)}], seq[Max(s)])
    <3>1. s \in SUBSET (0..n)
      OBVIOUS
    <3>2. Max(s) \in 1..n
      BY <1>0, <2>2, <3>1, GreatestOne
    <3>3. g[s \ {Max(s)}] \in D
      BY <2>1 DEF Folds
    <3> QED BY <3>2, <3>3 DEF st
  <2>3. g = [s \in SUBSET (1..n) |-> IF s = {} THEN base ELSE AddLine(g[s \ {Max(s)}], seq[Max(s)])]
    BY <2>1, <2>2 DEF Folds
  <2> QED BY <2>3
<1>7. end = G[1..n]
  BY <1>3 DEF FoldLeft, MapThenFoldSet
<1> HIDE DEF G
<1>8. G[{}] \in D
  <2>1. {} \in SUBSET (1..n)
    OBVIOUS
  <2> QED BY <1>2, <1>6, <2>1
<1>9. \A k \in 1..n : G[1..(k-1)] \in D => G[1..k] \in D
  <2>1. ASSUME NEW k \in 1..n, G[1..(k-1)] \in D
        PROVE  G[1..k] \in D
    <3>1. k \in Nat \ {0} /\ 1..k \in SUBSET (1..n)
      BY <1>0
    <3>2. Max(1..k) = k /\ (1..k) \ {k} = 1..(k-1) /\ 1..k # {}
      BY <3>1, MaxUpto
    <3>3. G[1..k] = AddLine(G[1..(k-1)], seq[k])
      BY <1>6, <3>1, <3>2
    <3> QED BY <1>4, <2>1, <3>3
  <2> QED BY <2>1
<1>10. end \in D
  <2>1. G[1..n] \in D
    BY <1>0, <1>8, <1>9, FoldStays
  <2> HIDE DEF end
  <2> QED BY <1>7, <2>1
<1>11. <<text>> \in D
  BY DEF D
<1>12. SearchSubchunks(text) = (IF Chars(text) <= SearchChars THEN <<text>> ELSE end)
  BY DEF SearchSubchunks, seq, base
<1> HIDE DEF end
<1> QED BY <1>10, <1>11, <1>12 DEF D

(* The rows of a search. *)
LEMMA ChunkRowTyped ==
  ASSUME NEW part \in Nat, NEW text \in Texts
  PROVE  ChunkRow(part, text) \in CitedRows
BY CharsIs DEF ChunkRow, Row, CitedRows

LEMMA SearchRowsTyped ==
  ASSUME stored \in Seq(RowTexts)
  PROVE  SearchRows \in Seq(CitedRows)
<1> DEFINE Part(p) == LET subchunks == SearchSubchunks(stored[p].text)
                      IN [k \in DOMAIN subchunks |-> ChunkRow(10 * p + k, subchunks[k])]
           pieces == [p \in DOMAIN stored |-> Part(p)]
<1>2. Len(stored) \in Nat /\ DOMAIN stored = 1..Len(stored)
      /\ \A p \in 1..Len(stored) : p \in Nat /\ stored[p].text \in Texts
  <2>1. \A x \in RowTexts : x.text \in Texts
    BY DEF RowTexts, SomeTexts
  <2> QED BY <2>1
<1>3. ASSUME NEW p \in 1..Len(stored)
      PROVE  Part(p) \in Seq(CitedRows)
  <2> DEFINE sub == SearchSubchunks(stored[p].text)
  <2>1. sub \in Seq(Texts)
    BY <1>2, SubchunksTyped
  <2>2. Part(p) = [k \in DOMAIN sub |-> ChunkRow(10 * p + k, sub[k])]
    OBVIOUS
  <2> HIDE DEF sub, Part
  <2>3. Len(sub) \in Nat /\ DOMAIN sub = 1..Len(sub) /\ \A k \in 1..Len(sub) : sub[k] \in Texts
    BY <2>1
  <2>4. \A k \in 1..Len(sub) : 10 * p + k \in Nat
    BY <2>3
  <2>5. \A k \in 1..Len(sub) : ChunkRow(10 * p + k, sub[k]) \in CitedRows
    BY <2>3, <2>4, ChunkRowTyped
  <2> QED BY <2>2, <2>3, <2>5
<1>4. SearchRows = IF live THEN FlattenSeq(pieces) ELSE [p \in DOMAIN stored |-> ChunkRow(p, stored[p].text)]
  BY DEF SearchRows
<1>5. pieces \in Seq(Seq(CitedRows))
  <2> HIDE DEF Part
  <2> QED BY <1>2, <1>3
<1>6. FlattenSeq(pieces) \in Seq(CitedRows)
  <2> HIDE DEF pieces
  <2> QED BY <1>5, FlattenTyped
<1>7. [p \in DOMAIN stored |-> ChunkRow(p, stored[p].text)] \in Seq(CitedRows)
  <2>1. \A p \in 1..Len(stored) : ChunkRow(p, stored[p].text) \in CitedRows
    BY <1>2, ChunkRowTyped
  <2> QED BY <1>2, <2>1
<1> HIDE DEF pieces
<1> QED BY <1>4, <1>6, <1>7

-------------------------------------------------------------------------------
(* What each tool answers.                                                     *)

LEMMA RecordTyped ==
  ASSUME NEW source \in Nat, NEW cite, NEW size \in Nat
  PROVE  Record(source, cite, size) \in RowsOfCite(cite) /\ Record(source, cite, size).size = size
<1>1. <<[kind |-> "prose", id |-> source, from |-> 0, size |-> size]>> \in Texts
  BY DEF Texts, Lines, Kinds
<1> QED BY <1>1 DEF Record, Row, RowsOfCite

(* Events that were dropped leave a list that fits.                            *)
LEMMA EventsFit ==
  ASSUME NEW S, \A x \in S : x.size \in Nat, NEW rows \in Seq(S)
  PROVE  /\ FitEvents(rows) \in Seq(S)
         /\ Listed(FitEvents(rows)) \in Nat
         /\ Len(FitEvents(rows)) > 1 => MinFrameChars + Listed(FitEvents(rows)) <= MaxEventChars
<1> DEFINE n == Len(rows)
           Of(k) == Listed(SubSeq(rows, 1, k))
           over == {k \in 2..n : MinFrameChars + Of(k) > MaxEventChars}
<1>1. n \in Nat
  OBVIOUS
<1>2. \A m \in 0..n : SubSeq(rows, 1, m) \in Seq(S) /\ Len(SubSeq(rows, 1, m)) = m /\ Of(m) \in Nat
  BY ListedStarts
<1>3. MinFrameChars \in Nat /\ MaxEventChars \in Nat
  BY WorldAssumption
<1>4. rows = SubSeq(rows, 1, n)
  OBVIOUS
<1>5. FitEvents(rows) = IF over = {} THEN rows ELSE SubSeq(rows, 1, Min(over) - 1)
  BY DEF FitEvents
<1>6. \E m \in 0..n : FitEvents(rows) = SubSeq(rows, 1, m) /\ m \notin over
  <2>1. CASE over = {}
    BY <1>1, <1>4, <1>5, <2>1
  <2>2. CASE over # {}
    <3>1. over \in SUBSET (0..n)
      BY <1>1
    <3> HIDE DEF over
    <3>2. Min(over) \in over /\ \A x \in over : Min(over) <= x
      BY <1>1, <2>2, <3>1, LeastOne
    <3>3. Min(over) \in 2..n
      BY <3>2 DEF over
    <3>4. Min(over) - 1 \in 0..n /\ Min(over) - 1 \notin over
      <4>1. ~(Min(over) <= Min(over) - 1)
        BY <3>3
      <4> QED BY <1>1, <3>2, <3>3, <4>1
    <3> QED BY <1>5, <2>2, <3>4
  <2> QED BY <2>1, <2>2
<1>7. PICK m \in 0..n : FitEvents(rows) = SubSeq(rows, 1, m) /\ m \notin over
  BY <1>6
<1>8. m > 1 => ~(MinFrameChars + Of(m) > MaxEventChars)
  BY <1>1, <1>7
<1> HIDE DEF over, n
<1> QED BY <1>2, <1>3, <1>7, <1>8

(* The form of what is found, and what it takes.                               *)
LEMMA FoundIs ==
  ASSUME NEW tool, NEW rows, NEW said, NEW from
  PROVE  /\ Found(tool, rows, said, from).tool = tool
         /\ Found(tool, rows, said, from).rows = rows
         /\ Found(tool, rows, said, from).said = said
         /\ Found(tool, rows, said, from).status = (IF rows = <<>> THEN "not_found" ELSE "ok")
         /\ Rendered(Found(tool, rows, said, from)) = FrameChars + said + Listed(rows)
BY DEF Found, Response, Rendered

(* The events of a company fit, or there is one of them.                       *)
LEMMA QueryEventsSound ==
  ASSUME WorldInv, NEW c, c.tool = "query_events", NEW from
  PROVE  Sound(QueryEvents(from), c)
<1> DEFINE n == Least(Limit, Len(events))
           all == [k \in 1..n |-> Record(200 + k, "labelled", events[k])]
           fit == IF live THEN all ELSE FitEvents(all)
           said == IF Len(fit) < Len(all) THEN NoteChars ELSE 0
           S == RowsOfCite("labelled")
<1>1. Len(events) \in Nat /\ Limit \in Nat /\ \A k \in 1..Len(events) : events[k] \in Nat
  BY WorldAssumption DEF WorldInv
<1>2. n \in Nat /\ n <= Len(events)
  BY <1>1 DEF Least
<1> HIDE DEF n
<1>3. ASSUME NEW k \in 1..n PROVE Record(200 + k, "labelled", events[k]) \in S
  BY <1>1, <1>2, RecordTyped
<1>4. all \in Seq(S) /\ \A x \in S : x.size \in Nat
  <2>1. \A x \in S : x.size \in Nat
    BY DEF RowsOfCite
  <2> HIDE DEF S
  <2> QED BY <1>2, <1>3, <2>1
<1> HIDE DEF all, S
<1>5. /\ FitEvents(all) \in Seq(S)
      /\ Listed(FitEvents(all)) \in Nat
      /\ Len(FitEvents(all)) > 1 => MinFrameChars + Listed(FitEvents(all)) <= MaxEventChars
  BY <1>4, EventsFit
<1>6. QueryEvents(from) = Found("query_events", fit, said, from)
  BY DEF QueryEvents, all, n
<1>7. fit \in Seq(S)
  BY <1>4, <1>5
<1>8. said \in 0..NoteChars /\ NoteChars \in Nat /\ FrameChars \in Nat /\ MinFrameChars \in Nat
      /\ MaxEventChars \in Nat /\ MaxResultChars \in Nat
  <2> HIDE DEF fit
  <2> QED BY WorldAssumption
<1>9. ASSUME ~live, Len(fit) # 1 PROVE FrameChars + said + Listed(fit) <= MaxResultChars
  <2>1. fit = FitEvents(all)
    BY <1>9
  <2>2. Len(fit) \in Nat /\ Listed(fit) \in Nat
    BY <1>5, <1>7, <2>1
  <2>5. Len(fit) > 1 \/ Len(fit) = 0
    BY <1>9, <2>2
  <2> HIDE DEF fit, said
  <2>3. CASE Len(fit) > 1
    <3>1. MinFrameChars + Listed(fit) <= MaxEventChars
      BY <1>5, <2>1, <2>3
    <3> QED BY <1>8, <2>2, <3>1, SizesAssumption
  <2>4. CASE Len(fit) = 0
    <3>1. fit = <<>>
      BY <1>7, <2>4
    <3>2. Record(0, "labelled", 0) \in RowsOfCite("labelled")
      BY RecordTyped
    <3>3. Listed(fit) = 0
      BY <1>4, <1>7, <3>1, <3>2, ListedOne DEF S
    <3>4. FrameChars + NoteChars <= MaxResultChars
      <4>1. 1 \in 1..MaxParts
        <5>1. MaxChars \in Nat /\ MaxChunkChars + 1 \in Nat \ {0}
          BY WorldAssumption, ChunkAssumption
        <5>2. MaxChars \div (MaxChunkChars + 1) \in Nat
          BY <5>1, DivBound
        <5> QED BY <5>2 DEF MaxParts
      <4>2. FrameChars + NoteChars + 2 * (MaxChars + 1 - 1) + 2 * CitationChars * 1 <= MaxResultChars
        BY <4>1, SizesAssumption
      <4> QED BY <1>8, <4>2, WorldAssumption
    <3> QED BY <1>8, <3>3, <3>4
  <2> QED BY <2>3, <2>4, <2>5
<1> HIDE DEF fit, said
<1>10. QueryEvents(from).rows = fit /\ QueryEvents(from).said = said /\ QueryEvents(from).tool = "query_events"
       /\ Rendered(QueryEvents(from)) = FrameChars + said + Listed(fit)
  BY <1>6, FoundIs
<1> QED BY <1>7, <1>8, <1>9, <1>10 DEF Sound, Structured, S

(* A page fits, however many parts it has, where the path occurs once          *)
(* (tool_registry.py:259).                                                     *)
LEMMA ReadPageSound ==
  ASSUME WorldInv, NEW c, c.tool = "read_section", c.partFrom \in Nat \ {0}, NEW from
  PROVE  ReadPage(c.partFrom, from).status = "ok" => Sound(ReadPage(c.partFrom, from), c)
<1> DEFINE rows == PageRows(Page(c.partFrom))
           said == IF Page(c.partFrom).truncated THEN NoteChars ELSE 0
           r == ReadPage(c.partFrom, from)
<1>1. stored \in Seq(RowTexts) /\ MaxChars \in Nat \ {0} /\ c.partFrom \in Nat
  BY WorldAssumption, RowsHold DEF WorldInv
<1>2. rows \in Seq(RowsOfCite("labelled")) /\ Listed(rows) \in Nat
  BY <1>1, PageRowsTyped DEF Page, RowsOfCite
<1>7. ASSUME Once
      PROVE  rows # <<>> =>
               \E m \in Nat \ {0} : \E a \in Nat :
                 /\ m <= 2 * a + 2 /\ a * PairChars <= MaxChars
                 /\ Listed(rows) <= 2 * (MaxChars + 1 - m) + 2 * CitationChars * m
  <2>1. PICK chunks \in Grouped : stored = Numbered(chunks)
    BY <1>7, RowsHold DEF Once, WorldInv
  <2>2. rows = PageRows(ReadSection(Numbered(chunks), c.partFrom, MaxChars))
    BY <2>1 DEF Page
  <2> HIDE DEF rows
  <2> QED BY <1>1, <2>2, PageFits
<1>3. r = Found("read_section", rows, said, from)
  BY DEF ReadPage
<1>4. said \in 0..NoteChars /\ NoteChars \in Nat /\ FrameChars \in Nat /\ MaxResultChars \in Nat
      /\ MaxChars \in Nat \ {0} /\ CitationChars \in Nat
  BY WorldAssumption
<1> HIDE DEF rows, said, r
<1>5. r.rows = rows /\ r.said = said /\ r.tool = "read_section"
      /\ Rendered(r) = FrameChars + said + Listed(rows) /\ r.status = (IF rows = <<>> THEN "not_found" ELSE "ok")
  BY <1>3, FoundIs
<1>6. ASSUME rows # <<>>, Once PROVE FrameChars + said + Listed(rows) <= MaxResultChars
  <2>1. PICK m \in Nat \ {0} : \E a \in Nat :
             /\ m <= 2 * a + 2 /\ a * PairChars <= MaxChars
             /\ Listed(rows) <= 2 * (MaxChars + 1 - m) + 2 * CitationChars * m
    BY <1>6, <1>7
  <2>2. PICK a \in Nat :
             /\ m <= 2 * a + 2 /\ a * PairChars <= MaxChars
             /\ Listed(rows) <= 2 * (MaxChars + 1 - m) + 2 * CitationChars * m
    BY <2>1
  <2>3. a <= MaxChars \div PairChars
    <3>1. PairChars \in Nat \ {0}
      BY ChunkAssumption DEF PairChars
    <3> QED BY <1>4, <2>2, <3>1, DivLeast
  <2>4. m \in 1..MaxParts
    <3>1. MaxChars \div PairChars \in Nat
      BY <1>4, DivBound, ChunkAssumption DEF PairChars
    <3>2. MaxParts = 2 * (MaxChars \div PairChars) + 2
      BY DEF MaxParts, PairChars
    <3> QED BY <2>2, <2>3, <3>1, <3>2
  <2>5. FrameChars + NoteChars + 2 * (MaxChars + 1 - m) + 2 * CitationChars * m <= MaxResultChars
    BY <2>4, SizesAssumption
  <2> DEFINE CM == 2 * CitationChars * m
             L == Listed(rows)
  <2>6. CM \in Nat /\ L \in Nat /\ L <= 2 * (MaxChars + 1 - m) + CM
        /\ FrameChars + NoteChars + 2 * (MaxChars + 1 - m) + CM <= MaxResultChars
    BY <1>2, <1>4, <2>2, <2>5
  <2> HIDE DEF CM, L
  <2>7. FrameChars + said + L <= MaxResultChars
    BY <1>4, <2>6
  <2> QED BY <2>7 DEF L
<1> QED BY <1>2, <1>4, <1>5, <1>6 DEF Sound, Structured, r

(* The listings, the search, and every tool.                                   *)
LEMMA ListSound ==
  ASSUME WorldInv, NEW c, c.tool \in {"list_filings", "get_history", "list_sections"}, NEW from
  PROVE  LET r == IF c.tool = "list_filings" THEN ListFilings(from)
                  ELSE IF c.tool = "get_history" THEN GetHistory(from) ELSE ListSections(from)
         IN Sound(r, c) /\ IsResponse(r)
<1>1. filings \in Nat /\ Limit \in Nat /\ FilingChars \in Nat /\ NoteChars \in Nat
  BY WorldAssumption DEF WorldInv
<1>2. ASSUME NEW n \in Nat, NEW m \in Nat
      PROVE  [k \in 1..n |-> Record(m + k, "unlabelled", FilingChars)] \in Seq(RowsOfCite("unlabelled"))
  BY <1>1, RecordTyped
<1>3. CASE c.tool = "list_filings"
  <2>1. Least(Limit, filings) \in Nat
    BY <1>1 DEF Least
  <2>2. [k \in 1..Least(Limit, filings) |-> Record(300 + k, "unlabelled", FilingChars)]
           \in Seq(RowsOfCite("unlabelled"))
    BY <1>2, <2>1
  <2>3. ListFilings(from).rows = [k \in 1..Least(Limit, filings) |-> Record(300 + k, "unlabelled", FilingChars)]
        /\ ListFilings(from).tool = "list_filings" /\ ListFilings(from).said = 0
    BY FoundIs DEF ListFilings
  <2>4. IsResponse(ListFilings(from))
    BY DEF ListFilings, Found, Response, IsResponse
  <2> QED BY <1>1, <1>3, <2>2, <2>3, <2>4 DEF Sound, Structured
<1>4. CASE c.tool = "get_history"
  <2>2. [k \in 1..filings |-> Record(400 + k, "unlabelled", FilingChars)]
           \in Seq(RowsOfCite("unlabelled"))
    BY <1>1, <1>2
  <2>3. GetHistory(from).rows = [k \in 1..filings |-> Record(400 + k, "unlabelled", FilingChars)]
        /\ GetHistory(from).tool = "get_history" /\ GetHistory(from).said = 0
    BY FoundIs DEF GetHistory
  <2>4. IsResponse(GetHistory(from))
    BY DEF GetHistory, Found, Response, IsResponse
  <2> QED BY <1>1, <1>4, <2>2, <2>3, <2>4 DEF Sound, Structured
<1>5. CASE c.tool = "list_sections"
  <2>2. <<Record(500, "labelled", 1)>> \in Seq(RowsOfCite("labelled"))
    BY RecordTyped
  <2>3. ListSections(from).rows = <<Record(500, "labelled", 1)>>
        /\ ListSections(from).tool = "list_sections" /\ ListSections(from).said = 0
    BY FoundIs DEF ListSections
  <2>4. IsResponse(ListSections(from))
    BY DEF ListSections, Found, Response, IsResponse
  <2> DEFINE r == ListSections(from)
  <2>5. r.tool = c.tool /\ r.said \in 0..NoteChars /\ r.rows \in Seq(RowsOfCite("labelled"))
    BY <1>1, <1>5, <2>2, <2>3
  <2>6. c.tool \notin Structured /\ c.tool # "read_section" /\ c.tool # "query_events"
        /\ c.tool # "list_filings" /\ c.tool # "get_history"
    BY <1>5 DEF Structured
  <2> HIDE DEF r
  <2>7. Sound(r, c)
    BY <2>5, <2>6 DEF Sound
  <2> QED BY <2>4, <2>6, <2>7 DEF r
<1> QED BY <1>3, <1>4, <1>5

LEMMA SearchSound ==
  ASSUME WorldInv, NEW c, c.tool = "search_chunks", NEW b
  PROVE  /\ SearchChunks(b).status = "ok" => Sound(SearchChunks(b), c)
         /\ IsResponse(SearchChunks(b))
<1> DEFINE from == {b["pipeline_release"], b["retrieval_release"]}
           n == Least(Limit, Len(SearchRows))
           rows == SubSeq(SearchRows, 1, n)
           said == IF ~live /\ Limit < Len(SearchRows) THEN NoteChars ELSE 0
<1>0. stored \in Seq(RowTexts)
  BY RowsHold DEF WorldInv
<1>1. SearchRows \in Seq(RowsOfCite("labelled"))
  BY <1>0, SearchRowsTyped DEF CitedRows, RowsOfCite
<1>2. Limit \in Nat /\ NoteChars \in Nat
  BY WorldAssumption
<1>3. Len(SearchRows) \in Nat
  BY <1>1
<1>4. n \in 0..Len(SearchRows)
  BY <1>2, <1>3 DEF Least
<1> HIDE DEF n
<1>5. rows \in Seq(RowsOfCite("labelled"))
  BY <1>1, <1>4
<1>6. CASE ~live /\ Cardinality(from) > 1
  <2>1. SearchChunks(b) = Response("search_chunks", "error", <<>>, NoteChars, from)
    BY <1>6 DEF SearchChunks
  <2> QED BY <2>1 DEF Response, IsResponse
<1>7. CASE ~(~live /\ Cardinality(from) > 1)
  <2>1. SearchChunks(b) = Found("search_chunks", rows, said, from)
    BY <1>7 DEF SearchChunks, n
  <2> HIDE DEF rows, from
  <2>2. said \in 0..NoteChars
    BY <1>2
  <2> HIDE DEF said
  <2>3. SearchChunks(b).rows = rows /\ SearchChunks(b).tool = "search_chunks" /\ SearchChunks(b).said = said
    BY <2>1, FoundIs
  <2>4. IsResponse(SearchChunks(b))
    BY <2>1 DEF Found, Response, IsResponse
  <2> QED BY <1>5, <2>2, <2>3, <2>4 DEF Sound, Structured
<1> QED BY <1>6, <1>7

LEMMA RespondSound ==
  ASSUME WorldInv, NEW c, c.tool \in ToolsModelled, c.partFrom \in Nat \ {0}, NEW b
  PROVE  /\ Respond(c, b).status = "ok" => Sound(Respond(c, b), c)
         /\ IsResponse(Respond(c, b))
<1> DEFINE from == {b["db_path"]}
<1>1. c.tool \in {"resolve_company", "query_events", "list_filings", "list_sections",
                  "read_section", "search_chunks", "get_history"}
  BY DEF ToolsModelled, ToolNames
<1>2. CASE c.tool = "resolve_company"
  <2> DEFINE found == Matches(c.company)
             rows == [k \in 1..Cardinality(found) |-> Record(k, "none", 1)]
             r == Respond(c, b)
  <2>1. r = ResolveCompany(c.company)
    BY <1>2 DEF Respond
  <2>2. \/ r = Response("resolve_company", "not_found", <<>>, NoteChars, {})
        \/ r = Response("resolve_company", "ambiguous", rows, NoteChars, {})
        \/ r = Response("resolve_company", "ok", rows, 0, {})
    BY <2>1 DEF ResolveCompany
  <2> HIDE DEF r, rows
  <2>3. r.tool = "resolve_company" /\ r.said \in {0, NoteChars} /\ IsResponse(r)
    BY <2>2 DEF Response, IsResponse
  <2>4. NoteChars \in Nat
    BY WorldAssumption
  <2>5. r.said \in 0..NoteChars
    BY <2>3, <2>4
  <2> QED BY <1>2, <2>3, <2>5 DEF Sound, Structured, r
<1>3. CASE c.tool = "query_events"
  <2>1. Respond(c, b) = QueryEvents(from)
    BY <1>3 DEF Respond
  <2>2. IsResponse(QueryEvents(from))
    BY DEF QueryEvents, Found, Response, IsResponse
  <2> HIDE DEF from
  <2> QED BY <1>3, <2>1, <2>2, QueryEventsSound
<1>4. CASE c.tool = "read_section"
  <2>1. Respond(c, b) = ReadPage(c.partFrom, from)
    BY <1>4 DEF Respond
  <2>2. IsResponse(ReadPage(c.partFrom, from))
    BY DEF ReadPage, Found, Response, IsResponse
  <2> HIDE DEF from
  <2> QED BY <1>4, <2>1, <2>2, ReadPageSound
<1>5. CASE c.tool = "search_chunks"
  <2>1. Respond(c, b) = SearchChunks(b)
    BY <1>5 DEF Respond
  <2> QED BY <1>5, <2>1, SearchSound
<1>6. CASE c.tool \in {"list_filings", "get_history", "list_sections"}
  <2>1. Respond(c, b) = IF c.tool = "list_filings" THEN ListFilings(from)
                        ELSE IF c.tool = "get_history" THEN GetHistory(from) ELSE ListSections(from)
    BY <1>6 DEF Respond
  <2> HIDE DEF from
  <2> QED BY <1>6, <2>1, ListSound
<1> QED BY <1>1, <1>2, <1>3, <1>4, <1>5, <1>6

LEMMA RenderedTyped ==
  ASSUME NEW r, r.rows \in Seq(RowsOfCite("labelled")), r.said \in 0..NoteChars
  PROVE  Rendered(r) \in Nat
<1>1. \A x \in RowsOfCite("labelled") : x.size \in Nat
  BY DEF RowsOfCite
<1>2. Record(0, "labelled", 0) \in RowsOfCite("labelled")
  BY RecordTyped
<1>3. Listed(r.rows) \in Nat
  BY <1>1, <1>2, ListedOne
<1> QED BY <1>3, WorldAssumption DEF Rendered

(* What the normalisation makes of an answer that found something.             *)
LEMMA NormalizedOk ==
  ASSUME NEW c, c.tool \in ToolsModelled, NEW raw, IsResponse(raw), raw.status = "ok", Sound(raw, c),
         NEW l, raw.from \subseteq {l}
  PROVE  /\ Normalize(raw).evidence \in Seq(ItemsOf(l))
         /\ \/ Normalize(raw).status = "ok"
            \/ /\ Normalize(raw).code = "result_too_large"
               /\ c.tool = "read_section" => ~Once
               /\ c.tool = "query_events" /\ ~live => Len(raw.rows) = 1
<1> DEFINE can == Canonical(raw)
           grounded == c.tool \in GroundedTools
<1>1. c.tool \in {"resolve_company", "query_events", "list_filings", "list_sections",
                  "read_section", "search_chunks", "get_history"}
  BY DEF ToolsModelled, ToolNames
<1>2. grounded => c.tool # "resolve_company"
  BY DEF GroundedTools
<1>3. can = [tool |-> raw.tool, status |-> "ok", code |-> raw.code,
             rows |-> [k \in DOMAIN raw.rows |-> Labelled(raw.rows[k], raw.tool)],
             said |-> raw.said, from |-> raw.from]
  BY DEF Canonical, IsResponse
<1>4. raw.tool = c.tool
  BY DEF Sound
<1>5. ASSUME grounded
      PROVE  can.rows \in Seq(RowsOfCite("labelled"))
  <2>1. CASE c.tool \in Structured
    <3>1. raw.rows \in Seq(RowsOfCite("unlabelled"))
      BY <2>1 DEF Sound
    <3>2. ASSUME NEW row \in RowsOfCite("unlabelled")
          PROVE  Labelled(row, raw.tool) \in RowsOfCite("labelled")
      BY <1>4, <2>1 DEF Labelled, RowsOfCite
    <3>3. [k \in DOMAIN raw.rows |-> Labelled(raw.rows[k], raw.tool)] \in Seq(RowsOfCite("labelled"))
      BY <3>1, <3>2
    <3> QED BY <1>3, <3>3
  <2>2. CASE c.tool \notin Structured
    <3>1. raw.rows \in Seq(RowsOfCite("labelled"))
      BY <1>1, <1>2, <1>5, <2>2 DEF Sound, Structured
    <3>2. \A row : Labelled(row, raw.tool) = row
      BY <1>4, <2>2 DEF Labelled
    <3>3. [k \in DOMAIN raw.rows |-> Labelled(raw.rows[k], raw.tool)] = raw.rows
      BY <3>1, <3>2
    <3> QED BY <1>3, <3>1, <3>3
  <2> QED BY <2>1, <2>2
<1> HIDE DEF can
<1>6. can.tool = c.tool /\ can.status = "ok" /\ can.from = raw.from
  BY <1>3, <1>4
<1>7. Embedded(can) /\ CanBeEvidence(can)
  <2>1. CASE grounded
    <3>1. \A k \in DOMAIN can.rows : can.rows[k] \in RowsOfCite("labelled")
      BY <1>5, <2>1
    <3>2. \A k \in DOMAIN can.rows : can.rows[k].cite = "labelled"
      BY <3>1 DEF RowsOfCite
    <3> QED BY <3>2 DEF Embedded, CanBeEvidence
  <2>2. CASE ~grounded
    BY <1>6, <2>2 DEF Embedded, CanBeEvidence
  <2> QED BY <2>1, <2>2
<1>8. Evidence(can) \in Seq(ItemsOf(l))
  <2>1. CASE grounded
    <3> DEFINE Item(k) == [source |-> can.rows[k].source, text |-> can.rows[k].text,
                           priority |-> 1, rank |-> k, from |-> can.from]
    <3>1. Evidence(can) = [k \in DOMAIN can.rows |-> Item(k)]
      BY <1>6, <2>1 DEF Evidence
    <3>2. Len(can.rows) \in Nat /\ DOMAIN can.rows = 1..Len(can.rows)
          /\ \A k \in 1..Len(can.rows) : can.rows[k] \in RowsOfCite("labelled")
      BY <1>5, <2>1
    <3>3. ASSUME NEW k \in 1..Len(can.rows) PROVE Item(k) \in ItemsOf(l)
      <4>1. can.rows[k].source \in Nat /\ can.rows[k].text \in Texts
        BY <3>2 DEF RowsOfCite
      <4>2. can.from \in SUBSET {l} /\ k \in Nat
        BY <1>6, <3>2
      <4> QED BY <4>1, <4>2 DEF ItemsOf
    <3> HIDE DEF Item
    <3> QED BY <3>1, <3>2, <3>3
  <2>2. CASE ~grounded
    <3>1. Evidence(can) = <<>>
      BY <1>6, <2>2 DEF Evidence
    <3> QED BY <3>1
  <2> QED BY <2>1, <2>2
<1>9. Normalize(raw) = IF Rendered(can) > MaxResultChars THEN Error("result_too_large")
                       ELSE [status |-> "ok", code |-> "none", rows |-> can.rows, evidence |-> Evidence(can)]
  BY <1>7 DEF Normalize, can
<1>10. CASE Rendered(can) > MaxResultChars
  <2>1. Normalize(raw).evidence = <<>> /\ Normalize(raw).code = "result_too_large"
    BY <1>9, <1>10 DEF Error
  <2>2. ASSUME c.tool \in {"read_section", "query_events"}
        PROVE  Rendered(can) = Rendered(raw)
    <3>1. raw.rows \in Seq(RowsOfCite("labelled"))
      BY <2>2 DEF Sound
    <3>2. \A row : Labelled(row, raw.tool) = row
      BY <1>4, <2>2 DEF Labelled, Structured
    <3>3. [k \in DOMAIN raw.rows |-> Labelled(raw.rows[k], raw.tool)] = raw.rows
      BY <3>1, <3>2
    <3> QED BY <1>3, <3>3 DEF Rendered
  <2>3. ASSUME c.tool = "read_section" PROVE ~Once
    <3> SUFFICES ASSUME Once PROVE FALSE
      OBVIOUS
    <3>1. Rendered(raw) <= MaxResultChars /\ Rendered(raw) > MaxResultChars
      BY <1>10, <2>2, <2>3 DEF Sound
    <3>2. raw.rows \in Seq(RowsOfCite("labelled")) /\ raw.said \in 0..NoteChars
      BY <2>3 DEF Sound
    <3>3. Rendered(raw) \in Nat
      BY <3>2, RenderedTyped
    <3> QED BY <3>1, <3>3, WorldAssumption
  <2>4. ASSUME c.tool = "query_events", ~live PROVE Len(raw.rows) = 1
    <3> SUFFICES ASSUME Len(raw.rows) # 1 PROVE FALSE
      OBVIOUS
    <3>1. Rendered(raw) <= MaxResultChars /\ Rendered(raw) > MaxResultChars
      BY <1>10, <2>2, <2>4 DEF Sound
    <3>2. raw.rows \in Seq(RowsOfCite("labelled")) /\ raw.said \in 0..NoteChars
      BY <2>4 DEF Sound
    <3>3. Rendered(raw) \in Nat
      BY <3>2, RenderedTyped
    <3> QED BY <3>1, <3>3, WorldAssumption
  <2>5. <<>> \in Seq(ItemsOf(l))
    OBVIOUS
  <2> QED BY <2>1, <2>3, <2>4, <2>5
<1>11. CASE ~(Rendered(can) > MaxResultChars)
  <2>1. Normalize(raw).status = "ok" /\ Normalize(raw).evidence = Evidence(can)
    BY <1>9, <1>11
  <2> QED BY <1>8, <2>1
<1> QED BY <1>10, <1>11

(* What found nothing is no evidence.                                          *)
LEMMA NormalizedNot ==
  ASSUME NEW raw, IsResponse(raw), raw.status # "ok"
  PROVE  Normalize(raw).evidence = <<>>
<1>1. Canonical(raw) = raw
  BY DEF Canonical
<1>2. Evidence(raw) = <<>>
  BY DEF Evidence
<1> QED BY <1>1, <1>2 DEF Normalize, Error

-------------------------------------------------------------------------------
(* What is collected and put together.                                         *)

(* What is not a part of the section stays as it is.                           *)
LEMMA OtherTyped ==
  ASSUME NEW S, evidence \in Seq(S)
  PROVE  OtherEvidence \in Seq(S)
<1> DEFINE base == <<>>
           n == Len(evidence)
           D == Seq(S)
           Kept(kept, item) == IF IsPart(item) THEN kept ELSE Append(kept, item)
           st == [k \in 1..n |-> [s \in D |-> Kept(s, evidence[k])]]
           G == CHOOSE g : g = [s \in SUBSET (1..n) |->
                            IF s = {} THEN base ELSE Kept(g[s \ {Max(s)}], evidence[Max(s)])]
           end == FoldLeft(LAMBDA kept, item : IF IsPart(item) THEN kept ELSE Append(kept, item),
                           base, evidence)
<1>2. base \in D
  OBVIOUS
<1>3. DOMAIN evidence = 1..n /\ n \in Nat /\ \A k \in 1..n : evidence[k] \in S
  OBVIOUS
<1>0. n \in Nat
  BY <1>3
<1> HIDE DEF n, base
<1>4. \A s \in D : \A k \in 1..n : Kept(s, evidence[k]) \in D
  <2>1. \A s \in D : \A k \in 1..n : Append(s, evidence[k]) \in D
    BY <1>3
  <2> HIDE DEF D
  <2> QED BY <2>1
<1> HIDE DEF D
<1>5. st \in [1..n -> [D -> D]]
  <2> HIDE DEF Kept
  <2> QED BY <1>4
<1> HIDE DEF st
<1>6. G = [s \in SUBSET (1..n) |-> IF s = {} THEN base ELSE Kept(G[s \ {Max(s)}], evidence[Max(s)])]
  <2> HIDE DEF Kept
  <2>1. PICK g : Folds(g, n, D, base, st)
    BY <1>0, <1>2, <1>5, FoldExists
  <2>2. ASSUME NEW s \in SUBSET (1..n), s # {}
        PROVE  st[Max(s)][g[s \ {Max(s)}]] = Kept(g[s \ {Max(s)}], evidence[Max(s)])
    <3>1. s \in SUBSET (0..n)
      OBVIOUS
    <3>2. Max(s) \in 1..n
      BY <1>0, <2>2, <3>1, GreatestOne
    <3>3. g[s \ {Max(s)}] \in D
      BY <2>1 DEF Folds
    <3> QED BY <3>2, <3>3 DEF st
  <2>3. g = [s \in SUBSET (1..n) |-> IF s = {} THEN base ELSE Kept(g[s \ {Max(s)}], evidence[Max(s)])]
    BY <2>1, <2>2 DEF Folds
  <2> QED BY <2>3
<1>7. end = G[1..n]
  BY <1>3 DEF FoldLeft, MapThenFoldSet
<1> HIDE DEF G, Kept
<1>8. G[{}] \in D
  <2>1. {} \in SUBSET (1..n)
    OBVIOUS
  <2> QED BY <1>2, <1>6, <2>1
<1>9. \A k \in 1..n : G[1..(k-1)] \in D => G[1..k] \in D
  <2>1. ASSUME NEW k \in 1..n, G[1..(k-1)] \in D
        PROVE  G[1..k] \in D
    <3>1. k \in Nat \ {0} /\ 1..k \in SUBSET (1..n)
      BY <1>0
    <3>2. Max(1..k) = k /\ (1..k) \ {k} = 1..(k-1) /\ 1..k # {}
      BY <3>1, MaxUpto
    <3>3. G[1..k] = Kept(G[1..(k-1)], evidence[k])
      BY <1>6, <3>1, <3>2
    <3> QED BY <1>4, <2>1, <3>3
  <2> QED BY <2>1
<1>10. end \in D
  <2>1. G[1..n] \in D
    BY <1>0, <1>8, <1>9, FoldStays
  <2> HIDE DEF end
  <2> QED BY <1>7, <2>1
<1>11. OtherEvidence = end
  BY DEF OtherEvidence, base
<1> HIDE DEF end
<1> QED BY <1>10, <1>11 DEF D

LEMMA PageTyped ==
  ASSUME WorldInv, NEW from \in Nat \ {0}
  PROVE  Page(from) \in PageRecords
<1> DEFINE parts == PartsFrom(stored, from, MaxChars)
           whole == {parts[i].source : i \in {j \in DOMAIN parts : parts[j].text = stored[parts[j].source].text}}
           left == {k \in DOMAIN stored : stored[k].part >= from /\ k \notin whole}
           next == IF left = {} THEN 0 ELSE stored[Min(left)].part
<1>1. stored \in Seq(RowTexts) /\ MaxChars \in Nat \ {0} /\ from \in Nat
  BY WorldAssumption, RowsHold DEF WorldInv
<1>2. parts \in Seq(PartTexts)
  BY <1>1, PageRowsTyped
<1>3. Page(from) = [parts |-> parts, truncated |-> left # {}, nextPart |-> next]
  BY DEF Page, ReadSection, PageOf
<1> HIDE DEF parts
<1>4. next \in Nat
  <2>1. left \in SUBSET (0..Len(stored)) /\ Len(stored) \in Nat
    BY <1>1
  <2>2. \A k \in left : k \in 1..Len(stored)
    BY <1>1
  <2> HIDE DEF left
  <2>3. CASE left = {}
    BY <2>3
  <2>4. CASE left # {}
    <3>1. Min(left) \in left
      BY <2>1, <2>4, LeastOne
    <3>2. stored[Min(left)] \in RowTexts
      BY <1>1, <2>2, <3>1
    <3> QED BY <2>4, <3>2 DEF RowTexts
  <2> QED BY <2>3, <2>4
<1> HIDE DEF next, left
<1> QED BY <1>2, <1>3, <1>4 DEF PageRecords

(* The parts that two pages hold together.                                     *)
LEMMA JoinTyped ==
  ASSUME NEW first \in PageRecords, NEW second \in PageRecords
  PROVE  JoinPages(first, second) \in Seq(PartTexts)
<1> DEFINE n == Len(first.parts)
<1>2. first.nextPart \in Nat /\ n \in Nat /\ first.parts \in Seq(PartTexts) /\ second.parts \in Seq(PartTexts)
  BY DEF PageRecords
<1>3. CASE JoinPages(first, second) = <<>>
  BY <1>3
<1>4. CASE JoinPages(first, second) # <<>>
  <2>1. first.nextPart \in {n, n + 1} /\ first.parts # <<>>
        /\ JoinPages(first, second) = SubSeq(first.parts, 1, first.nextPart - 1) \o second.parts
    BY <1>4 DEF JoinPages
  <2>2. n # 0
    BY <1>2, <2>1
  <2>3. first.nextPart - 1 \in 0..n
    BY <1>2, <2>1, <2>2
  <2>5. SubSeq(first.parts, 1, first.nextPart - 1) \in Seq(PartTexts)
    BY <1>2, <2>3
  <2> QED BY <1>2, <2>1, <2>5
<1> QED BY <1>3, <1>4

LEMMA JoinedTyped ==
  ASSUME WorldInv, PagesWereRead
  PROVE  JoinedPages \in Seq(PartTexts)
<1>1. CASE JoinedPages = <<>>
  BY <1>1
<1>2. CASE JoinedPages # <<>>
  <2> DEFINE p == CHOOSE p \in pages : p[1] = 1
             q == CHOOSE q \in pages : q[1] = p[2].nextPart
  <2>1. JoinedPages = JoinPages(p[2], q[2])
    BY <1>2 DEF JoinedPages
  <2>2. PICK first \in pages, second \in pages : first[1] = 1 /\ second[1] = first[2].nextPart
    BY <1>2 DEF JoinedPages
  <2>3. \A x \in pages : x[1] \in Nat \ {0} /\ x = <<x[1], Page(x[1])>>
    BY DEF PagesWereRead
  <2>4. p \in pages /\ p[1] = 1
    BY <2>2
  <2> HIDE DEF p
  <2>5. p = first
    BY <2>2, <2>3, <2>4
  <2>6. q \in pages
    BY <2>2, <2>5
  <2> HIDE DEF q
  <2>7. p[2] \in PageRecords /\ q[2] \in PageRecords
    <3>1. ASSUME NEW x \in pages PROVE x[2] \in PageRecords
      <4>1. x[1] \in Nat \ {0} /\ x[2] = Page(x[1])
        BY <2>3
      <4> QED BY <4>1, PageTyped
    <3> QED BY <2>4, <2>6, <3>1
  <2> QED BY <2>1, <2>7, JoinTyped
<1> QED BY <1>1, <1>2

-------------------------------------------------------------------------------
(* What the tools and the normalisation say of where an answer is from.        *)

LEMMA MadeFrom ==
  ASSUME NEW tool, NEW status, NEW rows, NEW said, NEW from
  PROVE  /\ "from" \in DOMAIN Response(tool, status, rows, said, from)
         /\ Response(tool, status, rows, said, from).from = from
         /\ "from" \in DOMAIN Found(tool, rows, said, from)
         /\ Found(tool, rows, said, from).from = from
BY DEF Response, Found

(* A tool reads the release behind its path, the search the index's as well.   *)
LEMMA RespondedFrom ==
  ASSUME NEW c, c.tool \in ToolsModelled, bound \in [BoundPaths -> Releases]
  PROVE  /\ "from" \in DOMAIN Respond(c, bound)
         /\ Intact => Respond(c, bound).from \subseteq {lineage}
<1>1. c.tool \in {"resolve_company", "query_events", "list_filings", "list_sections",
                  "read_section", "search_chunks", "get_history"}
  BY DEF ToolsModelled, ToolNames
<1>2. Intact => /\ bound["db_path"] = lineage /\ bound["pipeline_release"] = lineage
                /\ bound["retrieval_release"] = lineage
  BY DEF Intact, BoundPaths
<1>3. CASE c.tool = "resolve_company"
  BY <1>3, MadeFrom DEF Respond, ResolveCompany
<1>4. CASE c.tool = "search_chunks"
  <2>1. Respond(c, bound) = SearchChunks(bound)
    BY <1>4 DEF Respond
  <2>2. "from" \in DOMAIN SearchChunks(bound)
        /\ SearchChunks(bound).from = {bound["pipeline_release"], bound["retrieval_release"]}
    BY MadeFrom DEF SearchChunks
  <2> QED BY <2>1, <2>2, <1>2
<1>5. CASE c.tool \in {"query_events", "list_filings", "list_sections", "read_section", "get_history"}
  <2>1. Respond(c, bound) \in
          {QueryEvents({bound["db_path"]}), ListFilings({bound["db_path"]}),
           ListSections({bound["db_path"]}), GetHistory({bound["db_path"]}),
           ReadPage(c.partFrom, {bound["db_path"]})}
    BY <1>5 DEF Respond
  <2>2. ASSUME NEW from PROVE "from" \in DOMAIN QueryEvents(from) /\ QueryEvents(from).from = from
    BY MadeFrom DEF QueryEvents
  <2>3. ASSUME NEW from PROVE "from" \in DOMAIN ListFilings(from) /\ ListFilings(from).from = from
    BY MadeFrom DEF ListFilings
  <2>4. ASSUME NEW from PROVE "from" \in DOMAIN ListSections(from) /\ ListSections(from).from = from
    BY MadeFrom DEF ListSections
  <2>5. ASSUME NEW from PROVE "from" \in DOMAIN GetHistory(from) /\ GetHistory(from).from = from
    BY MadeFrom DEF GetHistory
  <2>6. ASSUME NEW n, NEW from
        PROVE  "from" \in DOMAIN ReadPage(n, from) /\ ReadPage(n, from).from = from
    BY MadeFrom DEF ReadPage
  <2>7. "from" \in DOMAIN Respond(c, bound) /\ Respond(c, bound).from = {bound["db_path"]}
    BY <2>1, <2>2, <2>3, <2>4, <2>5, <2>6
  <2> QED BY <2>7, <1>2
<1> QED BY <1>1, <1>3, <1>4, <1>5

LEMMA FailedFrom ==
  ASSUME NEW c
  PROVE  "from" \in DOMAIN Failure(c) /\ Failure(c).from = {}
BY DEF Failure, Response

(* The normalisation makes evidence of an answer's rows only, and says of it   *)
(* what the answer says.                                                       *)
LEMMA NormalizedFrom ==
  ASSUME NEW raw, "from" \in DOMAIN raw, NEW i \in DOMAIN Normalize(raw).evidence
  PROVE  Normalize(raw).evidence[i].from = raw.from
<1>1. Canonical(raw).from = raw.from
  BY DEF Canonical
<1>2. \A code : DOMAIN Error(code).evidence = {}
  BY DEF Error
<1>3. Normalize(raw).evidence = Evidence(Canonical(raw))
  BY <1>2 DEF Normalize
<1>4. DOMAIN Evidence(Canonical(raw)) # {}
  BY <1>3
<1> QED BY <1>1, <1>3, <1>4 DEF Evidence

-------------------------------------------------------------------------------
(* The steps.                                                                  *)

LEMMA LineageInvInit == Init => LineageInv
BY DEF Init, RegistryInit, LineageInv, ResultOfLineage

LEMMA NoEvidenceOfAnError ==
  ASSUME NEW code, Finish(Error(code))
  PROVE  ResultOfLineage'
BY DEF Finish, Error, ResultOfLineage

LEMMA DispatchKeepsInv ==
  ASSUME LineageInv, NEW c \in Calls, Dispatch(c)
  PROVE  LineageInv'
<1>1. UNCHANGED <<bound, lineage>> /\ call' = c
  BY DEF Dispatch
<1>2. CASE c.tool \notin ToolNames \/ ~Permitted(c)
  <2>1. PICK code : Finish(Error(code))
    BY <1>2 DEF Dispatch
  <2> QED BY <1>1, <2>1, NoEvidenceOfAnError DEF LineageInv, Finish
<1>3. CASE c.tool \in ToolNames /\ Permitted(c)
  <2>1. c.tool \in ToolsModelled /\ stage' = "enter"
    BY <1>3, CallsAssumption DEF Dispatch
  <2> QED BY <1>1, <2>1 DEF LineageInv, ResultOfLineage
<1> QED BY <1>2, <1>3

LEMMA EnterKeepsInv ==
  ASSUME LineageInv, Enter
  PROVE  LineageInv'
<1>1. CASE stage' = "read" /\ UNCHANGED result
  BY <1>1 DEF LineageInv, Enter, ResultOfLineage
<1>2. CASE Finish(Error("lineage_changed"))
  BY <1>2, NoEvidenceOfAnError DEF LineageInv, Enter, Finish
<1> QED BY <1>1, <1>2 DEF Enter

LEMMA ExecuteKeepsInv ==
  ASSUME LineageInv, Execute \/ ExecuteFails
  PROVE  LineageInv'
<1>1. CASE Execute
  <2>1. Asked.tool \in ToolsModelled
    <3>1. "tool" \in DOMAIN call /\ call.tool \in ToolsModelled
      BY <1>1, CallsAssumption DEF Execute, LineageInv
    <3> QED BY <3>1 DEF Asked, ToolsModelled, ToolNames
  <2>2. "from" \in DOMAIN answer' /\ (Intact => answer'.from \subseteq {lineage})
    BY <1>1, <2>1, RespondedFrom, FailedFrom DEF Execute, LineageInv
  <2>3. Intact' <=> Intact
    BY <1>1 DEF Execute, Intact
  <2> QED BY <1>1, <2>2, <2>3 DEF Execute, LineageInv, ResultOfLineage
<1>2. CASE ExecuteFails
  BY <1>2, NoEvidenceOfAnError DEF ExecuteFails, LineageInv, Finish
<1> QED BY <1>1, <1>2

LEMMA LeaveKeepsInv ==
  ASSUME LineageInv, Leave
  PROVE  LineageInv'
<1>1. /\ stage = "leave" /\ call \in Calls /\ call.tool \in ToolsModelled
      /\ UNCHANGED <<bound, lineage, call, answer>>
  BY DEF Leave, LineageInv
<1>2. CASE Finish(Error("lineage_changed"))
  BY <1>1, <1>2, NoEvidenceOfAnError DEF LineageInv, Finish
<1>3. CASE stage' = "enter" /\ UNCHANGED result
  BY <1>1, <1>3 DEF LineageInv, ResultOfLineage
<1>4. CASE Intact /\ Finish(Normalize([answer EXCEPT !.tool = call.tool]))
  <2> DEFINE raw == [answer EXCEPT !.tool = call.tool]
  <2>1. "from" \in DOMAIN raw /\ raw.from \subseteq {lineage}
    BY <1>1, <1>4 DEF LineageInv
  <2>2. stage' = "done" /\ result' = Normalize(raw)
    BY <1>4 DEF Finish
  <2> HIDE DEF raw
  <2>3. \A i \in DOMAIN Normalize(raw).evidence : Normalize(raw).evidence[i].from = raw.from
    BY <2>1, NormalizedFrom
  <2>4. ResultOfLineage'
    BY <1>1, <2>1, <2>2, <2>3 DEF ResultOfLineage
  <2> QED BY <1>1, <2>2, <2>4 DEF LineageInv
<1> QED BY <1>2, <1>3, <1>4 DEF Leave

(* What was replaced stays replaced, so the second look cannot miss it.        *)
LEMMA RebindKeepsInv ==
  ASSUME LineageInv, NEW path \in BoundPaths, NEW release \in Releases, Rebind(path, release)
  PROVE  LineageInv'
<1>1. bound' \in [BoundPaths -> Releases] /\ bound'[path] # lineage'
  BY DEF Rebind, LineageInv
<1>2. ~Intact'
  BY <1>1 DEF Intact
<1> QED BY <1>1, <1>2 DEF Rebind, LineageInv, ResultOfLineage

LEMMA IdleKeepsInv ==
  ASSUME LineageInv, UNCHANGED registryVars \/ (stage' = "idle" /\ UNCHANGED <<bound, lineage>>)
  PROVE  LineageInv'
<1>1. CASE UNCHANGED registryVars
  BY <1>1 DEF registryVars, LineageInv, ResultOfLineage, Intact
<1>2. CASE stage' = "idle" /\ UNCHANGED <<bound, lineage>>
  BY <1>2 DEF LineageInv, ResultOfLineage
<1> QED BY <1>1, <1>2

LEMMA LineageInvStep == LineageInv /\ [Next]_vars => LineageInv'
<1> SUFFICES ASSUME LineageInv, [Next]_vars PROVE LineageInv'
  OBVIOUS
<1>1. CASE Ask
  BY <1>1, DispatchKeepsInv DEF Ask
<1>2. CASE Step
  BY <1>2, EnterKeepsInv, ExecuteKeepsInv, LeaveKeepsInv, RebindKeepsInv DEF Step
<1>3. CASE Collect \/ Join \/ Pack \/ UNCHANGED vars
  BY <1>3, IdleKeepsInv DEF Collect, Join, Pack, vars
<1> QED BY <1>1, <1>2, <1>3 DEF Next

(* Every result that passed the second look of dispatch was read from the      *)
(* release the registry was bound to (tool_registry.py:677-737).               *)
THEOREM ResultsAreOfOneLineage == Spec => []ResultOfLineage
<1>1. Spec => []LineageInv
  BY LineageInvInit, LineageInvStep, PTL DEF Spec
<1>2. LineageInv => ResultOfLineage
  BY DEF LineageInv
<1> QED BY <1>1, <1>2, PTL

-------------------------------------------------------------------------------
(* The steps of the whole path.                                                *)

LEMMA PathInvInit == Init => PathInv
<1> SUFFICES ASSUME Init PROVE PathInv
  OBVIOUS
<1>1. WorldInv
  <2>1. PICK section \in Sections : files = IF live THEN <<<<section[1][1]>>>> ELSE section
    BY DEF Init, SectionInit
  <2>2. section \in Seq(Seq(Seq(Blocks))) /\ section # <<>> /\ section[1] # <<>>
    BY WorldAssumption
  <2>3. section[1] \in Seq(Seq(Blocks))
    BY <2>2
  <2>4. section[1][1] \in Seq(Blocks)
    BY <2>2, <2>3
  <2>5. files \in Seq(Seq(Seq(Blocks)))
    <3>1. <<section[1][1]>> \in Seq(Seq(Blocks))
      BY <2>4
    <3>2. <<<<section[1][1]>>>> \in Seq(Seq(Seq(Blocks)))
      BY <3>1
    <3> QED BY <2>1, <2>2, <3>2
  <2> QED BY <2>5 DEF Init, SectionInit, WorldInv
<1>2. stage = "idle" /\ evidence = <<>> /\ pages = {}
  BY DEF Init, RegistryInit
<1>3. AnswerInv /\ AnswersArrive
  BY <1>2 DEF AnswerInv, AnswersArrive
<1>4. EvidenceInv
  BY <1>2 DEF EvidenceInv, PagesWereRead
<1> QED BY <1>1, <1>3, <1>4, LineageInvInit DEF PathInv

(* What a step leaves alone.                                                   *)
LEMMA WorldStays ==
  ASSUME WorldInv, UNCHANGED worldVars
  PROVE  WorldInv'
BY DEF WorldInv, worldVars

LEMMA EvidenceStays ==
  ASSUME EvidenceInv, UNCHANGED worldVars, UNCHANGED <<evidence, pages, lineage>>,
         stage' = "done" => result'.evidence \in Seq(ItemsOf(lineage))
  PROVE  EvidenceInv'
<1>1. stored' = stored
  BY DEF worldVars
<1>2. PagesWereRead'
  BY <1>1 DEF PagesWereRead, EvidenceInv, Page
<1> QED BY <1>2 DEF EvidenceInv

(* An error ends a call with nothing found.                                    *)
LEMMA ErrorArrives ==
  ASSUME NEW code, Finish(Error(code)),
         answer' = NoAnswer \/ code = "lineage_changed", call' \in Calls
  PROVE  /\ AnswerInv' /\ AnswersArrive'
         /\ stage' = "done" => result'.evidence \in Seq(ItemsOf(lineage))
<1>1. stage' = "done" /\ result' = Error(code)
  BY DEF Finish
<1>2. result'.evidence = <<>> /\ result'.code = code
  BY <1>1 DEF Error
<1> QED BY <1>1, <1>2 DEF AnswerInv, AnswersArrive

(* The registry's steps, one by one.                                           *)
LEMMA DispatchKeepsPath ==
  ASSUME PathInv, NEW c \in Calls, Dispatch(c)
  PROVE  /\ AnswerInv' /\ AnswersArrive'
         /\ stage' = "done" => result'.evidence \in Seq(ItemsOf(lineage))
<1>1. call' = c /\ answer' = NoAnswer
  BY DEF Dispatch
<1>2. CASE c.tool \notin ToolNames \/ ~Permitted(c)
  <2>1. PICK code : Finish(Error(code))
    BY <1>2 DEF Dispatch
  <2> QED BY <1>1, <2>1, ErrorArrives
<1>3. CASE c.tool \in ToolNames /\ Permitted(c)
  <2>1. stage' = "enter"
    BY <1>3 DEF Dispatch
  <2> QED BY <1>1, <2>1 DEF AnswerInv, AnswersArrive
<1> QED BY <1>2, <1>3

LEMMA EnterKeepsPath ==
  ASSUME PathInv, Enter
  PROVE  /\ AnswerInv' /\ AnswersArrive'
         /\ stage' = "done" => result'.evidence \in Seq(ItemsOf(lineage))
<1>1. call' = call /\ call \in Calls
  BY DEF Enter, PathInv, AnswerInv
<1>2. CASE stage' = "read"
  BY <1>1, <1>2 DEF AnswerInv, AnswersArrive
<1>3. CASE Finish(Error("lineage_changed"))
  BY <1>1, <1>3, ErrorArrives
<1> QED BY <1>2, <1>3 DEF Enter

LEMMA ExecuteKeepsPath ==
  ASSUME PathInv, Execute \/ ExecuteFails, UNCHANGED worldVars
  PROVE  /\ AnswerInv' /\ AnswersArrive'
         /\ stage' = "done" => result'.evidence \in Seq(ItemsOf(lineage))
<1>1. call' = call /\ call \in Calls /\ call.tool \in ToolsModelled
  BY DEF Execute, ExecuteFails, PathInv, AnswerInv, LineageInv
<1>2. CASE Execute
  <2>1. Asked.tool \in ToolsModelled /\ Asked.partFrom \in Nat \ {0}
    BY <1>1, CallsAssumption DEF Asked, ToolsModelled, ToolNames
  <2>2. IsResponse(answer') /\ (answer'.status = "ok" => Sound(answer', Asked))
    <3>1. CASE answer' = Respond(Asked, bound)
      BY <2>1, <3>1, RespondSound DEF PathInv
    <3>2. CASE answer' = Failure(Asked)
      BY <3>2 DEF Failure, Response, IsResponse
    <3> QED BY <1>2, <3>1, <3>2 DEF Execute
  <2>3. live' = live /\ Once' = Once /\ Asked' = Asked /\ stage' = "leave"
    BY <1>2 DEF Execute, Asked, worldVars, Once
  <2>4. answer'.status = "ok" => Sound(answer, Asked)'
    BY <2>2, <2>3 DEF Sound
  <2>5. AnswerInv'
    BY <1>1, <2>2, <2>3, <2>4 DEF AnswerInv, IsResponse
  <2> QED BY <2>3, <2>5 DEF AnswersArrive
<1>3. CASE ExecuteFails
  <2>1. Finish(Error("tool_execution_failed")) /\ answer' = NoAnswer
    BY <1>3 DEF ExecuteFails
  <2> QED BY <1>1, <2>1, ErrorArrives
<1> QED BY <1>2, <1>3

LEMMA LeaveKeepsPath ==
  ASSUME PathInv, Leave, UNCHANGED worldVars
  PROVE  /\ AnswerInv' /\ AnswersArrive'
         /\ stage' = "done" => result'.evidence \in Seq(ItemsOf(lineage))
<1>1. /\ stage = "leave" /\ call \in Calls /\ call.tool \in ToolsModelled
      /\ call' = call /\ answer' = answer /\ IsResponse(answer)
      /\ answer.status = "ok" => Sound(answer, Asked)
  BY DEF Leave, PathInv, AnswerInv, LineageInv
<1>2. CASE ~Intact
  <2>1. Finish(Error("lineage_changed"))
    BY <1>2 DEF Leave
  <2> QED BY <1>1, <2>1, ErrorArrives
<1>3. CASE Intact /\ naming /\ answer.status = "ok"
  <2>1. stage' = "enter"
    BY <1>3 DEF Leave
  <2> QED BY <1>1, <2>1 DEF AnswerInv, AnswersArrive
<1>4. CASE Intact /\ ~(naming /\ answer.status = "ok")
  <2> DEFINE raw == [answer EXCEPT !.tool = call.tool]
  <2>1. stage' = "done" /\ result' = Normalize(raw)
    BY <1>4 DEF Leave, Finish
  <2>2. AnswerInv'
    BY <1>1, <2>1 DEF AnswerInv
  <2>3. CASE answer.status # "ok"
    <3>1. IsResponse(raw) /\ raw.status # "ok"
      BY <1>1, <2>3 DEF IsResponse
    <3> HIDE DEF raw
    <3>2. Normalize(raw).evidence = <<>>
      BY <3>1, NormalizedNot
    <3> QED BY <1>1, <2>1, <2>2, <2>3, <3>2 DEF AnswersArrive
  <2>4. CASE answer.status = "ok"
    <3>1. Asked = call
      BY <1>4, <2>4 DEF Asked
    <3>2. Sound(answer, call)
      BY <1>1, <2>4, <3>1
    <3>3. raw = answer
      BY <1>1, <3>2 DEF Sound, IsResponse
    <3> HIDE DEF raw
    <3>4. answer.from \subseteq {lineage}
      BY <1>1, <1>4 DEF PathInv, LineageInv
    <3>5. /\ Normalize(answer).evidence \in Seq(ItemsOf(lineage))
          /\ \/ Normalize(answer).status = "ok"
             \/ /\ Normalize(answer).code = "result_too_large"
                /\ call.tool = "read_section" => ~Once
                /\ call.tool = "query_events" /\ ~live => Len(answer.rows) = 1
      BY <1>1, <2>4, <3>2, <3>4, NormalizedOk
    <3>6. live' = live /\ Once' = Once
      BY DEF worldVars, Once
    <3> QED BY <1>1, <2>1, <2>2, <3>3, <3>5, <3>6 DEF AnswersArrive
  <2> QED BY <2>3, <2>4
<1> QED BY <1>2, <1>3, <1>4

LEMMA RebindKeepsPath ==
  ASSUME PathInv, NEW path, NEW release, Rebind(path, release), UNCHANGED worldVars
  PROVE  /\ AnswerInv' /\ AnswersArrive'
         /\ stage' = "done" => result'.evidence \in Seq(ItemsOf(lineage))
<1>1. UNCHANGED <<lineage, call, naming, stage, answer, result>> /\ live' = live /\ Once' = Once
  BY DEF Rebind, worldVars, Once
<1>2. stage = "leave" => Sound(answer, Asked)' = Sound(answer, Asked)
  BY <1>1 DEF Sound, Asked
<1>3. AnswerInv'
  BY <1>1, <1>2 DEF AnswerInv, PathInv, IsResponse
<1>4. AnswersArrive'
  BY <1>1 DEF AnswersArrive, PathInv
<1> QED BY <1>1, <1>3, <1>4 DEF PathInv, EvidenceInv

(* What was found is added to evidence from the same release.                  *)
LEMMA CollectKeepsPath ==
  ASSUME PathInv, Collect
  PROVE  PathInv'
<1>1. /\ stage = "done" /\ stage' = "idle" /\ evidence' = evidence \o result.evidence
      /\ lineage' = lineage /\ UNCHANGED worldVars /\ call \in Calls
  BY DEF Collect, PathInv, AnswerInv
<1>2. WorldInv'
  BY <1>1, WorldStays DEF PathInv
<1>3. LineageInv'
  BY LineageInvStep DEF PathInv, Next
<1>4. AnswerInv' /\ AnswersArrive'
  BY <1>1 DEF AnswerInv, AnswersArrive
<1>5. evidence' \in Seq(ItemsOf(lineage))
  <2>1. evidence \in Seq(ItemsOf(lineage)) /\ result.evidence \in Seq(ItemsOf(lineage))
    BY <1>1 DEF PathInv, EvidenceInv
  <2> QED BY <1>1, <2>1
<1>6. PagesWereRead'
  <2>1. stored' = stored
    BY <1>1 DEF worldVars
  <2>2. \A n : Page(n)' = Page(n)
    BY <2>1 DEF Page
  <2>3. call.partFrom \in Nat \ {0}
    BY <1>1, CallsAssumption
  <2>4. \A p \in pages : p[1] \in Nat \ {0} /\ p = <<p[1], Page(p[1])>>
    BY DEF PathInv, EvidenceInv, PagesWereRead
  <2>5. pages' \subseteq pages \cup {<<call.partFrom, Page(call.partFrom)>>}
    BY DEF Collect
  <2>6. \A p \in pages' : p[1] \in Nat \ {0} /\ p = <<p[1], Page(p[1])>>
    BY <2>3, <2>4, <2>5
  <2> QED BY <2>1, <2>6 DEF PagesWereRead, Page
<1> QED BY <1>1, <1>2, <1>3, <1>4, <1>5, <1>6 DEF PathInv, EvidenceInv

(* Whole chunks in the place of their parts are from where the parts are from. *)
LEMMA JoinKeepsPath ==
  ASSUME PathInv, Join
  PROVE  PathInv'
<1> DEFINE from == UNION {evidence[i].from : i \in PartsHeld}
           Whole(k) == [source |-> JoinedPages[k].source, text |-> JoinedPages[k].text,
                        priority |-> 1, rank |-> k, from |-> from]
           n == Len(JoinedPages)
<1>1. /\ UNCHANGED worldVars /\ UNCHANGED registryVars /\ pages' = pages
      /\ evidence' = [k \in DOMAIN JoinedPages |-> Whole(k)] \o OtherEvidence
  BY DEF Join
<1>2. WorldInv'
  BY <1>1, WorldStays DEF PathInv
<1>3. LineageInv'
  BY LineageInvStep DEF PathInv, Next
<1>4. /\ lineage' = lineage /\ call' = call /\ naming' = naming /\ stage' = stage
      /\ answer' = answer /\ result' = result /\ live' = live /\ stored' = stored /\ Once' = Once
  BY <1>1 DEF registryVars, worldVars, Once
<1>5. AnswerInv'
  <2>1. stage = "leave" => Sound(answer, Asked)' = Sound(answer, Asked)
    BY <1>4 DEF Sound, Asked
  <2> QED BY <1>4, <2>1 DEF AnswerInv, PathInv, IsResponse
<1>6. AnswersArrive'
  BY <1>4 DEF AnswersArrive, PathInv
<1>7. evidence \in Seq(ItemsOf(lineage))
  BY DEF PathInv, EvidenceInv
<1>8. from \in SUBSET {lineage}
  <2>1. \A i \in DOMAIN evidence : evidence[i].from \in SUBSET {lineage}
    <3>1. \A i \in DOMAIN evidence : evidence[i] \in ItemsOf(lineage)
      BY <1>7
    <3> QED BY <3>1 DEF ItemsOf
  <2> QED BY <2>1 DEF PartsHeld
<1>9. JoinedPages \in Seq(PartTexts)
  BY JoinedTyped DEF PathInv, EvidenceInv
<1>10. [k \in DOMAIN JoinedPages |-> Whole(k)] \in Seq(ItemsOf(lineage))
  <2>1. n \in Nat /\ DOMAIN JoinedPages = 1..n /\ \A k \in 1..n : JoinedPages[k] \in PartTexts
    BY <1>9
  <2> HIDE DEF n, from
  <2>2. ASSUME NEW k \in 1..n PROVE Whole(k) \in ItemsOf(lineage)
    <3>1. JoinedPages[k].source \in Nat /\ JoinedPages[k].text \in Texts /\ k \in Nat \ {0}
      BY <2>1 DEF PartTexts
    <3> QED BY <1>8, <3>1 DEF ItemsOf
  <2> HIDE DEF Whole
  <2> QED BY <2>1, <2>2
<1>11. OtherEvidence \in Seq(ItemsOf(lineage))
  BY <1>7, OtherTyped
<1> HIDE DEF Whole
<1>12. evidence' \in Seq(ItemsOf(lineage))
  BY <1>1, <1>10, <1>11
<1>13. PagesWereRead'
  BY <1>1, <1>4 DEF PagesWereRead, PathInv, EvidenceInv, Page
<1>14. EvidenceInv'
  BY <1>4, <1>12, <1>13 DEF PathInv, EvidenceInv
<1> QED BY <1>2, <1>3, <1>5, <1>6, <1>14 DEF PathInv

(* The other steps leave all of it alone.                                      *)
LEMMA RestKeepsPath ==
  ASSUME PathInv, Pack \/ UNCHANGED vars
  PROVE  PathInv'
<1>1. UNCHANGED worldVars /\ UNCHANGED registryVars /\ pages' = pages /\ evidence' = evidence
  BY DEF Pack, vars
<1>2. WorldInv'
  BY <1>1, WorldStays DEF PathInv
<1>3. LineageInv'
  BY LineageInvStep DEF PathInv, Next
<1>4. /\ lineage' = lineage /\ call' = call /\ naming' = naming /\ stage' = stage
      /\ answer' = answer /\ result' = result /\ live' = live /\ stored' = stored /\ Once' = Once
  BY <1>1 DEF registryVars, worldVars, Once
<1>5. AnswerInv'
  <2>1. stage = "leave" => Sound(answer, Asked)' = Sound(answer, Asked)
    BY <1>4 DEF Sound, Asked
  <2> QED BY <1>4, <2>1 DEF AnswerInv, PathInv, IsResponse
<1>6. AnswersArrive'
  BY <1>4 DEF AnswersArrive, PathInv
<1>7. EvidenceInv'
  BY <1>1, <1>4, EvidenceStays DEF PathInv, EvidenceInv
<1> QED BY <1>2, <1>3, <1>5, <1>6, <1>7 DEF PathInv

LEMMA PathInvStep == PathInv /\ [Next]_vars => PathInv'
<1> SUFFICES ASSUME PathInv, [Next]_vars PROVE PathInv'
  OBVIOUS
<1>1. CASE Ask \/ Step
  <2>1. UNCHANGED worldVars /\ UNCHANGED <<evidence, pages, lineage>>
    BY <1>1 DEF Ask, Step, Dispatch, Enter, Execute, ExecuteFails, Leave, Rebind
  <2>2. /\ AnswerInv' /\ AnswersArrive'
        /\ stage' = "done" => result'.evidence \in Seq(ItemsOf(lineage))
    BY <1>1, <2>1, DispatchKeepsPath, EnterKeepsPath, ExecuteKeepsPath, LeaveKeepsPath,
       RebindKeepsPath DEF Ask, Step
  <2>3. WorldInv' /\ LineageInv' /\ EvidenceInv'
    BY <2>1, <2>2, WorldStays, LineageInvStep, EvidenceStays DEF PathInv
  <2> QED BY <2>2, <2>3 DEF PathInv
<1>2. CASE Collect
  BY <1>2, CollectKeepsPath
<1>3. CASE Join
  BY <1>3, JoinKeepsPath
<1>4. CASE Pack \/ UNCHANGED vars
  BY <1>4, RestKeepsPath
<1> QED BY <1>1, <1>2, <1>3, <1>4 DEF Next

LEMMA TypeInvInit == Init => TypeInv
<1> SUFFICES ASSUME Init PROVE TypeInv
  OBVIOUS
<1>1. 0 \in 0..MaxCalls
  BY CallsAssumption
<1> QED BY <1>1 DEF Init, RegistryInit, TypeInv, Stages

LEMMA TypeInvStep == TypeInv /\ [Next]_vars => TypeInv'
<1> SUFFICES ASSUME TypeInv, [Next]_vars PROVE TypeInv'
  OBVIOUS
<1>1. CASE Ask
  <2>1. calls' \in 0..MaxCalls
    BY <1>1, CallsAssumption DEF Ask, TypeInv
  <2>2. PICK c \in Calls : Dispatch(c)
    BY <1>1 DEF Ask
  <2>3. lineage' \in Releases /\ call' \in Calls \cup {NoCall} /\ naming' \in BOOLEAN /\ stage' \in Stages
    BY <2>2 DEF Dispatch, Finish, TypeInv, Stages
  <2> QED BY <2>1, <2>3 DEF TypeInv
<1>2. CASE Step
  <2>1. calls' = calls
    BY <1>2 DEF Step
  <2>2. CASE Enter \/ Execute \/ ExecuteFails \/ Leave
    BY <2>1, <2>2 DEF Enter, Execute, ExecuteFails, Leave, Finish, TypeInv, Stages
  <2>3. CASE \E path \in BoundPaths, release \in Releases : pack = NoPack /\ Rebind(path, release)
    BY <2>1, <2>3 DEF Rebind, TypeInv
  <2> QED BY <1>2, <2>2, <2>3 DEF Step
<1>3. CASE Collect
  BY <1>3 DEF Collect, TypeInv, Stages
<1>4. CASE Join \/ Pack \/ UNCHANGED vars
  BY <1>4 DEF Join, Pack, vars, registryVars, TypeInv
<1> QED BY <1>1, <1>2, <1>3, <1>4 DEF Next

(* Every variable of the path keeps its type, and so does every item of the    *)
(* evidence and every line of its text.                                        *)
THEOREM PathIsTyped == Spec => []EvidenceTypeOK
<1>1. Spec => [](PathInv /\ TypeInv)
  <2>1. Init => PathInv /\ TypeInv
    BY PathInvInit, TypeInvInit
  <2>2. PathInv /\ TypeInv /\ [Next]_vars => (PathInv /\ TypeInv)'
    BY PathInvStep, TypeInvStep
  <2> QED BY <2>1, <2>2, PTL DEF Spec
<1>2. PathInv /\ TypeInv => EvidenceTypeOK
  <2> SUFFICES ASSUME PathInv, TypeInv PROVE EvidenceTypeOK
    OBVIOUS
  <2>1. bound \in [BoundPaths -> Releases] /\ evidence \in Seq(ItemsOf(lineage))
    BY DEF PathInv, LineageInv, EvidenceInv
  <2>2. ASSUME NEW i \in DOMAIN evidence
        PROVE  /\ evidence[i].source \in Nat /\ evidence[i].rank \in Nat \ {0}
               /\ \A k \in DOMAIN evidence[i].text : evidence[i].text[k].kind \in Kinds
    <3>1. evidence[i] \in ItemsOf(lineage)
      BY <2>1
    <3>2. evidence[i].text \in Seq(Lines)
      BY <3>1 DEF ItemsOf, Texts
    <3>3. \A k \in DOMAIN evidence[i].text : evidence[i].text[k] \in Lines
      BY <3>2
    <3> QED BY <3>1, <3>3 DEF ItemsOf, Lines
  <2> QED BY <2>1, <2>2 DEF EvidenceTypeOK, TypeInv
<1> QED BY <1>1, <1>2, PTL

(* The evidence of a question stays of one release: every item that was        *)
(* collected, over all of its calls, and every whole chunk that replaced parts *)
(* of it (tool_registry.py:677-679, 703-705, open_profile_route.py:209).       *)
THEOREM EvidenceIsOfOneLineage == Spec => []OneLineage
<1>1. Spec => []PathInv
  BY PathInvInit, PathInvStep, PTL DEF Spec
<1>2. PathInv => OneLineage
  <2> SUFFICES ASSUME PathInv, NEW i \in DOMAIN evidence PROVE evidence[i].from \subseteq {lineage}
    BY DEF OneLineage
  <2>1. evidence[i] \in ItemsOf(lineage)
    BY DEF PathInv, EvidenceInv
  <2> QED BY <2>1 DEF ItemsOf
<1> QED BY <1>1, <1>2, PTL

(* No answer of a tool that found something is refused by the registry's own   *)
(* checks, but for one event too long for any result and for the listings that *)
(* nothing cuts to size (tool_registry.py:542, tools/events.py:43).            *)
THEOREM AnswersGetThrough == Spec => []AnswersArrive
<1>1. Spec => []PathInv
  BY PathInvInit, PathInvStep, PTL DEF Spec
<1>2. PathInv => AnswersArrive
  BY DEF PathInv
<1> QED BY <1>1, <1>2, PTL

-------------------------------------------------------------------------------
(* Packing: the order of the items.                                            *)

(* The order of the items is a strict total one.                               *)
LEMMA BeforeOrders ==
  ASSUME NEW l, NEW items \in Seq(ItemsOf(l)), NEW a \in DOMAIN items, NEW b \in DOMAIN items,
         NEW c \in DOMAIN items
  PROVE  /\ ~Before(items, a, a)
         /\ Before(items, a, b) /\ Before(items, b, c) => Before(items, a, c)
         /\ a # b => Before(items, a, b) \/ Before(items, b, a)
<1>1. items[a] \in ItemsOf(l) /\ items[b] \in ItemsOf(l) /\ items[c] \in ItemsOf(l)
  OBVIOUS
<1>2. a \in Nat /\ b \in Nat /\ c \in Nat
  OBVIOUS
<1>3. \A x \in ItemsOf(l) : x.priority \in Nat /\ x.rank \in Nat /\ x.source \in Nat
  BY DEF ItemsOf
<1> DEFINE x == items[a]  y == items[b]  z == items[c]
<1>4. /\ x.priority \in Nat /\ x.rank \in Nat /\ x.source \in Nat
      /\ y.priority \in Nat /\ y.rank \in Nat /\ y.source \in Nat
      /\ z.priority \in Nat /\ z.rank \in Nat /\ z.source \in Nat
  BY <1>1, <1>3
<1>5. ~Before(items, a, a)
  <2> HIDE DEF y, z
  <2> QED BY <1>2, <1>4 DEF Before, x
<1>6. Before(items, a, b) /\ Before(items, b, c) => Before(items, a, c)
  <2> DEFINE Precedes(u, v, i, k) ==
               \/ u.priority > v.priority
               \/ u.priority = v.priority /\ u.rank < v.rank
               \/ u.priority = v.priority /\ u.rank = v.rank /\ u.source < v.source
               \/ u.priority = v.priority /\ u.rank = v.rank /\ u.source = v.source /\ i < k
  <2>1. /\ Before(items, a, b) = Precedes(x, y, a, b) /\ Before(items, b, c) = Precedes(y, z, b, c)
        /\ Before(items, a, c) = Precedes(x, z, a, c)
    BY DEF Before
  <2>2. Precedes(x, y, a, b) /\ Precedes(y, z, b, c) => Precedes(x, z, a, c)
    <3> DEFINE p == x.priority  q == y.priority  o == z.priority
               k == x.rank  n == y.rank  m == z.rank
               d == x.source  e == y.source  f == z.source
    <3>1. /\ p \in Nat /\ q \in Nat /\ o \in Nat /\ k \in Nat /\ n \in Nat /\ m \in Nat
          /\ d \in Nat /\ e \in Nat /\ f \in Nat
      BY <1>4
    <3>2. Precedes(x, y, a, b) <=>
            p > q \/ (p = q /\ (k < n \/ (k = n /\ (d < e \/ (d = e /\ a < b)))))
      BY DEF Precedes
    <3>3. Precedes(y, z, b, c) <=>
            q > o \/ (q = o /\ (n < m \/ (n = m /\ (e < f \/ (e = f /\ b < c)))))
      BY DEF Precedes
    <3>4. Precedes(x, z, a, c) <=>
            p > o \/ (p = o /\ (k < m \/ (k = m /\ (d < f \/ (d = f /\ a < c)))))
      BY DEF Precedes
    <3> HIDE DEF p, q, o, k, n, m, d, e, f, x, y, z, Precedes
    <3> QED BY <1>2, <3>1, <3>2, <3>3, <3>4
  <2> HIDE DEF x, y, z
  <2> HIDE DEF Precedes
  <2> QED BY <2>1, <2>2
<1>7. a # b => Before(items, a, b) \/ Before(items, b, a)
  <2> HIDE DEF z
  <2> QED BY <1>2, <1>4 DEF Before, x, y
<1> QED BY <1>5, <1>6, <1>7

(* Every item of a set is at one place of its order, and at every place is an  *)
(* item of the set.                                                            *)
LEMMA OrderedHolds ==
  ASSUME NEW l, NEW items \in Seq(ItemsOf(l)), NEW set \in SUBSET (DOMAIN items)
  PROVE  /\ Ordered(items, set) \in Seq(set)
         /\ \A a \in set : \E k \in DOMAIN Ordered(items, set) : Ordered(items, set)[k] = a
<1> DEFINE n == Cardinality(set)
           pred(a) == Earlier(items, set, a)
           rank == [a \in set |-> Cardinality(pred(a))]
<1>1. IsFiniteSet(set) /\ n \in Nat
  <2>1. IsFiniteSet(DOMAIN items)
    <3>1. DOMAIN items = 1..Len(items) /\ 1 \in Int /\ Len(items) \in Int
      OBVIOUS
    <3> QED BY <3>1, FS_Interval
  <2>2. IsFiniteSet(set)
    BY <2>1, FS_Subset
  <2> QED BY <2>2, FS_CardinalityType
<1>2. ASSUME NEW a \in set
      PROVE  /\ IsFiniteSet(pred(a)) /\ Cardinality(pred(a)) \in Nat /\ Cardinality(pred(a)) < n
  <2>1. pred(a) \subseteq set /\ a \notin pred(a)
    BY BeforeOrders DEF Earlier
  <2> HIDE DEF pred
  <2>2. IsFiniteSet(pred(a)) /\ Cardinality(pred(a)) <= n /\ (n = Cardinality(pred(a)) => set = pred(a))
    BY <1>1, <2>1, FS_Subset
  <2>3. Cardinality(pred(a)) \in Nat
    BY <2>2, FS_CardinalityType
  <2> QED BY <1>1, <2>1, <2>2, <2>3
<1>3. ASSUME NEW a \in set, NEW b \in set, Before(items, a, b)
      PROVE  Cardinality(pred(a)) < Cardinality(pred(b))
  <2>1. pred(a) \subseteq pred(b) /\ a \in pred(b) /\ a \notin pred(a)
    BY <1>3, BeforeOrders DEF Earlier
  <2>2. IsFiniteSet(pred(b)) /\ Cardinality(pred(b)) \in Nat /\ Cardinality(pred(a)) \in Nat
    BY <1>2
  <2> HIDE DEF pred
  <2>3. Cardinality(pred(a)) <= Cardinality(pred(b))
        /\ (Cardinality(pred(b)) = Cardinality(pred(a)) => pred(b) = pred(a))
    BY <2>1, <2>2, FS_Subset
  <2> QED BY <2>1, <2>2, <2>3
<1>4. ASSUME NEW a \in set, NEW b \in set, Cardinality(pred(a)) = Cardinality(pred(b))
      PROVE  a = b
  <2> SUFFICES ASSUME a # b PROVE FALSE
    OBVIOUS
  <2>1. Before(items, a, b) \/ Before(items, b, a)
    BY BeforeOrders
  <2>2. Cardinality(pred(b)) \in Nat
    BY <1>2
  <2> HIDE DEF pred
  <2> QED BY <1>3, <1>4, <2>1, <2>2
<1> HIDE DEF pred
<1>5. \A k \in 0..(n-1) : \E a \in set : Cardinality(pred(a)) = k
  <2>1. rank \in Injection(set, 0..(n-1))
    <3>1. \A a \in set : rank[a] \in 0..(n-1)
      BY <1>1, <1>2
    <3>2. \A a, b \in set : rank[a] = rank[b] => a = b
      BY <1>4
    <3> QED BY <3>1, <3>2 DEF Injection, IsInjective
  <2>2. IsFiniteSet(0..(n-1)) /\ Cardinality(0..(n-1)) = n
    <3>1. 0 \in Int /\ n - 1 \in Int
      BY <1>1
    <3>2. IsFiniteSet(0..(n-1)) /\ Cardinality(0..(n-1)) = IF 0 > n - 1 THEN 0 ELSE (n - 1) - 0 + 1
      BY <3>1, FS_Interval
    <3> HIDE DEF n
    <3> QED BY <1>1, <3>2
  <2> HIDE DEF rank
  <2>3. rank \in Surjection(set, 0..(n-1))
    BY <2>1, <2>2, FS_Injection
  <2>4. \A k \in 0..(n-1) : \E a \in set : rank[a] = k
    BY <2>3 DEF Surjection
  <2> QED BY <2>4 DEF rank
<1>6. Ordered(items, set) = [k \in 1..n |-> CHOOSE a \in set : Cardinality(pred(a)) = k - 1]
  BY DEF Ordered, pred
<1> HIDE DEF n
<1>7. ASSUME NEW k \in 1..n
      PROVE  Ordered(items, set)[k] \in set /\ Cardinality(pred(Ordered(items, set)[k])) = k - 1
  <2>1. k - 1 \in 0..(n-1)
    BY <1>1
  <2>2. \E a \in set : Cardinality(pred(a)) = k - 1
    BY <1>5, <2>1
  <2> QED BY <1>6, <2>2
<1>8. Ordered(items, set) \in Seq(set) /\ DOMAIN Ordered(items, set) = 1..n
  BY <1>1, <1>6, <1>7
<1>9. ASSUME NEW a \in set
      PROVE  \E k \in DOMAIN Ordered(items, set) : Ordered(items, set)[k] = a
  <2>1. Cardinality(pred(a)) \in Nat /\ Cardinality(pred(a)) < n
    BY <1>2
  <2> DEFINE k == Cardinality(pred(a)) + 1
  <2>2. k \in 1..n /\ k - 1 = Cardinality(pred(a))
    BY <1>1, <2>1
  <2> HIDE DEF k
  <2>3. Ordered(items, set)[k] = a
    BY <1>4, <1>7, <2>2
  <2> QED BY <1>8, <2>2, <2>3
<1> QED BY <1>8, <1>9

(* What is packed once is every item, but for its source and text.             *)
LEMMA UniqueHolds ==
  ASSUME NEW l, NEW items \in Seq(ItemsOf(l))
  PROVE  /\ Unique(items) \in Seq(DOMAIN items)
         /\ \A i \in DOMAIN items : \E k \in DOMAIN Unique(items) : Alike(items, i, Unique(items)[k])
<1>1. Firsts(items) \in SUBSET (DOMAIN items)
  BY DEF Firsts
<1>2. Unique(items) \in Seq(Firsts(items))
      /\ \A a \in Firsts(items) : \E k \in DOMAIN Unique(items) : Unique(items)[k] = a
  BY <1>1, OrderedHolds DEF Unique
<1>3. Unique(items) \in Seq(DOMAIN items)
  BY <1>1, <1>2
<1>4. ASSUME NEW i \in DOMAIN items
      PROVE  \E a \in Firsts(items) : Alike(items, i, a)
  <2> DEFINE same == {b \in DOMAIN items : Alike(items, i, b)}
             pred(a) == Earlier(items, same, a)
             ranks == {Cardinality(pred(a)) : a \in same}
  <2>1. IsFiniteSet(same) /\ Cardinality(same) \in Nat
    <3>1. IsFiniteSet(DOMAIN items)
      <4>1. DOMAIN items = 1..Len(items) /\ 1 \in Int /\ Len(items) \in Int
        OBVIOUS
      <4> QED BY <4>1, FS_Interval
    <3>2. IsFiniteSet(same)
      BY <3>1, FS_Subset
    <3> QED BY <3>2, FS_CardinalityType
  <2>2. ASSUME NEW a \in same
        PROVE  IsFiniteSet(pred(a)) /\ Cardinality(pred(a)) \in 0..Cardinality(same)
    <3>1. pred(a) \in SUBSET same
      BY DEF Earlier
    <3> HIDE DEF pred, same
    <3>2. IsFiniteSet(pred(a)) /\ Cardinality(pred(a)) <= Cardinality(same)
      BY <2>1, <3>1, FS_Subset
    <3> QED BY <2>1, <3>2, FS_CardinalityType
  <2>3. i \in same
    BY DEF Alike
  <2>4. ranks \in SUBSET (0..Cardinality(same)) /\ ranks # {}
    <3> HIDE DEF pred, same
    <3> QED BY <2>2, <2>3
  <2>5. Min(ranks) \in ranks /\ \A x \in ranks : Min(ranks) <= x
    <3> HIDE DEF ranks, same
    <3> QED BY <2>1, <2>4, LeastOne
  <2>6. PICK a \in same : Min(ranks) = Cardinality(pred(a))
    BY <2>5
  <2>7. ~\E b \in DOMAIN items : Alike(items, a, b) /\ Before(items, b, a)
    <3> SUFFICES ASSUME NEW b \in DOMAIN items, Alike(items, a, b), Before(items, b, a) PROVE FALSE
      OBVIOUS
    <3>1. b \in same
      BY DEF Alike
    <3>2. pred(b) \subseteq pred(a) /\ b \in pred(a) /\ b \notin pred(b)
      BY <3>1, BeforeOrders DEF Earlier
    <3>3. IsFiniteSet(pred(a)) /\ Cardinality(pred(a)) \in Nat /\ Cardinality(pred(b)) \in Nat
      BY <2>2, <3>1
    <3>4. Cardinality(pred(a)) <= Cardinality(pred(b))
      BY <2>5, <2>6, <3>1
    <3> HIDE DEF pred
    <3>5. Cardinality(pred(b)) <= Cardinality(pred(a))
          /\ (Cardinality(pred(a)) = Cardinality(pred(b)) => pred(a) = pred(b))
      BY <3>2, <3>3, FS_Subset
    <3> QED BY <3>2, <3>3, <3>4, <3>5
  <2> QED BY <2>7 DEF Firsts
<1>5. ASSUME NEW i \in DOMAIN items
      PROVE  \E k \in DOMAIN Unique(items) : Alike(items, i, Unique(items)[k])
  <2>1. PICK a \in Firsts(items) : Alike(items, i, a)
    BY <1>4
  <2>2. PICK k \in DOMAIN Unique(items) : Unique(items)[k] = a
    BY <1>2
  <2> QED BY <2>1, <2>2
<1> QED BY <1>3, <1>5

-------------------------------------------------------------------------------
(* Packing: prose.                                                             *)

(* What is computed from what comes later in a range exists. *)
LEMMA DescentExists ==
  ASSUME NEW from \in Nat, NEW to \in Nat, from <= to, NEW D, NEW base \in [from..to -> D],
         NEW stop \in [from..to -> BOOLEAN], NEW nx \in [from..to -> Nat],
         NEW st \in [from..to -> [D -> D]],
         \A s \in from..to : ~stop[s] => nx[s] \in (s + 1)..to
  PROVE  \E w : Descends(w, from, to, D, base, stop, nx, st)
<1> DEFINE Right(w, lo) == \A s \in lo..to : w[s] = IF stop[s] THEN base[s] ELSE st[s][w[nx[s]]]
           T == {m \in Nat : m <= to - from => \E w \in [(to - m)..to -> D] : Right(w, to - m)}
<1>1. 0 \in T
  <2> DEFINE w == [s \in to..to |-> base[s]]
  <2>1. stop[to] /\ base[to] \in D
    <3>1. to \in from..to /\ ~(nx[to] \in (to + 1)..to)
      OBVIOUS
    <3> QED BY <3>1
  <2>2. w \in [to..to -> D] /\ Right(w, to)
    BY <2>1
  <2>3. to - 0 = to
    OBVIOUS
  <2> HIDE DEF w, Right
  <2> QED BY <2>2, <2>3
<1>2. ASSUME NEW m \in Nat, m \in T
      PROVE  m + 1 \in T
  <2> SUFFICES ASSUME m + 1 <= to - from
               PROVE  \E w \in [(to - (m + 1))..to -> D] : Right(w, to - (m + 1))
    OBVIOUS
  <2> DEFINE lo == to - (m + 1)
  <2>1. m <= to - from /\ lo \in from..to /\ lo < to /\ to - m = lo + 1 /\ lo \in Nat
    OBVIOUS
  <2>2. PICK v \in [(to - m)..to -> D] : Right(v, to - m)
    BY <1>2, <2>1
  <2> HIDE DEF lo
  <2> DEFINE w == [s \in lo..to |-> IF s # lo THEN v[s]
                                    ELSE IF stop[lo] THEN base[lo] ELSE st[lo][v[nx[lo]]]]
  <2>3. \A s \in (lo + 1)..to : w[s] = v[s] /\ s \in lo..to /\ v[s] \in D /\ s \in from..to
    BY <2>1
  <2>4. w[lo] = IF stop[lo] THEN base[lo] ELSE st[lo][v[nx[lo]]]
    BY <2>1
  <2>5. ~stop[lo] => nx[lo] \in (lo + 1)..to
    BY <2>1
  <2>6. w[lo] \in D
    BY <2>1, <2>3, <2>4, <2>5
  <2>7. \A s \in lo..to : s = lo \/ s \in (lo + 1)..to
    BY <2>1
  <2>8. w = [s \in lo..to |-> w[s]]
    OBVIOUS
  <2>9. \A s \in (lo + 1)..to : ~stop[s] => nx[s] \in (lo + 1)..to
    <3>1. ASSUME NEW s \in (lo + 1)..to, ~stop[s] PROVE nx[s] \in (lo + 1)..to
      <4>1. s \in from..to /\ s \in Nat
        BY <2>1, <2>3
      <4>2. nx[s] \in (s + 1)..to
        BY <3>1, <4>1
      <4> QED BY <2>1, <4>1, <4>2
    <3> QED BY <3>1
  <2> HIDE DEF w
  <2>10. w \in [lo..to -> D]
    BY <2>3, <2>6, <2>7, <2>8
  <2>11. Right(w, lo)
    <3> SUFFICES ASSUME NEW s \in lo..to
                 PROVE  w[s] = IF stop[s] THEN base[s] ELSE st[s][w[nx[s]]]
      OBVIOUS
    <3>1. CASE s = lo
      BY <2>3, <2>4, <2>5, <3>1
    <3>2. CASE s \in (lo + 1)..to
      <4>1. v[s] = IF stop[s] THEN base[s] ELSE st[s][v[nx[s]]]
        BY <2>1, <2>2, <3>2
      <4> QED BY <2>3, <2>9, <3>2, <4>1
    <3> QED BY <2>7, <3>1, <3>2
  <2> HIDE DEF Right
  <2> QED BY <2>10, <2>11 DEF lo
<1>3. to - from \in T
  <2> HIDE DEF T
  <2>1. \A m \in Nat : m \in T
    BY <1>1, <1>2, SetInduction
  <2>2. to - from \in Nat
    OBVIOUS
  <2> QED BY <2>1, <2>2
<1>4. to - (to - from) = from /\ to - from <= to - from
  OBVIOUS
<1>5. PICK w \in [from..to -> D] : Right(w, from)
  BY <1>3, <1>4
<1>6. w = [s \in from..to |-> w[s]]
  OBVIOUS
<1>7. w = [s \in from..to |-> IF stop[s] THEN base[s] ELSE st[s][w[nx[s]]]]
  BY <1>5, <1>6
<1> QED BY <1>7 DEF Descends

(* A passage ends after it begins, where it is full at the latest.             *)
LEMMA BoundaryBetween ==
  ASSUME NEW newlines, NEW start \in Nat, NEW hardEnd \in Nat, start < hardEnd
  PROVE  Boundary(newlines, start, hardEnd) \in (start + 1)..hardEnd
<1> DEFINE breaks     == {e \in (start + 1)..hardEnd : e - 1 \in newlines}
           paragraphs == {e \in breaks : /\ e - 1 > start /\ e - 2 \in newlines
                                         /\ e = hardEnd \/ e \notin newlines}
<1>1. breaks \in SUBSET (0..hardEnd) /\ paragraphs \in SUBSET (0..hardEnd)
      /\ breaks \subseteq (start + 1)..hardEnd /\ paragraphs \subseteq (start + 1)..hardEnd
  OBVIOUS
<1>2. Boundary(newlines, start, hardEnd) = IF paragraphs # {} THEN Max(paragraphs)
                                           ELSE IF breaks # {} THEN Max(breaks) ELSE hardEnd
  BY DEF Boundary
<1> HIDE DEF breaks, paragraphs
<1>3. paragraphs # {} => Max(paragraphs) \in paragraphs
  BY <1>1, GreatestOne
<1>4. breaks # {} => Max(breaks) \in breaks
  BY <1>1, GreatestOne
<1>5. hardEnd \in (start + 1)..hardEnd
  OBVIOUS
<1> QED BY <1>1, <1>2, <1>3, <1>4, <1>5

LEMMA RoomTyped ==
  /\ \A b \in BOOLEAN : Room(b) \in Nat
  /\ Room(FALSE) <= Room(TRUE)
  /\ \A b \in BOOLEAN : Room(b) # 0 =>
        HeaderChars + Room(b) + (IF b THEN 0 ELSE SeparatorChars) = MaxPassageChars
<1>1. MaxPassageChars \in Nat /\ HeaderChars \in Nat /\ SeparatorChars \in Nat
  BY PackerAssumption
<1>2. Room(TRUE) = IF HeaderChars + 0 < MaxPassageChars THEN MaxPassageChars - (HeaderChars + 0) ELSE 0
  BY DEF Room
<1>3. Room(FALSE) = IF HeaderChars + SeparatorChars < MaxPassageChars
                    THEN MaxPassageChars - (HeaderChars + SeparatorChars) ELSE 0
  BY DEF Room
<1> DEFINE h == HeaderChars
           s == SeparatorChars
           m == MaxPassageChars
           r == Room(TRUE)
           q == Room(FALSE)
<1>6. m \in Nat /\ h \in Nat /\ s \in Nat /\ r = (IF h + 0 < m THEN m - (h + 0) ELSE 0)
      /\ q = (IF h + s < m THEN m - (h + s) ELSE 0)
  BY <1>1, <1>2, <1>3
<1> HIDE DEF h, s, m, r, q
<1>7. /\ r \in Nat /\ q \in Nat /\ q <= r
      /\ r # 0 => h + r + 0 = m
      /\ q # 0 => h + q + s = m
  BY <1>6
<1>4. /\ Room(TRUE) \in Nat /\ Room(FALSE) \in Nat /\ Room(FALSE) <= Room(TRUE)
      /\ Room(TRUE) # 0 => HeaderChars + Room(TRUE) + 0 = MaxPassageChars
      /\ Room(FALSE) # 0 => HeaderChars + Room(FALSE) + SeparatorChars = MaxPassageChars
  BY <1>7 DEF h, s, m, r, q
<1>5. \A b \in BOOLEAN : b = TRUE \/ b = FALSE
  OBVIOUS
<1> QED BY <1>4, <1>5

LEMMA BothFit ==
  ASSUME NEW S, \A x \in S : x.size \in Nat,
         NEW a \in Seq(S), NEW b \in Seq(S), NEW first \in BOOLEAN,
         Fits(a, first), Fits(b, first /\ a = <<>>)
  PROVE  /\ a \o b \in Seq(S) /\ Fits(a \o b, first) /\ ShownBy(a \o b) = ShownBy(a) \cup ShownBy(b)
         /\ \A x \in ToSet(a \o b) : x \in ToSet(a) \/ x \in ToSet(b)
<1> DEFINE c == a \o b
<1>1. c \in Seq(S) /\ Len(c) = Len(a) + Len(b) /\ Len(a) \in Nat /\ Len(b) \in Nat
      /\ DOMAIN c = 1..Len(c) /\ DOMAIN a = 1..Len(a) /\ DOMAIN b = 1..Len(b)
  OBVIOUS
<1>2. \A j \in 1..Len(c) : c[j] = IF j <= Len(a) THEN a[j] ELSE b[j - Len(a)]
  BY <1>1
<1>3. \A j \in 1..Len(c) : (j <= Len(a) => j \in 1..Len(a)) /\ (j > Len(a) => j - Len(a) \in 1..Len(b))
  BY <1>1
<1>7. \A j \in 1..Len(c) : (j \in 1..Len(a) /\ c[j] = a[j])
                           \/ (j - Len(a) \in 1..Len(b) /\ c[j] = b[j - Len(a)] /\ j > Len(a))
  BY <1>1, <1>2, <1>3
<1>8. \A j \in 1..Len(a) : j \in 1..Len(c) /\ c[j] = a[j]
  BY <1>1, <1>2
<1>9. \A j \in 1..Len(b) : j + Len(a) \in 1..Len(c) /\ c[j + Len(a)] = b[j]
  <2> SUFFICES ASSUME NEW j \in 1..Len(b) PROVE j + Len(a) \in 1..Len(c) /\ c[j + Len(a)] = b[j]
    OBVIOUS
  <2>1. j + Len(a) \in 1..Len(c) /\ ~(j + Len(a) <= Len(a)) /\ (j + Len(a)) - Len(a) = j
    BY <1>1
  <2> QED BY <1>2, <2>1
<1> HIDE DEF c
<1>4. Fits(c, first)
  <2> SUFFICES ASSUME NEW j \in 1..Len(c)
               PROVE  c[j].size >= 1 /\ c[j].size <= Room(first /\ j = 1)
    BY <1>1 DEF Fits
  <2>1. CASE j \in 1..Len(a) /\ c[j] = a[j]
    BY <1>1, <2>1 DEF Fits
  <2>2. CASE j - Len(a) \in 1..Len(b) /\ c[j] = b[j - Len(a)] /\ j > Len(a)
    <3> DEFINE i == j - Len(a)
               p == Room((first /\ a = <<>>) /\ i = 1)
               q == Room(first /\ j = 1)
    <3>1. b[i].size >= 1 /\ b[i].size <= p /\ c[j] = b[i]
      BY <1>1, <2>2 DEF Fits
    <3>2. CASE a = <<>>
      <4>1. Len(a) = 0
        BY <3>2
      <4>2. i = j
        BY <1>1, <4>1
      <4>3. p = q
        BY <3>2, <4>2 DEF Room
      <4> HIDE DEF i, p, q
      <4> QED BY <3>1, <4>3 DEF q
    <3>3. CASE a # <<>>
      <4>1. Len(a) # 0 /\ j # 1
        BY <1>1, <2>2, <3>3
      <4>2. p = q
        BY <3>3, <4>1 DEF Room
      <4> HIDE DEF i, p, q
      <4> QED BY <3>1, <4>2 DEF q
    <3> QED BY <3>2, <3>3
  <2> QED BY <1>7, <2>1, <2>2
<1>5. ShownBy(c) = ShownBy(a) \cup ShownBy(b)
  BY <1>1, <1>7, <1>8, <1>9 DEF ShownBy
<1>6. \A x \in ToSet(c) : x \in ToSet(a) \/ x \in ToSet(b)
  BY <1>1, <1>7 DEF ToSet
<1> QED BY <1>1, <1>4, <1>5, <1>6 DEF c

LEMMA OneFits ==
  ASSUME NEW S, NEW x \in S, NEW first \in BOOLEAN, x.size \in Nat, x.size >= 1, x.size <= Room(first)
  PROVE  <<x>> \in Seq(S) /\ Fits(<<x>>, first) /\ ShownBy(<<x>>) = x.shows
<1>1. DOMAIN <<x>> = {1} /\ <<x>>[1] = x
  OBVIOUS
<1>2. (first /\ 1 = 1) = first
  OBVIOUS
<1> QED BY <1>1, <1>2 DEF Fits, ShownBy

(* Prose is all in the passages that it is cut into, unless there is no room. *)
LEMMA PlainHolds ==
  ASSUME NEW t \in Texts, NEW from \in Nat, NEW to \in Nat, from <= to, NEW first \in BOOLEAN
  PROVE  PlainGood(t, from, to, first)
<1> DEFINE RoomAt(start)  == Room(first /\ start = from)
           HardEnd(start) == Least(to, start + RoomAt(start))
           Stop(start)    == IF HardEnd(start) = to THEN to
                             ELSE Boundary(Newlines(t), start, HardEnd(start))
           Again(start)   == IF Stop(start) < HardEnd(start) THEN 0
                             ELSE Least(Overlap, Stop(start) - start - 1)
           Here(start)    == <<[shows |-> start..(Stop(start) - 1), size |-> Stop(start) - start]>>
           D == [candidates : Seq(Passages), omitted : BOOLEAN]
           Walked(start, w) ==
             IF start = to THEN [candidates |-> <<>>, omitted |-> FALSE]
             ELSE IF RoomAt(start) = 0 THEN [candidates |-> <<>>, omitted |-> TRUE]
             ELSE IF Stop(start) = to THEN [candidates |-> Here(start), omitted |-> FALSE]
             ELSE [candidates |-> Here(start) \o w[Stop(start) - Again(start)].candidates,
                   omitted |-> w[Stop(start) - Again(start)].omitted]
           W == CHOOSE w : w = [start \in from..to |-> Walked(start, w)]
           p == PlainCandidates(t, from, to, first)
<1>1. p = [candidates |-> W[from].candidates, omitted |-> W[from].omitted, said |-> {}]
  BY DEF PlainCandidates
<1>2. Room(TRUE) \in Nat /\ Room(FALSE) \in Nat /\ Room(FALSE) <= Room(TRUE)
  BY RoomTyped
<1>3. \A start : RoomAt(start) \in Nat /\ (RoomAt(start) = Room(first) \/ RoomAt(start) = Room(FALSE))
                 /\ (start = from => RoomAt(start) = Room(first))
                 /\ (start # from => RoomAt(start) = Room(FALSE))
  BY <1>2 DEF Room
<1> HIDE DEF RoomAt, p
<1>4. ASSUME NEW start \in from..to, start # to, RoomAt(start) # 0
      PROVE  /\ Stop(start) \in (start + 1)..to /\ Stop(start) - start <= RoomAt(start)
             /\ Stop(start) # to => Stop(start) - Again(start) \in (start + 1)..to
                                    /\ Stop(start) - Again(start) <= Stop(start)
  <2> DEFINE h == HardEnd(start)
             s == Stop(start)
             r == RoomAt(start)
             a == Again(start)
             o == Overlap
  <2>1. r \in Nat /\ r # 0 /\ start \in Nat /\ start < to /\ o \in Nat
    <3>1. r \in Nat
      BY <1>3
    <3>2. r # 0
      BY <1>4
    <3>3. start \in Nat /\ start < to
      BY <1>4
    <3>4. o \in Nat
      BY PackerAssumption
    <3> QED BY <3>1, <3>2, <3>3, <3>4
  <2>2. h = Least(to, start + r)
    OBVIOUS
  <2>3. s = to \/ s = Boundary(Newlines(t), start, h)
    OBVIOUS
  <2>4. h = to => s = to
    OBVIOUS
  <2>5. a = IF s < h THEN 0 ELSE Least(o, s - start - 1)
    OBVIOUS
  <2>12. h # to => s = Boundary(Newlines(t), start, h)
    OBVIOUS
  <2> HIDE DEF h, s, r, a, o, HardEnd, Stop, Again
  <2>6. h \in Nat /\ start < h /\ h <= to /\ h - start <= r
    BY <2>1, <2>2 DEF Least
  <2>7. Boundary(Newlines(t), start, h) \in (start + 1)..h
    BY <2>1, <2>6, BoundaryBetween
  <2>8. s \in (start + 1)..h
    BY <2>1, <2>4, <2>6, <2>7, <2>12
  <2>9. s \in (start + 1)..to /\ s - start <= r
    BY <2>1, <2>6, <2>8
  <2>10. a \in Nat /\ a <= s - start - 1
    BY <2>1, <2>5, <2>8 DEF Least
  <2>11. s - a \in (start + 1)..to /\ s - a <= s
    BY <2>9, <2>10
  <2> QED BY <2>9, <2>11 DEF s, r, a
<1> HIDE DEF HardEnd, Stop, Again
<1>5. ASSUME NEW start \in from..to, start # to, RoomAt(start) # 0
      PROVE  Here(start) \in Seq(Passages)
  <2>1. Stop(start) \in (start + 1)..to /\ start \in Nat
    BY <1>4, <1>5
  <2>2. [shows |-> start..(Stop(start) - 1), size |-> Stop(start) - start] \in Passages
    BY <2>1 DEF Passages
  <2> QED BY <2>2
<1> HIDE DEF Here
<1>6. \E w \in [from..to -> D] : w = [start \in from..to |-> Walked(start, w)]
  <2> DEFINE base == [s \in from..to |-> IF s = to THEN [candidates |-> <<>>, omitted |-> FALSE]
                                         ELSE IF RoomAt(s) = 0 THEN [candidates |-> <<>>, omitted |-> TRUE]
                                         ELSE [candidates |-> Here(s), omitted |-> FALSE]]
             stop == [s \in from..to |-> s = to \/ RoomAt(s) = 0 \/ Stop(s) = to]
             nx == [s \in from..to |-> IF stop[s] THEN 0 ELSE Stop(s) - Again(s)]
             st == [s \in from..to |-> [d \in D |->
                       IF stop[s] THEN d
                       ELSE [candidates |-> Here(s) \o d.candidates, omitted |-> d.omitted]]]
  <2>1. base \in [from..to -> D]
    <3>1. <<>> \in Seq(Passages)
      OBVIOUS
    <3> QED BY <1>5, <3>1
  <2>2. stop \in [from..to -> BOOLEAN]
    OBVIOUS
  <2>3. \A s \in from..to : ~stop[s] => s # to /\ RoomAt(s) # 0 /\ Stop(s) # to
    OBVIOUS
  <2>11. \A s \in from..to : stop[s] => s = to \/ RoomAt(s) = 0 \/ Stop(s) = to
    OBVIOUS
  <2> HIDE DEF stop
  <2>4. \A s \in from..to : ~stop[s] => nx[s] \in (s + 1)..to /\ nx[s] = Stop(s) - Again(s)
    BY <1>4, <2>3
  <2>5. nx \in [from..to -> Nat]
    <3>1. \A s \in from..to : nx[s] \in Nat
      <4> SUFFICES ASSUME NEW s \in from..to PROVE nx[s] \in Nat
        OBVIOUS
      <4>1. CASE stop[s]
        BY <4>1
      <4>2. CASE ~stop[s]
        BY <2>4, <4>2
      <4> QED BY <4>1, <4>2
    <3> QED BY <3>1
  <2>6. st \in [from..to -> [D -> D]]
    <3>1. ASSUME NEW s \in from..to, NEW d \in D, ~stop[s]
          PROVE  [candidates |-> Here(s) \o d.candidates, omitted |-> d.omitted] \in D
      <4>1. Here(s) \in Seq(Passages) /\ d.candidates \in Seq(Passages)
        BY <1>5, <2>3, <3>1
      <4>2. Here(s) \o d.candidates \in Seq(Passages)
        BY <4>1
      <4> QED BY <4>2
    <3> HIDE DEF D
    <3> QED BY <3>1
  <2>12. \E w : Descends(w, from, to, D, base, stop, nx, st)
    <3> HIDE DEF D, base, nx, st, Walked
    <3>1. \A s \in from..to : ~stop[s] => nx[s] \in (s + 1)..to
      BY <2>4
    <3> QED BY <2>1, <2>2, <2>5, <2>6, <3>1, DescentExists
  <2>7. PICK w \in [from..to -> D] :
            w = [s \in from..to |-> IF stop[s] THEN base[s] ELSE st[s][w[nx[s]]]]
    <3> HIDE DEF D, base, nx, st
    <3> QED BY <2>12 DEF Descends
  <2>8. ASSUME NEW s \in from..to
        PROVE  (IF stop[s] THEN base[s] ELSE st[s][w[nx[s]]]) = Walked(s, w)
    <3>1. CASE stop[s]
      BY <2>11, <3>1
    <3>2. CASE ~stop[s]
      <4>1. nx[s] \in from..to /\ nx[s] = Stop(s) - Again(s)
        <5>1. nx[s] \in (s + 1)..to /\ s \in Nat /\ s >= from
          BY <2>4, <3>2
        <5> QED BY <2>4, <3>2, <5>1
      <4>2. w[nx[s]] \in D
        BY <4>1
      <4> HIDE DEF D, nx
      <4>3. st[s][w[nx[s]]] = [candidates |-> Here(s) \o w[nx[s]].candidates, omitted |-> w[nx[s]].omitted]
        BY <3>2, <4>2
      <4> HIDE DEF st
      <4> QED BY <2>3, <3>2, <4>1, <4>3
    <3> QED BY <3>1, <3>2
  <2> HIDE DEF Walked
  <2>9. w = [s \in from..to |-> Walked(s, w)]
    BY <2>7, <2>8
  <2> QED BY <2>9
<1>7. W = [start \in from..to |-> Walked(start, W)]
  <2> HIDE DEF Walked
  <2> QED BY <1>6
<1> HIDE DEF W
<1> DEFINE Good(s) == /\ W[s] \in D
                      /\ Fits(W[s].candidates, first /\ s = from)
                      /\ ~W[s].omitted => s..(to - 1) \subseteq ShownBy(W[s].candidates)
                      /\ W[s].omitted => Room(first) = 0 \/ Room(FALSE) = 0
           T == {m \in Nat : \A s \in from..to : to - s <= m => Good(s)}
<1>8. ASSUME NEW s \in from..to, \A n \in (s + 1)..to : Good(n)
      PROVE  Good(s)
  <2>1. W[s] = Walked(s, W)
    BY <1>7
  <2>2. s \in Nat /\ (first /\ s = from) \in BOOLEAN
    OBVIOUS
  <2>3. CASE s = to \/ RoomAt(s) = 0
    <3>1. W[s].candidates = <<>> /\ W[s] \in D
      BY <2>1, <2>3
    <3>2. Fits(<<>>, first /\ s = from)
      BY DEF Fits
    <3>3. W[s].omitted => RoomAt(s) = 0
      BY <2>1, <2>3
    <3>4. ~W[s].omitted => s = to
      BY <2>1, <2>3
    <3>5. W[s].omitted => Room(first) = 0 \/ Room(FALSE) = 0
      BY <1>3, <3>3
    <3>6. s = to => s..(to - 1) = {}
      BY <2>2
    <3> QED BY <3>1, <3>2, <3>4, <3>5, <3>6
  <2>4. CASE s # to /\ RoomAt(s) # 0
    <3> DEFINE e == Stop(s)
               h == [shows |-> s..(e - 1), size |-> e - s]
    <3>1. e \in (s + 1)..to /\ e - s <= RoomAt(s)
      BY <1>4, <2>4
    <3>2. h \in Passages /\ Here(s) = <<h>>
      BY <2>2, <3>1 DEF Passages, Here
    <3>3. h.size \in Nat /\ h.size >= 1 /\ h.size <= Room(first /\ s = from) /\ h.shows = s..(e - 1)
      BY <2>2, <3>1 DEF RoomAt
    <3> HIDE DEF h
    <3>4. Here(s) \in Seq(Passages) /\ Fits(Here(s), first /\ s = from) /\ ShownBy(Here(s)) = s..(e - 1)
      BY <2>2, <3>2, <3>3, OneFits
    <3>5. CASE e = to
      <4>1. W[s] = [candidates |-> Here(s), omitted |-> FALSE]
        BY <2>1, <2>4, <3>5
      <4> QED BY <3>4, <3>5, <4>1
    <3>6. CASE e # to
      <4> DEFINE n == e - Again(s)
      <4>1. n \in (s + 1)..to /\ n <= e
        BY <1>4, <2>4, <3>6
      <4>2. W[s] = [candidates |-> Here(s) \o W[n].candidates, omitted |-> W[n].omitted]
        BY <2>1, <2>4, <3>6
      <4> HIDE DEF n
      <4>3. n # from /\ n \in from..to
        BY <4>1
      <4>4. Good(n)
        BY <1>8, <4>1
      <4>5. W[n].candidates \in Seq(Passages) /\ W[n].omitted \in BOOLEAN
        BY <4>4
      <4>6. Fits(W[n].candidates, (first /\ s = from) /\ Here(s) = <<>>)
        <5>1. Fits(W[n].candidates, first /\ n = from)
          BY <4>4
        <5>2. \A j : Room((first /\ n = from) /\ j = 1) = Room(FALSE)
          BY <4>3 DEF Room
        <5>3. Here(s) # <<>>
          BY <3>2
        <5>4. \A j : Room(((first /\ s = from) /\ Here(s) = <<>>) /\ j = 1) = Room(FALSE)
          BY <5>3 DEF Room
        <5> QED BY <5>1, <5>2, <5>4 DEF Fits
      <4>7. \A x \in Passages : x.size \in Nat
        BY DEF Passages
      <4> DEFINE c == Here(s) \o W[n].candidates
      <4>8. c \in Seq(Passages) /\ Fits(c, first /\ s = from)
            /\ ShownBy(c) = ShownBy(Here(s)) \cup ShownBy(W[n].candidates)
        <5> DEFINE b == first /\ s = from
        <5> HIDE DEF b
        <5> DEFINE x == Here(s)
                   y == W[n].candidates
        <5>1. b \in BOOLEAN /\ Fits(x, b) /\ Fits(y, b /\ x = <<>>)
          BY <3>4, <4>6, <2>2 DEF b
        <5>3. x \in Seq(Passages) /\ y \in Seq(Passages)
          BY <3>4, <4>5
        <5> HIDE DEF x, y, c
        <5>2. Fits(x \o y, b) /\ x \o y \in Seq(Passages) /\ ShownBy(x \o y) = ShownBy(x) \cup ShownBy(y)
          BY <4>7, <5>1, <5>3, BothFit
        <5> QED BY <5>2 DEF b, c, x, y
      <4> HIDE DEF c
      <4>9. W[s].candidates = c /\ W[s].omitted = W[n].omitted /\ W[s] \in D
        BY <4>2, <4>5, <4>8 DEF c
      <4>10. s..(to - 1) \subseteq (s..(e - 1)) \cup (n..(to - 1))
        BY <2>2, <3>1, <4>1
      <4> HIDE DEF D
      <4> QED BY <3>4, <4>4, <4>8, <4>9, <4>10
    <3> QED BY <3>5, <3>6
  <2> QED BY <2>3, <2>4
<1>9. 0 \in T
  <2> SUFFICES ASSUME NEW s \in from..to, to - s <= 0 PROVE Good(s)
    OBVIOUS
  <2>1. (s + 1)..to = {}
    OBVIOUS
  <2> HIDE DEF Good
  <2> QED BY <1>8, <2>1
<1>10. ASSUME NEW m \in Nat, m \in T PROVE m + 1 \in T
  <2> HIDE DEF Good
  <2> SUFFICES ASSUME NEW s \in from..to, to - s <= m + 1 PROVE Good(s)
    OBVIOUS
  <2>1. \A n \in (s + 1)..to : n \in from..to /\ to - n <= m
    OBVIOUS
  <2> QED BY <1>8, <1>10, <2>1
<1>11. Good(from)
  <2> HIDE DEF Good, T
  <2>1. \A m \in Nat : m \in T
    BY <1>9, <1>10, SetInduction
  <2>2. to - from \in T /\ from \in from..to /\ to - from <= to - from
    BY <2>1
  <2> QED BY <2>2 DEF T
<1>12. p.candidates = W[from].candidates /\ p.omitted = W[from].omitted /\ p.said = {}
  BY <1>1
<1>13. Fits(W[from].candidates, first)
  <2>1. (first /\ from = from) = first
    OBVIOUS
  <2> QED BY <1>11, <2>1
<1>14. Good(from) => W[from].candidates \in Seq(Passages) /\ W[from].omitted \in BOOLEAN
  OBVIOUS
<1> HIDE DEF W
<1> QED BY <1>11, <1>12, <1>13, <1>14 DEF p, PlainGood

-------------------------------------------------------------------------------
(* Packing: tables.                                                            *)

(* The rows of a table end where its text does, or before.                     *)
LEMMA RowEndIs ==
  ASSUME NEW t \in Texts, NEW i \in TablesAt(t)
  PROVE  /\ i \in 1..Len(t) /\ i + 1 \in 1..Len(t) /\ i + 2 \in 1..Len(t)
         /\ RowEnd(t, i) \in (i + 2)..Len(t)
<1> DEFINE n == Len(t)
           S == {j \in (i + 2)..n : \A k \in (i + 2)..j : Piped(t, k)}
<1>1. n \in Nat /\ i \in 1..n /\ i + 2 \in 1..n /\ Piped(t, i + 2)
  BY DEF TablesAt, Texts
<1> HIDE DEF n
<1>2. i + 2 \in S /\ S \in SUBSET (0..n)
  <2>1. (i + 2)..(i + 2) = {i + 2} /\ i + 2 \in (i + 2)..n
    BY <1>1
  <2> QED BY <1>1, <2>1
<1>3. Max(S) \in S /\ \A x \in S : x <= Max(S)
  <2> HIDE DEF S
  <2> QED BY <1>1, <1>2, GreatestOne
<1>4. Max(S) = n \/ ~Piped(t, Max(S) + 1)
  <2> SUFFICES ASSUME Max(S) # n, Piped(t, Max(S) + 1) PROVE FALSE
    OBVIOUS
  <2> DEFINE m == Max(S)
  <2>1. m \in (i + 2)..n /\ \A k \in (i + 2)..m : Piped(t, k)
    BY <1>3
  <2> HIDE DEF m
  <2>2. m + 1 \in (i + 2)..n /\ \A k \in (i + 2)..(m + 1) : k \in (i + 2)..m \/ k = m + 1
    BY <1>1, <2>1 DEF m
  <2>3. m + 1 \in S
    BY <2>1, <2>2 DEF m
  <2>4. m + 1 <= m /\ m \in Nat
    BY <1>1, <1>3, <2>1, <2>3 DEF m
  <2> QED BY <2>4
<1>5. \E j \in (i + 2)..n : /\ \A k \in (i + 2)..j : Piped(t, k)
                            /\ j = n \/ ~Piped(t, j + 1)
  BY <1>3, <1>4
<1>6. RowEnd(t, i) \in (i + 2)..n
  BY <1>5 DEF RowEnd, n
<1> QED BY <1>1, <1>6 DEF n

LEMMA CharactersTyped ==
  ASSUME NEW t \in Texts, NEW lines \in SUBSET (1..Len(t))
  PROVE  Characters(t, lines) \in SUBSET Nat
<1>1. \A i \in lines : LineStart(t, i)..(LineEnd(t, i) - 1) \subseteq Nat
  BY StartOfLine
<1> QED BY <1>1 DEF Characters

(* What stands under a header has a size, and not none.                        *)
LEMMA SizeUnderTyped ==
  ASSUME NEW t \in Texts, NEW head \in TablesAt(t), NEW rows \in Seq(1..Len(t))
  PROVE  SizeUnder(t, head, rows) \in Nat \ {0}
<1> DEFINE a == <<t[head], t[head + 1]>>
           b == [k \in DOMAIN rows |-> t[rows[k]]]
           u == a \o b
<1>1. head \in 1..Len(t) /\ head + 1 \in 1..Len(t)
  BY RowEndIs
<1>2. a \in Texts /\ Len(a) = 2
  BY <1>1, LineTyped DEF Texts
<1>3. b \in Texts
  <2>1. Len(rows) \in Nat /\ DOMAIN rows = 1..Len(rows) /\ \A k \in 1..Len(rows) : rows[k] \in 1..Len(t)
    OBVIOUS
  <2>2. \A k \in 1..Len(rows) : t[rows[k]] \in Lines
    BY <2>1, LineTyped
  <2>3. b = [k \in 1..Len(rows) |-> t[rows[k]]]
    BY <2>1
  <2> QED BY <2>1, <2>2, <2>3 DEF Texts
<1> HIDE DEF a, b
<1>4. u \in Texts /\ Len(u) >= 2 /\ Len(u) \in Nat
  <2>1. a \in Seq(Lines) /\ b \in Seq(Lines)
    BY <1>2, <1>3 DEF Texts
  <2>3. Len(a \o b) = Len(a) + Len(b)
    BY <2>1
  <2>4. a \o b \in Seq(Lines)
    BY <2>1
  <2>5. Len(b) \in Nat
    BY <2>1
  <2>2. Len(u) = 2 + Len(b) /\ Len(b) \in Nat /\ u \in Seq(Lines)
    BY <1>2, <2>3, <2>4, <2>5
  <2> QED BY <2>2 DEF Texts
<1> HIDE DEF u
<1>5. 1 \in 1..Len(u) /\ Len(u) \in 1..Len(u) /\ 1 < Len(u) /\ u # <<>>
  BY <1>4
<1>6. LineEnd(u, 1) < LineStart(u, Len(u)) /\ LineEnd(u, 1) \in Nat
  BY <1>4, <1>5, LinesInOrder, StartOfLine
<1>7. LineStart(u, Len(u)) \in Nat /\ LineEnd(u, Len(u)) = LineStart(u, Len(u)) + u[Len(u)].size
      /\ u[Len(u)].size \in Nat
  BY <1>4, <1>5, StartOfLine
<1>8. SizeUnder(t, head, rows) = LineEnd(u, Len(u))
  BY <1>5 DEF SizeUnder, Chars, u, a, b
<1> QED BY <1>6, <1>7, <1>8

LEMMA ShownUnderTyped ==
  ASSUME NEW t \in Texts, NEW head \in TablesAt(t), NEW rows \in Seq(1..Len(t))
  PROVE  ShownUnder(t, head, rows) \in Passages
<1>1. head \in 1..Len(t) /\ head + 1 \in 1..Len(t) /\ ToSet(rows) \subseteq 1..Len(t)
  BY RowEndIs DEF ToSet
<1>2. Characters(t, {head, head + 1} \cup ToSet(rows)) \in SUBSET Nat
  BY <1>1, CharactersTyped
<1> QED BY <1>2, SizeUnderTyped DEF ShownUnder, Passages

LEMMA LeaveOutIs ==
  ASSUME NEW t \in Texts, NEW s \in TableStates(t), NEW why \in SUBSET Reasons
  PROVE  LeaveOut(s, why) = [candidates |-> s.candidates, omitted |-> TRUE, said |-> s.said \cup why,
                             rows |-> s.rows, first |-> s.first]
<1> DEFINE e == LeaveOut(s, why)
<1>1. e \in TableStates(t)
  BY DEF LeaveOut, TableStates
<1>2. /\ e.candidates = s.candidates
      /\ e.omitted = TRUE /\ e.said = s.said \cup why
      /\ e.rows = s.rows /\ e.first = s.first
  BY DEF LeaveOut, TableStates
<1> HIDE DEF e
<1>3. e = [candidates |-> e.candidates, omitted |-> e.omitted, said |-> e.said,
           rows |-> e.rows, first |-> e.first]
  BY <1>1 DEF TableStates
<1> QED BY <1>2, <1>3 DEF e

LEMMA FlushIs ==
  ASSUME NEW t \in Texts, NEW s \in TableStates(t), NEW head \in TablesAt(t), NEW rows \in Seq(1..Len(t))
  PROVE  Flush(t, head, s, rows)
           = [candidates |-> Append(s.candidates, ShownUnder(t, head, s.rows)), omitted |-> s.omitted,
              said |-> s.said, rows |-> rows, first |-> FALSE]
<1> DEFINE e == Flush(t, head, s, rows)
<1>1. e \in TableStates(t)
  <2>1. ShownUnder(t, head, s.rows) \in Passages
    BY ShownUnderTyped DEF TableStates
  <2>2. Append(s.candidates, ShownUnder(t, head, s.rows)) \in Seq(Passages)
    BY <2>1 DEF TableStates
  <2> QED BY <2>2 DEF Flush, TableStates
<1>2. /\ e.candidates = Append(s.candidates, ShownUnder(t, head, s.rows))
      /\ e.omitted = s.omitted /\ e.said = s.said
      /\ e.rows = rows /\ e.first = FALSE
  BY DEF Flush, TableStates
<1> HIDE DEF e
<1>3. e = [candidates |-> e.candidates, omitted |-> e.omitted, said |-> e.said,
           rows |-> e.rows, first |-> e.first]
  BY <1>1 DEF TableStates
<1> QED BY <1>2, <1>3 DEF e

LEMMA AppendFits ==
  ASSUME NEW S, \A x \in S : x.size \in Nat, NEW a \in Seq(S), NEW x \in S, NEW first \in BOOLEAN,
         NEW f, f = (first /\ a = <<>>), Fits(a, first), x.size >= 1, x.size <= Room(f)
  PROVE  /\ Append(a, x) \in Seq(S) /\ Fits(Append(a, x), first)
         /\ ShownBy(Append(a, x)) = ShownBy(a) \cup x.shows
<1> DEFINE b == <<x>>
<1>1. Append(a, x) = a \o b
  OBVIOUS
<1>2. b \in Seq(S) /\ Fits(b, first /\ a = <<>>) /\ ShownBy(b) = x.shows
  <2>1. f \in BOOLEAN
    OBVIOUS
  <2>2. <<x>> \in Seq(S) /\ Fits(<<x>>, f) /\ ShownBy(<<x>>) = x.shows
    BY <2>1, OneFits
  <2>3. Fits(<<x>>, first /\ a = <<>>)
    BY <2>2 DEF Fits
  <2> QED BY <2>2, <2>3
<1> HIDE DEF b
<1>3. a \o b \in Seq(S) /\ Fits(a \o b, first) /\ ShownBy(a \o b) = ShownBy(a) \cup ShownBy(b)
  BY <1>2, BothFit
<1> QED BY <1>1, <1>2, <1>3

(* A passage with rows of a table shows them, and the header above them.       *)
LEMMA FlushHolds ==
  ASSUME NEW t \in Texts, NEW head \in TablesAt(t), NEW first \in BOOLEAN, NEW done, NEW s,
         Tabled(t, head, first, done, s), s.rows # <<>>, NEW rows \in Seq(1..Len(t)),
         rows # <<>> => SizeUnder(t, head, rows) <= Room(FALSE)
  PROVE  Tabled(t, head, first, done, Flush(t, head, s, rows))
<1> DEFINE x == ShownUnder(t, head, s.rows)
           f == Flush(t, head, s, rows)
           c == Append(s.candidates, x)
<1>1. s \in TableStates(t) /\ s.candidates \in Seq(Passages) /\ s.omitted \in BOOLEAN
      /\ s.said \in SUBSET Reasons /\ s.rows \in Seq(1..Len(t)) /\ s.first \in BOOLEAN
  BY DEF Tabled, TableStates
<1>2. x \in Passages /\ x.size >= 1 /\ x.size <= Room(s.first)
  <2>1. x \in Passages
    BY <1>1, ShownUnderTyped
  <2>2. SizeUnder(t, head, s.rows) \in Nat \ {0}
    BY <1>1, SizeUnderTyped
  <2>3. x.size = SizeUnder(t, head, s.rows)
    BY DEF ShownUnder
  <2>4. SizeUnder(t, head, s.rows) <= Room(s.first) /\ s.first = (first /\ s.candidates = <<>>)
    BY DEF Tabled
  <2> HIDE DEF x
  <2> QED BY <2>1, <2>2, <2>3, <2>4
<1>3. x.shows = Characters(t, {head, head + 1} \cup ToSet(s.rows))
  BY DEF ShownUnder
<1> HIDE DEF x
<1>4. c \in Seq(Passages) /\ Fits(c, first) /\ ShownBy(c) = ShownBy(s.candidates) \cup x.shows
  <2>1. \A p \in Passages : p.size \in Nat
    BY DEF Passages
  <2>2. Fits(s.candidates, first) /\ s.first = (first /\ s.candidates = <<>>)
    BY DEF Tabled
  <2> DEFINE a == s.candidates  g == s.first
  <2>3. a \in Seq(Passages) /\ g = (first /\ a = <<>>) /\ Fits(a, first) /\ x.size <= Room(g)
    BY <1>1, <1>2, <2>2
  <2> HIDE DEF a, g
  <2>4. Append(a, x) \in Seq(Passages) /\ Fits(Append(a, x), first)
        /\ ShownBy(Append(a, x)) = ShownBy(a) \cup x.shows
    <3>1. x \in Passages /\ x.size >= 1
      BY <1>2
    <3> DEFINE P == Passages
    <3>2. /\ x \in P /\ x.size >= 1 /\ x.size <= Room(g) /\ \A y \in P : y.size \in Nat
          /\ a \in Seq(P) /\ g = (first /\ a = <<>>) /\ Fits(a, first)
      BY <2>1, <2>3, <3>1
    <3> HIDE DEF P
    <3>3. Append(a, x) \in Seq(P) /\ Fits(Append(a, x), first)
          /\ ShownBy(Append(a, x)) = ShownBy(a) \cup x.shows
      BY <3>2, AppendFits
    <3> QED BY <3>3 DEF P
  <2> QED BY <2>4 DEF a
<1>5. c # <<>>
  <2> DEFINE a == s.candidates
  <2>1. a \in Seq(Passages)
    BY <1>1
  <2> HIDE DEF a
  <2>2. Len(Append(a, x)) = Len(a) + 1 /\ Len(a) \in Nat
    BY <1>2, <2>1
  <2> HIDE DEF x
  <2>3. Append(a, x) # <<>>
    <3>1. Len(Append(a, x)) # 0 /\ Len(<<>>) = 0
      BY <2>2
    <3> QED BY <3>1
  <2> QED BY <2>3 DEF a
<1> HIDE DEF c
<1>6. f = [candidates |-> c, omitted |-> s.omitted, said |-> s.said, rows |-> rows, first |-> FALSE]
  BY <1>1, FlushIs DEF c, x
<1> HIDE DEF f
<1>7. f \in TableStates(t)
  BY <1>1, <1>4, <1>6 DEF TableStates
<1>8. f.candidates = c /\ f.omitted = s.omitted /\ f.said = s.said /\ f.rows = rows /\ f.first = FALSE
  BY <1>6
<1>9. ASSUME ~s.omitted, NEW row \in done
      PROVE  Characters(t, {head, head + 1, row}) \subseteq ShownBy(c)
  <2>1. CASE row \in ToSet(s.rows)
    <3>1. Characters(t, {head, head + 1, row}) \subseteq x.shows
      BY <1>3, <2>1 DEF Characters
    <3> QED BY <1>4, <3>1
  <2>2. CASE Characters(t, {head, head + 1, row}) \subseteq ShownBy(s.candidates)
    BY <1>4, <2>2
  <2> QED BY <1>9, <2>1, <2>2 DEF Tabled
<1>10. s.omitted => s.said # {}
  BY DEF Tabled
<1>11. f.first = (first /\ f.candidates = <<>>)
  BY <1>5, <1>8
<1>12. f.rows # <<>> => SizeUnder(t, head, f.rows) <= Room(f.first)
  BY <1>8
<1>13. Fits(f.candidates, first) /\ (f.omitted => f.said # {})
  BY <1>4, <1>8, <1>10
<1>14. ~f.omitted => \A row \in done : \/ row \in ToSet(f.rows)
                                      \/ Characters(t, {head, head + 1, row}) \subseteq ShownBy(f.candidates)
  BY <1>8, <1>9
<1>15. Tabled(t, head, first, done, f)
  BY <1>7, <1>11, <1>12, <1>13, <1>14 DEF Tabled
<1> QED BY <1>15 DEF f

(* What is known of a table stays known with its next row. *)
LEMMA AddRowHolds ==
  ASSUME NEW t \in Texts, NEW head \in TablesAt(t), NEW first \in BOOLEAN, NEW done, NEW s,
         Tabled(t, head, first, done, s), NEW row \in 1..Len(t)
  PROVE  Tabled(t, head, first, done \cup {row}, AddRow(t, head, s, row))
<1>1. s \in TableStates(t) /\ s.candidates \in Seq(Passages) /\ s.omitted \in BOOLEAN
      /\ s.said \in SUBSET Reasons /\ s.rows \in Seq(1..Len(t)) /\ s.first \in BOOLEAN
  BY DEF Tabled, TableStates
<1> DEFINE Wide == done \cup {row}
<1>2. ASSUME NEW why \in SUBSET Reasons, why # {}, NEW r, Tabled(t, head, first, done, r)
      PROVE  Tabled(t, head, first, Wide, LeaveOut(r, why))
  <2>1. r \in TableStates(t)
    BY <1>2 DEF Tabled
  <2>2. LeaveOut(r, why) = [candidates |-> r.candidates, omitted |-> TRUE, said |-> r.said \cup why,
                              rows |-> r.rows, first |-> r.first]
    BY <2>1, LeaveOutIs
  <2>3. LeaveOut(r, why) \in TableStates(t)
    <3>1. r.candidates \in Seq(Passages) /\ r.said \cup why \in SUBSET Reasons /\ r.rows \in Seq(1..Len(t))
          /\ r.first \in BOOLEAN
      BY <2>1 DEF TableStates
    <3> QED BY <3>1, <2>2 DEF TableStates
  <2>4. LeaveOut(r, why).candidates = r.candidates /\ LeaveOut(r, why).omitted
        /\ LeaveOut(r, why).said # {} /\ LeaveOut(r, why).rows = r.rows
        /\ LeaveOut(r, why).first = r.first
    <3> DEFINE e == LeaveOut(r, why)
    <3>1. e.candidates = r.candidates /\ e.omitted /\ e.rows = r.rows /\ e.first = r.first
          /\ e.said = r.said \cup why
      BY <2>2
    <3> HIDE DEF e
    <3>2. e.said # {}
      BY <1>2, <3>1
    <3> QED BY <3>1, <3>2 DEF e
  <2> HIDE DEF Wide
  <2> QED BY <1>2, <2>3, <2>4 DEF Tabled
<1>3. SizeUnder(t, head, <<row>>) \in Nat /\ <<row>> \in Seq(1..Len(t))
  <2>1. <<row>> \in Seq(1..Len(t))
    OBVIOUS
  <2> QED BY <2>1, SizeUnderTyped
<1>4. SizeUnder(t, head, Append(s.rows, row)) \in Nat /\ Append(s.rows, row) \in Seq(1..Len(t))
  <2>1. Append(s.rows, row) \in Seq(1..Len(t))
    BY <1>1
  <2> QED BY <2>1, SizeUnderTyped
<1>5. Room(s.first) \in Nat /\ Room(FALSE) \in Nat
  BY <1>1, RoomTyped
<1>6. CASE t[row].kind # "row"
  <2>1. AddRow(t, head, s, row) = LeaveOut(s, {"malformed_table_row_omitted"})
       /\ {"malformed_table_row_omitted"} \in SUBSET Reasons
    BY <1>6 DEF AddRow, Reasons
  <2> QED BY <1>2, <2>1
<1>7. CASE t[row].kind = "row" /\ SizeUnder(t, head, <<row>>) > Room(s.first)
  <2>1. AddRow(t, head, s, row) = LeaveOut(s, {"oversized_table_row_omitted"})
       /\ {"oversized_table_row_omitted"} \in SUBSET Reasons
    BY <1>7 DEF AddRow, Reasons
  <2> QED BY <1>2, <2>1
<1>8. CASE /\ t[row].kind = "row" /\ ~(SizeUnder(t, head, <<row>>) > Room(s.first))
           /\ SizeUnder(t, head, Append(s.rows, row)) <= Room(s.first)
  <2> DEFINE r == [s EXCEPT !.rows = Append(s.rows, row)]
  <2>1. AddRow(t, head, s, row) = r
    BY <1>8 DEF AddRow
  <2>2. r \in TableStates(t) /\ r.candidates = s.candidates /\ r.omitted = s.omitted /\ r.said = s.said
        /\ r.first = s.first /\ r.rows = Append(s.rows, row)
    BY <1>1, <1>4 DEF TableStates
  <2> HIDE DEF r
  <2>3. ToSet(r.rows) = ToSet(s.rows) \cup {row}
    <3>1. Len(s.rows) \in Nat /\ DOMAIN s.rows = 1..Len(s.rows)
          /\ Len(r.rows) = Len(s.rows) + 1 /\ DOMAIN r.rows = 1..(Len(s.rows) + 1)
          /\ (\A k \in 1..Len(s.rows) : r.rows[k] = s.rows[k]) /\ r.rows[Len(s.rows) + 1] = row
      BY <1>1, <1>4, <2>2
    <3>2. \A k \in 1..(Len(s.rows) + 1) : k \in 1..Len(s.rows) \/ k = Len(s.rows) + 1
      BY <3>1
    <3>3. (\A k \in 1..Len(s.rows) : k \in 1..(Len(s.rows) + 1)) /\ Len(s.rows) + 1 \in 1..(Len(s.rows) + 1)
      BY <3>1
    <3> QED BY <3>1, <3>2, <3>3 DEF ToSet
  <2>4. SizeUnder(t, head, r.rows) <= Room(r.first)
    BY <1>8, <2>2
  <2> QED BY <2>1, <2>2, <2>3, <2>4 DEF Tabled
<1>9. CASE /\ t[row].kind = "row" /\ ~(SizeUnder(t, head, <<row>>) > Room(s.first))
           /\ ~(SizeUnder(t, head, Append(s.rows, row)) <= Room(s.first))
  <2>1. s.rows # <<>>
    <3>1. s.rows = <<>> => Append(s.rows, row) = <<row>>
      BY <1>1
    <3> DEFINE a == SizeUnder(t, head, <<row>>)  b == Room(s.first)
    <3>2. a \in Nat /\ b \in Nat /\ ~(a > b)
      BY <1>3, <1>5, <1>9
    <3>3. s.rows = <<>> => ~(a <= b)
      BY <1>9, <3>1
    <3> HIDE DEF a, b
    <3> QED BY <3>2, <3>3
  <2>2. CASE SizeUnder(t, head, <<row>>) > Room(FALSE)
    <3>1. AddRow(t, head, s, row) = LeaveOut(Flush(t, head, s, <<>>), {"oversized_table_row_omitted"})
      BY <1>9, <2>2 DEF AddRow
    <3>2. Tabled(t, head, first, done, Flush(t, head, s, <<>>))
      <4>1. <<>> \in Seq(1..Len(t))
        OBVIOUS
      <4> QED BY <2>1, <4>1, FlushHolds
    <3>3. {"oversized_table_row_omitted"} \in SUBSET Reasons
      BY DEF Reasons
    <3> QED BY <1>2, <3>1, <3>2, <3>3
  <2>3. CASE ~(SizeUnder(t, head, <<row>>) > Room(FALSE))
    <3> DEFINE r == Flush(t, head, s, <<row>>)
    <3>1. AddRow(t, head, s, row) = r
      BY <1>9, <2>3 DEF AddRow
    <3>2. SizeUnder(t, head, <<row>>) <= Room(FALSE)
      <4> DEFINE a == SizeUnder(t, head, <<row>>)  b == Room(FALSE)
      <4>1. a \in Nat /\ b \in Nat /\ ~(a > b)
        BY <1>3, <1>5, <2>3
      <4> HIDE DEF a, b
      <4>2. a <= b
        BY <4>1
      <4> QED BY <4>2 DEF a, b
    <3>3. Tabled(t, head, first, done, r)
      BY <1>3, <2>1, <3>2, FlushHolds
    <3>4. r.rows = <<row>>
      <4> DEFINE d == Append(s.candidates, ShownUnder(t, head, s.rows))
      <4>2. r = [candidates |-> d, omitted |-> s.omitted, said |-> s.said, rows |-> <<row>>, first |-> FALSE]
        BY <1>1, <1>3, FlushIs
      <4> HIDE DEF r, d
      <4>3. r.rows = <<row>>
        BY <4>2
      <4> QED BY <4>3
    <3> HIDE DEF r
    <3>5. row \in ToSet(r.rows)
      BY <3>4 DEF ToSet
    <3> QED BY <3>1, <3>3, <3>5 DEF Tabled
  <2> QED BY <2>2, <2>3
<1> QED BY <1>6, <1>7, <1>8, <1>9

LEMMA AddRowTyped ==
  ASSUME NEW t \in Texts, NEW head \in TablesAt(t), NEW s \in TableStates(t), NEW row \in 1..Len(t)
  PROVE  AddRow(t, head, s, row) \in TableStates(t)
<1>1. s.candidates \in Seq(Passages) /\ s.omitted \in BOOLEAN
      /\ s.said \in SUBSET Reasons /\ s.rows \in Seq(1..Len(t)) /\ s.first \in BOOLEAN
  BY DEF TableStates
<1>2. \A why \in SUBSET Reasons : \A r \in TableStates(t) : LeaveOut(r, why) \in TableStates(t)
  <2> SUFFICES ASSUME NEW why \in SUBSET Reasons, NEW r \in TableStates(t)
               PROVE  LeaveOut(r, why) \in TableStates(t)
    OBVIOUS
  <2>1. r.candidates \in Seq(Passages) /\ r.said \cup why \in SUBSET Reasons /\ r.rows \in Seq(1..Len(t))
        /\ r.first \in BOOLEAN
    BY DEF TableStates
  <2> DEFINE e == LeaveOut(r, why)
  <2>2. e = [candidates |-> r.candidates, omitted |-> TRUE, said |-> r.said \cup why,
             rows |-> r.rows, first |-> r.first]
    BY LeaveOutIs
  <2> HIDE DEF e
  <2>3. e \in TableStates(t)
    BY <2>1, <2>2 DEF TableStates
  <2> QED BY <2>3 DEF e
<1>3. <<row>> \in Seq(1..Len(t)) /\ <<>> \in Seq(1..Len(t)) /\ Append(s.rows, row) \in Seq(1..Len(t))
  BY <1>1
<1>4. ASSUME NEW rows \in Seq(1..Len(t)) PROVE Flush(t, head, s, rows) \in TableStates(t)
  <2>1. ShownUnder(t, head, s.rows) \in Passages
    BY <1>1, ShownUnderTyped
  <2>2. Append(s.candidates, ShownUnder(t, head, s.rows)) \in Seq(Passages)
    BY <1>1, <2>1
  <2> DEFINE e == Flush(t, head, s, rows)
             c == Append(s.candidates, ShownUnder(t, head, s.rows))
  <2>3. e = [candidates |-> c, omitted |-> s.omitted, said |-> s.said, rows |-> rows, first |-> FALSE]
    BY FlushIs
  <2> HIDE DEF e, c
  <2>4. e \in TableStates(t)
    BY <1>1, <2>2, <2>3 DEF TableStates, c
  <2> QED BY <2>4 DEF e
<1>5. [s EXCEPT !.rows = Append(s.rows, row)] \in TableStates(t)
  BY <1>1, <1>3 DEF TableStates
<1>6. {"malformed_table_row_omitted"} \in SUBSET Reasons /\ {"oversized_table_row_omitted"} \in SUBSET Reasons
  BY DEF Reasons
<1>7. /\ LeaveOut(s, {"malformed_table_row_omitted"}) \in TableStates(t)
      /\ LeaveOut(s, {"oversized_table_row_omitted"}) \in TableStates(t)
      /\ LeaveOut(Flush(t, head, s, <<>>), {"oversized_table_row_omitted"}) \in TableStates(t)
  BY <1>2, <1>3, <1>4, <1>6
<1>8. Flush(t, head, s, <<row>>) \in TableStates(t)
  BY <1>3, <1>4
<1> HIDE DEF TableStates
<1> QED BY <1>5, <1>7, <1>8 DEF AddRow

(* The rows of a table, one after another.                                     *)
LEMMA TableRuns ==
  ASSUME NEW t \in Texts, NEW head \in TablesAt(t), NEW first \in BOOLEAN
  PROVE  \E F : /\ F[0] = [candidates |-> <<>>, omitted |-> FALSE, said |-> {}, rows |-> <<>>, first |-> first]
                /\ \A k \in 0..(RowEnd(t, head) - head - 1) : F[k] \in TableStates(t)
                /\ \A k \in 1..(RowEnd(t, head) - head - 1) : F[k] = AddRow(t, head, F[k-1], head + k + 1)
                /\ TableRows(t, head, first) = F[(RowEnd(t, head) - head - 1)]
<1> DEFINE base == [candidates |-> <<>>, omitted |-> FALSE, said |-> {}, rows |-> <<>>, first |-> first]
           n == (RowEnd(t, head) - head - 1)
           seq == [k \in 1..(RowEnd(t, head) - head - 1) |-> head + k + 1]
           D == TableStates(t)
           st == [k \in 1..n |-> [s \in D |-> AddRow(t, head, s, seq[k])]]
           G == CHOOSE g : g = [s \in SUBSET (1..n) |->
                  IF s = {} THEN base ELSE AddRow(t, head, g[s \ {Max(s)}], seq[Max(s)])]
           end == FoldLeft(LAMBDA s, row : AddRow(t, head, s, row), base, seq)
           F == [k \in 0..n |-> G[1..k]]
<1>1. DOMAIN seq = 1..n /\ n \in Nat
  <2>1. head \in 1..Len(t) /\ RowEnd(t, head) \in (head + 2)..Len(t) /\ Len(t) \in Nat
    BY RowEndIs DEF Texts
  <2> QED BY <2>1
<1>0. n \in Nat
  BY <1>1
<1>2. base \in D
  BY DEF TableStates
<1>3. \A s \in D : \A k \in 1..n : AddRow(t, head, s, seq[k]) \in D
  <2>1. head \in 1..Len(t) /\ RowEnd(t, head) \in (head + 2)..Len(t) /\ Len(t) \in Nat
    BY RowEndIs DEF Texts
  <2>2. ASSUME NEW k \in 1..n PROVE seq[k] \in 1..Len(t)
    <3>1. seq[k] = head + k + 1 /\ k \in 1..(RowEnd(t, head) - head - 1)
      BY <1>1
    <3> QED BY <2>1, <3>1
  <2> HIDE DEF n, seq, D
  <2>3. ASSUME NEW s \in D, NEW k \in 1..n PROVE AddRow(t, head, s, seq[k]) \in D
    BY <2>2, AddRowTyped DEF D
  <2> QED BY <2>3
<1>12. TableRows(t, head, first) = end
  BY DEF TableRows
<1>13. \A k \in 1..n : seq[k] = head + k + 1
  BY <1>1
<1> HIDE DEF n, base, seq, D
<1>5. st \in [1..n -> [D -> D]]
  BY <1>3
<1> HIDE DEF st
<1>6. G = [s \in SUBSET (1..n) |-> IF s = {} THEN base ELSE AddRow(t, head, G[s \ {Max(s)}], seq[Max(s)])]
  <2>1. PICK g : Folds(g, n, D, base, st)
    BY <1>0, <1>2, <1>5, FoldExists
  <2>2. ASSUME NEW s \in SUBSET (1..n), s # {}
        PROVE  st[Max(s)][g[s \ {Max(s)}]] = AddRow(t, head, g[s \ {Max(s)}], seq[Max(s)])
    <3>1. s \in SUBSET (0..n)
      OBVIOUS
    <3>2. Max(s) \in 1..n
      BY <1>0, <2>2, <3>1, GreatestOne
    <3>3. g[s \ {Max(s)}] \in D
      BY <2>1 DEF Folds
    <3> QED BY <3>2, <3>3 DEF st
  <2>3. g = [s \in SUBSET (1..n) |-> IF s = {} THEN base ELSE AddRow(t, head, g[s \ {Max(s)}], seq[Max(s)])]
    BY <2>1, <2>2 DEF Folds
  <2> QED BY <2>3
<1>7. end = G[1..n]
  BY <1>1 DEF FoldLeft, MapThenFoldSet
<1> HIDE DEF G
<1>8. G[{}] = base
  <2>1. {} \in SUBSET (1..n)
    OBVIOUS
  <2> QED BY <1>6, <2>1
<1>9. \A k \in 1..n : G[1..k] = AddRow(t, head, G[1..(k-1)], seq[k])
  <2> SUFFICES ASSUME NEW k \in 1..n PROVE G[1..k] = AddRow(t, head, G[1..(k-1)], seq[k])
    OBVIOUS
  <2>1. k \in Nat \ {0} /\ 1..k \in SUBSET (1..n)
    BY <1>0
  <2>2. Max(1..k) = k /\ (1..k) \ {k} = 1..(k-1) /\ 1..k # {}
    BY <2>1, MaxUpto
  <2> QED BY <1>6, <2>1, <2>2
<1>10. \A k \in 0..n : G[1..k] \in D
  <2>1. G[{}] \in D
    BY <1>2, <1>8
  <2>2. \A k \in 1..n : G[1..(k-1)] \in D => G[1..k] \in D
    BY <1>3, <1>9
  <2> QED BY <1>0, <2>1, <2>2, FoldStays
<1>11. /\ F[0] = base /\ F[n] = G[1..n]
       /\ \A k \in 0..n : F[k] = G[1..k]
       /\ \A k \in 1..n : F[k] = AddRow(t, head, F[k-1], seq[k])
  <2>1. 1..0 = {} /\ 0 \in 0..n /\ n \in 0..n
    BY <1>0
  <2>2. \A k \in 1..n : k \in 0..n /\ k - 1 \in 0..n
    BY <1>0
  <2> QED BY <1>8, <1>9, <2>1, <2>2
<1> HIDE DEF F, end
<1>14. F[0] = base /\ (\A k \in 0..n : F[k] \in D) /\ TableRows(t, head, first) = F[n]
  BY <1>7, <1>10, <1>11, <1>12
<1>15. \A k \in 1..n : F[k] = AddRow(t, head, F[k-1], head + k + 1)
  BY <1>11, <1>13
<1> QED BY <1>14, <1>15 DEF base, n, D

(* A table is all in the passages that it is cut into, each with room for its  *)
(* own and under the header, unless it is said that rows were left out.        *)
LEMMA TableHolds ==
  ASSUME NEW t \in Texts, NEW head \in TablesAt(t), NEW first \in BOOLEAN
  PROVE  LET p == TableCandidates(t, head, first)
         IN /\ p.candidates \in Seq(Passages) /\ p.omitted \in BOOLEAN /\ p.said \in SUBSET Reasons
            /\ Fits(p.candidates, first)
            /\ p.omitted => p.said # {}
            /\ ~p.omitted => Characters(t, head..RowEnd(t, head)) \subseteq ShownBy(p.candidates)
<1> DEFINE n == RowEnd(t, head) - head - 1
           Done(k) == (head + 2)..(head + 1 + k)
           p == TableCandidates(t, head, first)
           base == [candidates |-> <<>>, omitted |-> FALSE, said |-> {}, rows |-> <<>>, first |-> first]
<1>1. head \in 1..Len(t) /\ RowEnd(t, head) \in (head + 2)..Len(t) /\ Len(t) \in Nat
  BY RowEndIs DEF Texts
<1>2. n \in Nat /\ n >= 1 /\ Done(n) = (head + 2)..RowEnd(t, head)
  BY <1>1
<1>3. PICK F : /\ F[0] = base
               /\ \A k \in 1..n : F[k] = AddRow(t, head, F[k-1], head + k + 1)
               /\ TableRows(t, head, first) = F[n]
  BY TableRuns
<1>4. Tabled(t, head, first, Done(0), base)
  <2>1. Done(0) = {}
    BY <1>1
  <2>2. base \in TableStates(t)
    BY DEF TableStates
  <2>3. Fits(<<>>, first)
    BY DEF Fits
  <2> HIDE DEF Done
  <2> QED BY <2>1, <2>2, <2>3 DEF Tabled
<1> HIDE DEF base, p
<1> DEFINE V == {k \in Nat : k <= n => Tabled(t, head, first, Done(k), F[k])}
<1>5. 0 \in V
  BY <1>3, <1>4
<1>6. ASSUME NEW k \in Nat, k \in V PROVE k + 1 \in V
  <2> SUFFICES ASSUME k + 1 <= n PROVE Tabled(t, head, first, Done(k + 1), F[k + 1])
    OBVIOUS
  <2>1. k <= n /\ k + 1 \in 1..n /\ (k + 1) - 1 = k
    BY <1>2
  <2>2. F[k + 1] = AddRow(t, head, F[k], head + (k + 1) + 1)
    BY <1>3, <2>1
  <2>3. head + (k + 1) + 1 \in 1..Len(t) /\ Done(k + 1) = Done(k) \cup {head + (k + 1) + 1}
    BY <1>1, <2>1
  <2>4. Tabled(t, head, first, Done(k), F[k])
    BY <1>6, <2>1
  <2> HIDE DEF Done, n
  <2> QED BY <2>2, <2>3, <2>4, AddRowHolds
<1>7. Tabled(t, head, first, Done(n), F[n])
  <2>1. \A k \in Nat : k \in V
    <3> HIDE DEF V
    <3> QED BY <1>5, <1>6, SetInduction
  <2> QED BY <1>2, <2>1
<1> DEFINE end == F[n]
           shut == IF end.rows = <<>> THEN end ELSE Flush(t, head, end, <<>>)
<1> HIDE DEF Done
<1>8. p = shut
  BY <1>3 DEF TableCandidates, p
<1>9. Tabled(t, head, first, Done(n), shut) /\ shut.rows = <<>>
  <2>1. CASE end.rows = <<>>
    BY <1>7, <2>1
  <2>2. CASE end.rows # <<>>
    <3>1. <<>> \in Seq(1..Len(t)) /\ end \in TableStates(t)
      BY <1>7 DEF Tabled
    <3> HIDE DEF n, end
    <3>2. Tabled(t, head, first, Done(n), Flush(t, head, end, <<>>))
      BY <1>7, <2>2, <3>1, FlushHolds DEF end
    <3>3. Flush(t, head, end, <<>>).rows = <<>>
      <4>1. <<>> \in Seq(1..Len(t))
        OBVIOUS
      <4> DEFINE e == Flush(t, head, end, <<>>)
                 d == Append(end.candidates, ShownUnder(t, head, end.rows))
      <4>2. e = [candidates |-> d, omitted |-> end.omitted, said |-> end.said, rows |-> <<>>, first |-> FALSE]
        BY <3>1, <4>1, FlushIs
      <4> HIDE DEF e, d
      <4>3. e.rows = <<>>
        BY <4>2
      <4> QED BY <4>3 DEF e
    <3> QED BY <2>2, <3>2, <3>3
  <2> QED BY <2>1, <2>2
<1> HIDE DEF shut, end
<1>10. p \in TableStates(t) /\ Fits(p.candidates, first) /\ (p.omitted => p.said # {})
  BY <1>8, <1>9 DEF Tabled
<1>11. ASSUME ~p.omitted
       PROVE  Characters(t, head..RowEnd(t, head)) \subseteq ShownBy(p.candidates)
  <2>1. ASSUME NEW row \in Done(n) PROVE Characters(t, {head, head + 1, row}) \subseteq ShownBy(p.candidates)
    <3>1. row \notin ToSet(<<>>)
      BY DEF ToSet
    <3> QED BY <1>8, <1>9, <1>11, <3>1 DEF Tabled
  <2>2. ASSUME NEW i \in head..RowEnd(t, head)
        PROVE  \E row \in Done(n) : i \in {head, head + 1, row}
    <3>1. head + 2 \in Done(n)
      BY <1>1, <1>2
    <3>2. i = head \/ i = head + 1 \/ i \in Done(n)
      BY <1>1, <1>2
    <3> QED BY <3>1, <3>2
  <2> QED BY <2>1, <2>2 DEF Characters
<1>12. p.candidates \in Seq(Passages) /\ p.omitted \in BOOLEAN /\ p.said \in SUBSET Reasons
  BY <1>10 DEF TableStates
<1> QED BY <1>10, <1>11, <1>12 DEF p

-------------------------------------------------------------------------------
(* Packing: prose and tables, one after another.                               *)

(* With room for the first passage of a context there is room for the others.  *)
LEMMA RoomForAll ==
  ASSUME NEW first \in BOOLEAN, Room(first) # 0
  PROVE  \A b \in BOOLEAN : Room(b) # 0
<1>1. HeaderChars \in Nat /\ SeparatorChars \in Nat /\ MaxPassageChars \in Nat
  BY PackerAssumption
<1>2. HeaderChars < MaxPassageChars
  BY <1>1 DEF Room
<1>3. HeaderChars + SeparatorChars < MaxPassageChars
  BY <1>2, HeaderAssumption
<1> QED BY <1>1, <1>2, <1>3 DEF Room

(* A line ends where the text does, or before.                                 *)
LEMMA LineWithin ==
  ASSUME NEW t \in Texts, NEW i \in 1..Len(t)
  PROVE  /\ LineStart(t, i) \in Nat /\ LineEnd(t, i) \in Nat /\ Chars(t) \in Nat
         /\ LineStart(t, i) <= LineEnd(t, i) /\ LineEnd(t, i) <= Chars(t)
         /\ i # Len(t) => LineEnd(t, i) < Chars(t)
<1>1. LineStart(t, i) \in Nat /\ LineEnd(t, i) \in Nat /\ Chars(t) \in Nat
      /\ LineStart(t, i) <= LineEnd(t, i)
  <2>1. LineStart(t, i) \in Nat /\ LineEnd(t, i) \in Nat /\ t[i].size \in Nat
        /\ LineEnd(t, i) = LineStart(t, i) + t[i].size /\ Chars(t) \in Nat
    BY StartOfLine, CharsIs
  <2> QED BY <2>1
<1>2. t # <<>> /\ Len(t) \in Nat
  BY DEF Texts
<1>3. Len(t) \in 1..Len(t) /\ Chars(t) = LineEnd(t, Len(t))
  BY <1>2, CharsIs
<1>4. CASE i = Len(t)
  BY <1>1, <1>3, <1>4
<1>5. CASE i # Len(t)
  <2>1. i < Len(t)
    BY <1>2, <1>5
  <2>2. LineEnd(t, i) < LineStart(t, Len(t))
    BY <1>3, <2>1, LinesInOrder
  <2>3. LineStart(t, Len(t)) \in Nat /\ LineEnd(t, Len(t)) = LineStart(t, Len(t)) + t[Len(t)].size
        /\ t[Len(t)].size \in Nat
    BY <1>3, StartOfLine
  <2> QED BY <1>1, <1>3, <2>2, <2>3
<1> QED BY <1>1, <1>4, <1>5

(* What is added to candidates, and up to where.                               *)
LEMMA PlusHolds ==
  ASSUME NEW t \in Texts, NEW first \in BOOLEAN, NEW s, Texted(t, first, s), NEW more,
         more.candidates \in Seq(Passages), more.omitted \in BOOLEAN, more.said \in SUBSET Reasons,
         Fits(more.candidates, first /\ s.candidates = <<>>), more.omitted => more.said # {},
         NEW cursor \in Nat, cursor <= Chars(t),
         ~more.omitted =>
           \A i \in 1..Len(t) : \A n \in LineStart(t, i)..(LineEnd(t, i) - 1) :
             n < cursor => n < s.cursor \/ n \in ShownBy(more.candidates)
  PROVE  Texted(t, first, Plus(s, more, cursor)) /\ Plus(s, more, cursor).cursor = cursor
<1> DEFINE p == Plus(s, more, cursor)
           a == s.candidates
           b == more.candidates
<1>1. a \in Seq(Passages) /\ s.omitted \in BOOLEAN /\ s.said \in SUBSET Reasons /\ Fits(a, first)
      /\ s.cursor \in Nat
  BY DEF Texted, TextStates
<1>2. b \in Seq(Passages) /\ Fits(b, first /\ a = <<>>)
  OBVIOUS
<1>3. \A x \in Passages : x.size \in Nat
  BY DEF Passages
<1>4. p = [candidates |-> a \o b, omitted |-> s.omitted \/ more.omitted, said |-> s.said \cup more.said,
           cursor |-> cursor]
  BY DEF Plus
<1> HIDE DEF p, a, b
<1>5. a \o b \in Seq(Passages) /\ Fits(a \o b, first) /\ ShownBy(a \o b) = ShownBy(a) \cup ShownBy(b)
  BY <1>1, <1>2, <1>3, BothFit
<1> DEFINE om == s.omitted \/ more.omitted
           sd == s.said \cup more.said
<1>6. om \in BOOLEAN /\ sd \in SUBSET Reasons
  BY <1>1
<1>7. om => sd # {}
  BY DEF Texted
<1>8. ~om => Covers(t, a \o b, cursor)
  <2>1. ~om => Covers(t, a, s.cursor)
    BY DEF Texted, a
  <2> QED BY <1>5, <2>1 DEF Covers, b
<1>9. p = [candidates |-> a \o b, omitted |-> om, said |-> sd, cursor |-> cursor]
  BY <1>4
<1> HIDE DEF om, sd
<1>10. p \in TextStates
  BY <1>5, <1>6, <1>9 DEF TextStates
<1>11. p.candidates = a \o b /\ p.omitted = om /\ p.said = sd /\ p.cursor = cursor
  BY <1>9
<1>12. Texted(t, first, p)
  BY <1>5, <1>7, <1>8, <1>10, <1>11 DEF Texted
<1> QED BY <1>11, <1>12 DEF p

(* The prose up to a place is added.                                           *)
LEMMA AddProseHolds ==
  ASSUME NEW t \in Texts, NEW first \in BOOLEAN, Room(first) # 0, NEW s, Texted(t, first, s),
         NEW to \in Nat, s.cursor <= to, to <= Chars(t)
  PROVE  Texted(t, first, AddProse(t, first, s, to)) /\ AddProse(t, first, s, to).cursor = to
<1> DEFINE f == first /\ s.candidates = <<>>
           p == PlainCandidates(t, s.cursor, to, f)
<1>1. f \in BOOLEAN /\ s.cursor \in Nat
  BY DEF Texted, TextStates
<1>2. Room(f) # 0 /\ Room(FALSE) # 0
  <2> HIDE DEF f
  <2> QED BY <1>1, RoomForAll
<1>3. /\ p.candidates \in Seq(Passages) /\ p.omitted \in BOOLEAN /\ p.said = {}
      /\ Fits(p.candidates, f)
      /\ ~p.omitted => s.cursor..(to - 1) \subseteq ShownBy(p.candidates)
      /\ p.omitted => Room(f) = 0 \/ Room(FALSE) = 0
  <2> DEFINE c == s.cursor
  <2> HIDE DEF f
  <2>1. c \in Nat /\ c <= to
    BY <1>1
  <2> HIDE DEF c, p
  <2>2. PlainGood(t, c, to, f)
    BY <1>1, <2>1, PlainHolds
  <2> QED BY <2>2 DEF PlainGood, c, p
<1>4. AddProse(t, first, s, to) = Plus(s, p, to)
  BY DEF AddProse
<1> HIDE DEF p
<1>5. ~p.omitted
  BY <1>2, <1>3
<1>6. ASSUME NEW i \in 1..Len(t), NEW n \in LineStart(t, i)..(LineEnd(t, i) - 1), n < to
      PROVE  n < s.cursor \/ n \in ShownBy(p.candidates)
  <2>1. n \in Nat
    BY StartOfLine
  <2>2. ~(n < s.cursor) => n \in s.cursor..(to - 1)
    BY <1>1, <1>6, <2>1
  <2> QED BY <1>3, <1>5, <2>2
<1>7. Fits(p.candidates, first /\ s.candidates = <<>>)
  BY <1>3
<1>8. p.said \in SUBSET Reasons
  BY <1>3
<1> HIDE DEF f
<1>9. Texted(t, first, Plus(s, p, to)) /\ Plus(s, p, to).cursor = to
  BY <1>3, <1>5, <1>6, <1>7, <1>8, PlusHolds
<1> QED BY <1>4, <1>9

(* A table is added where the prose before it ended.                           *)
LEMMA AddTableHolds ==
  ASSUME NEW t \in Texts, NEW first \in BOOLEAN, NEW s, Texted(t, first, s), NEW head \in TablesAt(t),
         s.cursor = LineStart(t, head)
  PROVE  Texted(t, first, AddTable(t, first, s, head))
<1> DEFINE f == first /\ s.candidates = <<>>
           p == TableCandidates(t, head, f)
           m == RowEnd(t, head)
           to == LineEnd(t, m) + (IF m < Len(t) THEN 1 ELSE 0)
<1>1. f \in BOOLEAN
  OBVIOUS
<1>2. /\ p.candidates \in Seq(Passages) /\ p.omitted \in BOOLEAN /\ p.said \in SUBSET Reasons
      /\ Fits(p.candidates, f)
      /\ p.omitted => p.said # {}
      /\ ~p.omitted => Characters(t, head..m) \subseteq ShownBy(p.candidates)
  <2> HIDE DEF f
  <2> QED BY <1>1, TableHolds
<1>3. AddTable(t, first, s, head) = Plus(s, p, to)
  BY DEF AddTable
<1>4. head \in 1..Len(t) /\ m \in 1..Len(t) /\ head <= m /\ Len(t) \in Nat
  <2>1. head \in 1..Len(t) /\ m \in (head + 2)..Len(t) /\ Len(t) \in Nat
    BY RowEndIs DEF Texts
  <2> HIDE DEF m
  <2> QED BY <2>1
<1> HIDE DEF p, m
<1>5. LineEnd(t, m) \in Nat /\ Chars(t) \in Nat /\ LineEnd(t, m) <= Chars(t)
      /\ (m # Len(t) => LineEnd(t, m) < Chars(t))
  BY <1>4, LineWithin
<1>6. to \in Nat /\ to <= Chars(t)
  BY <1>4, <1>5
<1>7. ASSUME ~p.omitted, NEW i \in 1..Len(t), NEW n \in LineStart(t, i)..(LineEnd(t, i) - 1), n < to
      PROVE  n < s.cursor \/ n \in ShownBy(p.candidates)
  <2>0. LineStart(t, i) \in Nat /\ LineEnd(t, i) \in Nat /\ n \in Nat /\ LineStart(t, i) <= n /\ n < LineEnd(t, i)
    BY StartOfLine
  <2>1. CASE i < head
    <3>1. LineEnd(t, i) < LineStart(t, head)
      BY <1>4, <2>1, LinesInOrder
    <3>2. LineStart(t, head) \in Nat
      BY <1>4, StartOfLine
    <3> QED BY <2>0, <3>1, <3>2
  <2>2. CASE m < i
    <3>1. LineEnd(t, m) < LineStart(t, i)
      BY <1>4, <2>2, LinesInOrder
    <3>2. m < Len(t)
      BY <1>4, <2>2
    <3> QED BY <1>5, <1>7, <2>0, <3>1, <3>2
  <2>3. CASE i \in head..m
    <3>1. n \in Characters(t, head..m)
      BY <2>3 DEF Characters
    <3> QED BY <1>2, <1>7, <3>1
  <2> QED BY <1>4, <2>1, <2>2, <2>3
<1>8. Fits(p.candidates, first /\ s.candidates = <<>>)
  BY <1>2
<1> HIDE DEF f, to
<1>9. Texted(t, first, Plus(s, p, to))
  BY <1>2, <1>6, <1>7, <1>8, PlusHolds
<1> QED BY <1>3, <1>9

LEMMA AddLinesHolds ==
  ASSUME NEW t \in Texts, NEW first \in BOOLEAN, Room(first) # 0, NEW s, Texted(t, first, s),
         NEW i \in 1..Len(t)
  PROVE  Texted(t, first, AddLines(t, first, s, i))
<1>1. CASE ~(i \in TablesAt(t) /\ s.cursor <= LineStart(t, i))
  BY <1>1 DEF AddLines
<1>2. CASE i \in TablesAt(t) /\ s.cursor <= LineStart(t, i)
  <2> DEFINE u == AddProse(t, first, s, LineStart(t, i))
             to == LineStart(t, i)
  <2>1. to \in Nat /\ to <= Chars(t)
    <3>1. LineStart(t, i) \in Nat /\ LineEnd(t, i) \in Nat /\ Chars(t) \in Nat
          /\ LineStart(t, i) <= LineEnd(t, i) /\ LineEnd(t, i) <= Chars(t)
      BY LineWithin
    <3> QED BY <3>1
  <2>2. Texted(t, first, AddProse(t, first, s, to)) /\ AddProse(t, first, s, to).cursor = to
    <3>1. s.cursor <= to
      BY <1>2
    <3> HIDE DEF to, u
    <3> QED BY <2>1, <3>1, AddProseHolds
  <2>3. AddLines(t, first, s, i) = AddTable(t, first, u, i)
    BY <1>2 DEF AddLines
  <2>4. Texted(t, first, u) /\ u.cursor = LineStart(t, i)
    BY <2>2
  <2> HIDE DEF u, to
  <2> QED BY <1>2, <2>3, <2>4, AddTableHolds
<1> QED BY <1>1, <1>2

(* The lines of a text, one after another.                                     *)
LEMMA TextRuns ==
  ASSUME NEW t \in Texts, NEW first \in BOOLEAN, Room(first) # 0
  PROVE  \E F : /\ F[0] = [candidates |-> <<>>, omitted |-> FALSE, said |-> {}, cursor |-> 0]
                /\ \A k \in 0..Len(t) : F[k] \in {s \in TextStates : Texted(t, first, s)}
                /\ \A k \in 1..Len(t) : F[k] = AddLines(t, first, F[k-1], k)
                /\ TablesAndProse(t, first) = F[Len(t)]
<1> DEFINE base == [candidates |-> <<>>, omitted |-> FALSE, said |-> {}, cursor |-> 0]
           n == Len(t)
           seq == [k \in 1..Len(t) |-> k]
           D == {s \in TextStates : Texted(t, first, s)}
           st == [k \in 1..n |-> [s \in D |-> AddLines(t, first, s, seq[k])]]
           G == CHOOSE g : g = [s \in SUBSET (1..n) |->
                  IF s = {} THEN base ELSE AddLines(t, first, g[s \ {Max(s)}], seq[Max(s)])]
           end == FoldLeft(LAMBDA s, i : AddLines(t, first, s, i), base, seq)
           F == [k \in 0..n |-> G[1..k]]
<1>1. DOMAIN seq = 1..n /\ n \in Nat
  BY DEF Texts
<1>0. n \in Nat
  BY <1>1
<1>2. base \in D
  <2>1. base \in TextStates /\ base.cursor = 0 /\ ~base.omitted /\ base.candidates = <<>>
    BY DEF TextStates
  <2>2. Fits(<<>>, first)
    BY DEF Fits
  <2>3. Chars(t) \in Nat
    BY CharsIs
  <2>4. Covers(t, <<>>, 0)
    <3>1. \A i \in 1..Len(t) : \A m \in LineStart(t, i)..(LineEnd(t, i) - 1) : m \in Nat
      BY StartOfLine
    <3> QED BY <3>1 DEF Covers
  <2> HIDE DEF base
  <2> QED BY <2>1, <2>2, <2>3, <2>4 DEF Texted
<1>3. \A s \in D : \A k \in 1..n : AddLines(t, first, s, seq[k]) \in D
  <2>1. \A k \in 1..n : seq[k] \in 1..Len(t)
    OBVIOUS
  <2> HIDE DEF n, seq
  <2>2. ASSUME NEW s \in D, NEW k \in 1..n PROVE AddLines(t, first, s, seq[k]) \in D
    <3>1. Texted(t, first, AddLines(t, first, s, seq[k]))
      BY <2>1, AddLinesHolds
    <3> QED BY <3>1 DEF Texted
  <2> QED BY <2>2
<1>12. TablesAndProse(t, first) = end
  BY DEF TablesAndProse
<1>13. \A k \in 1..n : seq[k] = k
  BY <1>1
<1> HIDE DEF n, base, seq, D
<1>5. st \in [1..n -> [D -> D]]
  BY <1>3
<1> HIDE DEF st
<1>6. G = [s \in SUBSET (1..n) |-> IF s = {} THEN base ELSE AddLines(t, first, G[s \ {Max(s)}], seq[Max(s)])]
  <2>1. PICK g : Folds(g, n, D, base, st)
    BY <1>0, <1>2, <1>5, FoldExists
  <2>2. ASSUME NEW s \in SUBSET (1..n), s # {}
        PROVE  st[Max(s)][g[s \ {Max(s)}]] = AddLines(t, first, g[s \ {Max(s)}], seq[Max(s)])
    <3>1. s \in SUBSET (0..n)
      OBVIOUS
    <3>2. Max(s) \in 1..n
      BY <1>0, <2>2, <3>1, GreatestOne
    <3>3. g[s \ {Max(s)}] \in D
      BY <2>1 DEF Folds
    <3> QED BY <3>2, <3>3 DEF st
  <2>3. g = [s \in SUBSET (1..n) |-> IF s = {} THEN base ELSE AddLines(t, first, g[s \ {Max(s)}], seq[Max(s)])]
    BY <2>1, <2>2 DEF Folds
  <2> QED BY <2>3
<1>7. end = G[1..n]
  BY <1>1 DEF FoldLeft, MapThenFoldSet
<1> HIDE DEF G
<1>8. G[{}] = base
  <2>1. {} \in SUBSET (1..n)
    OBVIOUS
  <2> QED BY <1>6, <2>1
<1>9. \A k \in 1..n : G[1..k] = AddLines(t, first, G[1..(k-1)], seq[k])
  <2> SUFFICES ASSUME NEW k \in 1..n PROVE G[1..k] = AddLines(t, first, G[1..(k-1)], seq[k])
    OBVIOUS
  <2>1. k \in Nat \ {0} /\ 1..k \in SUBSET (1..n)
    BY <1>0
  <2>2. Max(1..k) = k /\ (1..k) \ {k} = 1..(k-1) /\ 1..k # {}
    BY <2>1, MaxUpto
  <2> QED BY <1>6, <2>1, <2>2
<1>10. \A k \in 0..n : G[1..k] \in D
  <2>1. G[{}] \in D
    BY <1>2, <1>8
  <2>2. \A k \in 1..n : G[1..(k-1)] \in D => G[1..k] \in D
    BY <1>3, <1>9
  <2> QED BY <1>0, <2>1, <2>2, FoldStays
<1>11. /\ F[0] = base /\ F[n] = G[1..n]
       /\ \A k \in 0..n : F[k] = G[1..k]
       /\ \A k \in 1..n : F[k] = AddLines(t, first, F[k-1], seq[k])
  <2>1. 1..0 = {} /\ 0 \in 0..n /\ n \in 0..n
    BY <1>0
  <2>2. \A k \in 1..n : k \in 0..n /\ k - 1 \in 0..n
    BY <1>0
  <2> QED BY <1>8, <1>9, <2>1, <2>2
<1> HIDE DEF F, end
<1>14. F[0] = base /\ (\A k \in 0..n : F[k] \in D) /\ TablesAndProse(t, first) = F[n]
  BY <1>7, <1>10, <1>11, <1>12
<1>15. \A k \in 1..n : F[k] = AddLines(t, first, F[k-1], k)
  BY <1>11, <1>13
<1> QED BY <1>14, <1>15 DEF base, n, D

(* A text is all in its candidates, or it is said what was left out. *)
LEMMA TextHolds ==
  ASSUME NEW t \in Texts, NEW first \in BOOLEAN
  PROVE  TextGood(t, first)
<1> DEFINE p == TextCandidates(t, first)
<1>1. CASE Room(first) = 0
  <2>1. p = [candidates |-> <<>>, omitted |-> TRUE, said |-> {"passage_header_exceeds_limit"}]
    BY <1>1 DEF TextCandidates
  <2>2. {"passage_header_exceeds_limit"} \in SUBSET Reasons
    BY DEF Reasons
  <2>3. <<>> \in Seq(Passages) /\ Fits(<<>>, first)
    BY DEF Fits
  <2> HIDE DEF p
  <2>4. p.candidates = <<>> /\ p.omitted = TRUE /\ p.said = {"passage_header_exceeds_limit"}
    BY <2>1
  <2>5. p.said # {} /\ p.said \in SUBSET Reasons
    BY <2>2, <2>4
  <2> QED BY <2>3, <2>4, <2>5 DEF p, TextGood
<1>2. CASE Room(first) # 0
  <2> DEFINE s == TablesAndProse(t, first)
  <2>1. Texted(t, first, s)
    <3>1. PICK F : /\ \A k \in 0..Len(t) : F[k] \in {x \in TextStates : Texted(t, first, x)}
                   /\ TablesAndProse(t, first) = F[Len(t)]
      BY <1>2, TextRuns
    <3>2. Len(t) \in 0..Len(t)
      BY DEF Texts
    <3> QED BY <3>1, <3>2
  <2>2. p = AddProse(t, first, s, Chars(t))
    BY <1>2 DEF TextCandidates
  <2> DEFINE c == Chars(t)
  <2>3. c \in Nat /\ s.cursor <= c /\ c <= Chars(t)
    BY <2>1, CharsIs DEF Texted
  <2> HIDE DEF s, p
  <2>4. Texted(t, first, p) /\ p.cursor = c
    <3> HIDE DEF c
    <3>1. Texted(t, first, AddProse(t, first, s, c)) /\ AddProse(t, first, s, c).cursor = c
      BY <1>2, <2>1, <2>3, AddProseHolds
    <3> QED BY <2>2, <3>1 DEF c
  <2>5. p.candidates \in Seq(Passages) /\ p.omitted \in BOOLEAN /\ p.said \in SUBSET Reasons
        /\ Fits(p.candidates, first) /\ (p.omitted => p.said # {})
    BY <2>4 DEF Texted, TextStates
  <2>6. ASSUME ~p.omitted, NEW x \in Characters(t, DOMAIN t) PROVE x \in ShownBy(p.candidates)
    <3>1. Covers(t, p.candidates, Chars(t))
      BY <2>4, <2>6 DEF Texted
    <3>2. DOMAIN t = 1..Len(t)
      BY DEF Texts
    <3>3. PICK i \in 1..Len(t) : x \in LineStart(t, i)..(LineEnd(t, i) - 1)
      BY <2>6, <3>2 DEF Characters
    <3>4. LineStart(t, i) \in Nat /\ LineEnd(t, i) \in Nat /\ Chars(t) \in Nat /\ LineEnd(t, i) <= Chars(t)
      BY LineWithin
    <3>5. x < Chars(t)
      BY <3>3, <3>4
    <3> QED BY <3>1, <3>3, <3>5 DEF Covers
  <2> QED BY <2>5, <2>6 DEF p, TextGood
<1> QED BY <1>1, <1>2

-------------------------------------------------------------------------------
(* Packing: the groups of candidates.                                          *)

LEMMA FitsSame ==
  ASSUME NEW candidates, NEW a \in BOOLEAN, NEW b \in BOOLEAN, a <=> b, Fits(candidates, a)
  PROVE  Fits(candidates, b)
<1>1. a = b
  OBVIOUS
<1> QED BY <1>1

LEMMA OwnHolds ==
  ASSUME NEW items, NEW a \in Nat, a \in DOMAIN items, NEW found \in Seq(Passages), NEW first \in BOOLEAN,
         Fits(found, first)
  PROVE  /\ Own(a, found) \in Seq(ItemPassages) /\ Fits(Own(a, found), first) /\ OneItem(items, Own(a, found))
         /\ found # <<>> => Own(a, found) # <<>>
         /\ \A x \in ShownBy(found) : \E k \in DOMAIN Own(a, found) :
              Own(a, found)[k].item = a /\ x \in Own(a, found)[k].shows
<1> DEFINE n == Len(found)
           own == Own(a, found)
<1>1. n \in Nat /\ DOMAIN found = 1..n /\ \A k \in 1..n : found[k] \in Passages
  OBVIOUS
<1>2. own = [k \in 1..n |-> [item |-> a, shows |-> found[k].shows, size |-> found[k].size]]
  BY <1>1 DEF Own
<1>3. \A k \in 1..n : [item |-> a, shows |-> found[k].shows, size |-> found[k].size] \in ItemPassages
  BY <1>1 DEF ItemPassages, Passages
<1>4. found # <<>> => n # 0
  OBVIOUS
<1>5. \A k \in 1..n : found[k].size >= 1 /\ found[k].size <= Room(first /\ k = 1)
  BY <1>1 DEF Fits
<1> HIDE DEF own, n
<1>6. own \in Seq(ItemPassages) /\ DOMAIN own = 1..n
  BY <1>1, <1>2, <1>3
<1>7. \A k \in 1..n : own[k].item = a /\ own[k].shows = found[k].shows /\ own[k].size = found[k].size
  BY <1>2
<1>8. Fits(own, first)
  BY <1>5, <1>6, <1>7 DEF Fits
<1>9. OneItem(items, own)
  <2>1. ASSUME NEW k \in 1..n PROVE 1 \in 1..n
    BY <1>1
  <2> QED BY <1>6, <1>7, <2>1 DEF OneItem
<1>10. found # <<>> => own # <<>>
  <2>1. own = <<>> => 1..n = {}
    BY <1>6
  <2>2. n # 0 => 1 \in 1..n
    BY <1>1
  <2> QED BY <1>4, <2>1, <2>2
<1>11. ASSUME NEW x \in ShownBy(found)
       PROVE  \E k \in DOMAIN own : own[k].item = a /\ x \in own[k].shows
  <2>1. PICK k \in DOMAIN found : x \in found[k].shows
    BY DEF ShownBy
  <2> QED BY <1>1, <1>6, <1>7, <2>1
<1> QED BY <1>6, <1>8, <1>9, <1>10, <1>11 DEF own

(* An item that is split adds a group, or says why it does not.                *)
LEMMA AddItemHolds ==
  ASSUME NEW l, NEW items \in Seq(ItemsOf(l)), NEW a \in DOMAIN items, NEW s \in Splits(items)
  PROVE  LET r == AddItem(items, s, a)
         IN /\ r \in Splits(items)
            /\ r.omitted = FALSE => s.omitted = FALSE /\ WholeIn(items, a, r.groups)
            /\ \A b \in DOMAIN items : WholeIn(items, b, s.groups) => WholeIn(items, b, r.groups)
<1> DEFINE f == s.groups = <<>>
           found == TextCandidates(items[a].text, f)
           r == AddGroup(s, a, found)
           own == Own(a, found.candidates)
           n == Len(s.groups)
           more == Append(s.groups, own)
<1>1. items[a].text \in Texts /\ a \in Nat /\ f \in BOOLEAN
  <2>1. items[a] \in ItemsOf(l)
    OBVIOUS
  <2>2. a \in Nat
    OBVIOUS
  <2>3. f \in BOOLEAN
    OBVIOUS
  <2> HIDE DEF f
  <2> QED BY <2>1, <2>2, <2>3 DEF ItemsOf
<1>2. /\ s.groups \in Seq(Seq(ItemPassages)) /\ s.omitted \in BOOLEAN /\ s.said \in SUBSET Reasons
      /\ s.omitted => s.said # {}
      /\ \A g \in DOMAIN s.groups : s.groups[g] # <<>> /\ OneItem(items, s.groups[g]) /\ Fits(s.groups[g], g = 1)
  BY DEF Splits, SplitStates, Parted
<1>3. n \in Nat /\ DOMAIN s.groups = 1..n /\ (f <=> n + 1 = 1)
  BY <1>2
<1>4. /\ found.candidates \in Seq(Passages) /\ found.omitted \in BOOLEAN /\ found.said \in SUBSET Reasons
      /\ Fits(found.candidates, f)
      /\ found.omitted => found.said # {}
      /\ ~found.omitted => Characters(items[a].text, DOMAIN items[a].text) \subseteq ShownBy(found.candidates)
  <2> DEFINE t == items[a].text
  <2> HIDE DEF t, f
  <2>1. t \in Texts /\ f \in BOOLEAN
    BY <1>1 DEF t
  <2>2. TextGood(t, f)
    BY <2>1, TextHolds
  <2> QED BY <2>2 DEF TextGood, t
<1> HIDE DEF found
<1>5. /\ own \in Seq(ItemPassages) /\ Fits(own, f) /\ OneItem(items, own)
      /\ found.candidates # <<>> => own # <<>>
      /\ \A x \in ShownBy(found.candidates) : \E k \in DOMAIN own : own[k].item = a /\ x \in own[k].shows
  <2> DEFINE c == found.candidates
  <2>1. c \in Seq(Passages) /\ Fits(c, f)
    BY <1>4
  <2> HIDE DEF c, f
  <2>2. /\ Own(a, c) \in Seq(ItemPassages) /\ Fits(Own(a, c), f) /\ OneItem(items, Own(a, c))
        /\ c # <<>> => Own(a, c) # <<>>
        /\ \A x \in ShownBy(c) : \E k \in DOMAIN Own(a, c) : Own(a, c)[k].item = a /\ x \in Own(a, c)[k].shows
    BY <1>1, <2>1, OwnHolds
  <2> QED BY <2>2 DEF c
<1> HIDE DEF own
<1> DEFINE groups == IF found.candidates = <<>> THEN s.groups ELSE more
           om == s.omitted \/ found.omitted
           sd == s.said \cup found.said
<1>6. r = [groups |-> groups, omitted |-> om, said |-> sd]
  BY DEF AddGroup, own
<1>7. more \in Seq(Seq(ItemPassages)) /\ DOMAIN more = 1..(n + 1) /\ more[n + 1] = own
      /\ \A g \in 1..n : more[g] = s.groups[g]
  BY <1>2, <1>5
<1>8. found.candidates # <<>> => Parted(items, more)
  <2> SUFFICES ASSUME found.candidates # <<>>, NEW g \in 1..(n + 1)
               PROVE  more[g] # <<>> /\ OneItem(items, more[g]) /\ Fits(more[g], g = 1)
    BY <1>7 DEF Parted
  <2>1. CASE g \in 1..n
    BY <1>2, <1>3, <1>7, <2>1
  <2>2. CASE g = n + 1
    <3>1. Fits(own, n + 1 = 1)
      <4> DEFINE e == n + 1 = 1
      <4>1. e \in BOOLEAN /\ (f <=> e)
        BY <1>3
      <4> HIDE DEF e, f
      <4>2. Fits(own, e)
        BY <1>1, <1>5, <4>1, FitsSame
      <4> QED BY <4>2 DEF e
    <3> QED BY <1>5, <1>7, <2>2, <3>1
  <2> QED BY <1>3, <2>1, <2>2
<1> HIDE DEF more, f
<1>9. Parted(items, groups)
  BY <1>8 DEF Splits
<1>10. \A b \in DOMAIN items : WholeIn(items, b, s.groups) => WholeIn(items, b, groups)
  <2> SUFFICES ASSUME found.candidates # <<>>, NEW b \in DOMAIN items, WholeIn(items, b, s.groups)
               PROVE  WholeIn(items, b, more)
    OBVIOUS
  <2>1. \A g \in DOMAIN s.groups : g \in DOMAIN more /\ more[g] = s.groups[g]
    BY <1>3, <1>7
  <2> QED BY <2>1 DEF WholeIn
<1>11. ~found.omitted => WholeIn(items, a, groups)
  <2> SUFFICES ASSUME ~found.omitted, NEW x \in Characters(items[a].text, DOMAIN items[a].text)
               PROVE  \E g \in DOMAIN groups : \E k \in DOMAIN groups[g] :
                        groups[g][k].item = a /\ x \in groups[g][k].shows
    BY DEF WholeIn
  <2>1. x \in ShownBy(found.candidates)
    BY <1>4
  <2>2. found.candidates # <<>>
    BY <2>1 DEF ShownBy
  <2>3. groups = more /\ n + 1 \in DOMAIN more /\ more[n + 1] = own
    BY <1>3, <1>7, <2>2
  <2>4. PICK k \in DOMAIN own : own[k].item = a /\ x \in own[k].shows
    BY <1>5, <2>1
  <2> HIDE DEF groups
  <2> QED BY <2>3, <2>4
<1>12. om \in BOOLEAN /\ sd \in SUBSET Reasons /\ (om => sd # {})
  BY <1>2, <1>4
<1>13. ~om => ~s.omitted /\ ~found.omitted
  OBVIOUS
<1> HIDE DEF r, groups, om, sd
<1>14. r \in SplitStates
  BY <1>6, <1>9, <1>12 DEF SplitStates, Parted
<1>15. r.groups = groups /\ r.omitted = om /\ r.said = sd
  BY <1>6
<1>16. r \in Splits(items)
  BY <1>9, <1>12, <1>14, <1>15 DEF Splits
<1>17. r.omitted = FALSE => s.omitted = FALSE /\ WholeIn(items, a, r.groups)
  BY <1>2, <1>11, <1>12, <1>13, <1>15
<1>18. \A b \in DOMAIN items : WholeIn(items, b, s.groups) => WholeIn(items, b, r.groups)
  BY <1>10, <1>15
<1> QED BY <1>16, <1>17, <1>18 DEF r, found, f, AddItem

(* The items, one after another.                                               *)
LEMMA SplitRuns ==
  ASSUME NEW l, NEW items \in Seq(ItemsOf(l))
  PROVE  \E F : /\ F[0] = [groups |-> <<>>, omitted |-> FALSE, said |-> {}]
                /\ \A k \in 0..Len(Unique(items)) : F[k] \in Splits(items)
                /\ \A k \in 1..Len(Unique(items)) : F[k] = AddItem(items, F[k-1], Unique(items)[k])
                /\ Split(items) = F[Len(Unique(items))]
<1> DEFINE base == [groups |-> <<>>, omitted |-> FALSE, said |-> {}]
           n == Len(Unique(items))
           seq == Unique(items)
           D == Splits(items)
           st == [k \in 1..n |-> [s \in D |-> AddItem(items, s, seq[k])]]
           G == CHOOSE g : g = [s \in SUBSET (1..n) |->
                  IF s = {} THEN base ELSE AddItem(items, g[s \ {Max(s)}], seq[Max(s)])]
           end == FoldLeft(LAMBDA s, a : AddItem(items, s, a), base, seq)
           F == [k \in 0..n |-> G[1..k]]
<1>1. DOMAIN seq = 1..n /\ n \in Nat
  BY UniqueHolds
<1>0. n \in Nat
  BY <1>1
<1>2. base \in D
  <2>1. base \in SplitStates /\ base.groups = <<>> /\ ~base.omitted
    BY DEF SplitStates
  <2>2. Parted(items, <<>>)
    BY DEF Parted
  <2> HIDE DEF base
  <2> QED BY <2>1, <2>2 DEF Splits
<1>3. \A s \in D : \A k \in 1..n : AddItem(items, s, seq[k]) \in D
  <2>1. \A k \in 1..n : seq[k] \in DOMAIN items
    BY <1>1, UniqueHolds
  <2> HIDE DEF n, seq
  <2> QED BY <2>1, AddItemHolds
<1>12. Split(items) = end
  BY DEF Split
<1>13. \A k \in 1..n : seq[k] = Unique(items)[k]
  BY <1>1
<1> HIDE DEF n, base, seq, D
<1>5. st \in [1..n -> [D -> D]]
  BY <1>3
<1> HIDE DEF st
<1>6. G = [s \in SUBSET (1..n) |-> IF s = {} THEN base ELSE AddItem(items, G[s \ {Max(s)}], seq[Max(s)])]
  <2>1. PICK g : Folds(g, n, D, base, st)
    BY <1>0, <1>2, <1>5, FoldExists
  <2>2. ASSUME NEW s \in SUBSET (1..n), s # {}
        PROVE  st[Max(s)][g[s \ {Max(s)}]] = AddItem(items, g[s \ {Max(s)}], seq[Max(s)])
    <3>1. s \in SUBSET (0..n)
      OBVIOUS
    <3>2. Max(s) \in 1..n
      BY <1>0, <2>2, <3>1, GreatestOne
    <3>3. g[s \ {Max(s)}] \in D
      BY <2>1 DEF Folds
    <3> QED BY <3>2, <3>3 DEF st
  <2>3. g = [s \in SUBSET (1..n) |-> IF s = {} THEN base ELSE AddItem(items, g[s \ {Max(s)}], seq[Max(s)])]
    BY <2>1, <2>2 DEF Folds
  <2> QED BY <2>3
<1>7. end = G[1..n]
  BY <1>1 DEF FoldLeft, MapThenFoldSet
<1> HIDE DEF G
<1>8. G[{}] = base
  <2>1. {} \in SUBSET (1..n)
    OBVIOUS
  <2> QED BY <1>6, <2>1
<1>9. \A k \in 1..n : G[1..k] = AddItem(items, G[1..(k-1)], seq[k])
  <2> SUFFICES ASSUME NEW k \in 1..n PROVE G[1..k] = AddItem(items, G[1..(k-1)], seq[k])
    OBVIOUS
  <2>1. k \in Nat \ {0} /\ 1..k \in SUBSET (1..n)
    BY <1>0
  <2>2. Max(1..k) = k /\ (1..k) \ {k} = 1..(k-1) /\ 1..k # {}
    BY <2>1, MaxUpto
  <2> QED BY <1>6, <2>1, <2>2
<1>10. \A k \in 0..n : G[1..k] \in D
  <2>1. G[{}] \in D
    BY <1>2, <1>8
  <2>2. \A k \in 1..n : G[1..(k-1)] \in D => G[1..k] \in D
    BY <1>3, <1>9
  <2> QED BY <1>0, <2>1, <2>2, FoldStays
<1>11. /\ F[0] = base /\ F[n] = G[1..n]
       /\ \A k \in 0..n : F[k] = G[1..k]
       /\ \A k \in 1..n : F[k] = AddItem(items, F[k-1], seq[k])
  <2>1. 1..0 = {} /\ 0 \in 0..n /\ n \in 0..n
    BY <1>0
  <2>2. \A k \in 1..n : k \in 0..n /\ k - 1 \in 0..n
    BY <1>0
  <2> QED BY <1>8, <1>9, <2>1, <2>2
<1> HIDE DEF F, end
<1>14. F[0] = base /\ (\A k \in 0..n : F[k] \in D) /\ Split(items) = F[n]
  BY <1>7, <1>10, <1>11, <1>12
<1>15. \A k \in 1..n : F[k] = AddItem(items, F[k-1], Unique(items)[k])
  BY <1>11, <1>13
<1> QED BY <1>14, <1>15 DEF base, n, D

(* What splitting keeps of the items is all of them, or it is said why not.    *)
LEMMA SplitHolds ==
  ASSUME NEW l, NEW items \in Seq(ItemsOf(l))
  PROVE  /\ Split(items) \in Splits(items)
         /\ ~Split(items).omitted =>
              \A j \in DOMAIN Unique(items) : WholeIn(items, Unique(items)[j], Split(items).groups)
<1> DEFINE u == Unique(items)
           n == Len(u)
<1>1. n \in Nat /\ DOMAIN u = 1..n /\ \A j \in 1..n : u[j] \in DOMAIN items
  BY UniqueHolds
<1>2. PICK F : /\ \A k \in 0..n : F[k] \in Splits(items)
               /\ \A k \in 1..n : F[k] = AddItem(items, F[k-1], u[k])
               /\ Split(items) = F[n]
  BY SplitRuns
<1> HIDE DEF u, n
<1> DEFINE V == {k \in Nat : k <= n /\ ~F[k].omitted => \A j \in 1..k : WholeIn(items, u[j], F[k].groups)}
<1>3. 0 \in V
  OBVIOUS
<1>4. ASSUME NEW k \in Nat, k \in V PROVE k + 1 \in V
  <2> SUFFICES ASSUME k + 1 <= n, ~F[k + 1].omitted, NEW j \in 1..(k + 1)
               PROVE  WholeIn(items, u[j], F[k + 1].groups)
    OBVIOUS
  <2>1. k \in 0..n /\ k + 1 \in 1..n /\ (k + 1) - 1 = k /\ k <= n
    <3>1. n \in Nat
      BY <1>1
    <3> HIDE DEF V
    <3> QED BY <3>1
  <2>2. F[k + 1] = AddItem(items, F[k], u[k + 1])
    BY <1>2, <2>1
  <2>3. F[k] \in Splits(items) /\ u[k + 1] \in DOMAIN items /\ F[k + 1] \in Splits(items)
    BY <1>1, <1>2, <2>1
  <2> DEFINE s == F[k]  a == u[k + 1]  r == F[k + 1]
  <2>4. s \in Splits(items) /\ a \in DOMAIN items
        /\ r = AddItem(items, s, a)
    BY <2>2, <2>3
  <2>5. r.omitted = FALSE
    BY <2>3 DEF Splits, SplitStates
  <2> HIDE DEF s, a, r
  <2>6. (r.omitted = FALSE => s.omitted = FALSE /\ WholeIn(items, a, r.groups))
        /\ \A b \in DOMAIN items : WholeIn(items, b, s.groups) => WholeIn(items, b, r.groups)
    BY <2>4, AddItemHolds
  <2>7. CASE j = k + 1
    BY <2>5, <2>6, <2>7 DEF a, r
  <2>8. CASE j \in 1..k
    <3>1. WholeIn(items, u[j], s.groups)
      BY <1>4, <2>1, <2>5, <2>6, <2>8 DEF s
    <3>2. u[j] \in DOMAIN items
      BY <1>1
    <3> QED BY <2>6, <3>1, <3>2 DEF r
  <2> QED BY <2>7, <2>8
<1>5. \A k \in Nat : k \in V
  <2> HIDE DEF V
  <2> QED BY <1>3, <1>4, SetInduction
<1>6. ~F[n].omitted => \A j \in 1..n : WholeIn(items, u[j], F[n].groups)
  BY <1>1, <1>5
<1>7. F[n] \in Splits(items)
  BY <1>1, <1>2
<1> QED BY <1>1, <1>2, <1>6, <1>7 DEF u

-------------------------------------------------------------------------------
(* Packing: the order of the candidates.                                       *)

(* Nothing is lost when sequences are put one after another.                   *)
(* What fits where there is less room fits where there is more.                *)
LEMMA FitsAnywhere ==
  ASSUME NEW S, \A x \in S : x.size \in Nat, NEW a \in Seq(S), Fits(a, FALSE), NEW first \in BOOLEAN
  PROVE  Fits(a, first)
<1>1. ASSUME NEW j \in DOMAIN a PROVE a[j].size >= 1 /\ a[j].size <= Room(first /\ j = 1)
  <2>1. a[j].size \in Nat /\ Room(FALSE) \in Nat /\ Room(TRUE) \in Nat /\ Room(FALSE) <= Room(TRUE)
    <3>1. a[j] \in S
      OBVIOUS
    <3>2. \A b \in BOOLEAN : Room(b) \in Nat
      BY RoomTyped
    <3>3. Room(FALSE) <= Room(TRUE)
      BY RoomTyped
    <3>4. Room(FALSE) \in Nat
      BY <3>2
    <3>5. Room(TRUE) \in Nat
      BY <3>2
    <3> QED BY <3>1, <3>3, <3>4, <3>5
  <2>2. a[j].size >= 1 /\ a[j].size <= Room(FALSE)
    <3>1. Room(FALSE /\ j = 1) = Room(FALSE)
      BY DEF Room
    <3> QED BY <3>1 DEF Fits
  <2>3. Room(first /\ j = 1) = Room(FALSE) \/ Room(first /\ j = 1) = Room(TRUE)
    BY DEF Room
  <2> DEFINE r == Room(first /\ j = 1)  x == a[j].size  y == Room(FALSE)  z == Room(TRUE)
  <2>5. x \in Nat /\ y \in Nat /\ z \in Nat /\ y <= z /\ x >= 1 /\ x <= y
    BY <2>1, <2>2
  <2>6. r = y \/ r = z
    BY <2>3
  <2> HIDE DEF r, x, y, z
  <2>4. x >= 1 /\ x <= r
    BY <2>5, <2>6
  <2> QED BY <2>4 DEF r, x
<1> QED BY <1>1 DEF Fits

LEMMA FlattenFits ==
  ASSUME NEW S, \A x \in S : x.size \in Nat, NEW seqs \in Seq(Seq(S)), NEW first \in BOOLEAN,
         \A g \in DOMAIN seqs : Fits(seqs[g], first /\ g = 1)
  PROVE  FlattenSeq(seqs) \in Seq(S) /\ Fits(FlattenSeq(seqs), first)
<1> DEFINE n == Len(seqs)
<1>1. PICK h : Flattens(h, seqs, S)
  BY FlattenRuns
<1>2. n \in Nat /\ DOMAIN seqs = 1..n /\ \A i \in 1..n : seqs[i] \in Seq(S)
  OBVIOUS
<1>3. /\ FlattenSeq(seqs) = h[n] /\ h[0] = <<>>
      /\ \A i \in 0..n : h[i] \in Seq(S)
      /\ \A i \in 1..n : h[i] = h[i-1] \o seqs[i]
  BY <1>1 DEF Flattens
<1> HIDE DEF n
<1> DEFINE V == {i \in Nat : i <= n => Fits(h[i], first)}
<1>4. 0 \in V
  BY <1>3 DEF Fits
<1>5. ASSUME NEW i \in Nat, i \in V PROVE i + 1 \in V
  <2> SUFFICES ASSUME i + 1 <= n PROVE Fits(h[i + 1], first)
    OBVIOUS
  <2> DEFINE a == h[i]  b == seqs[i + 1]
  <2>1. i \in 0..n /\ i + 1 \in 1..n /\ (i + 1) - 1 = i
    BY <1>2
  <2>2. h[i + 1] = a \o b /\ a \in Seq(S) /\ b \in Seq(S) /\ Fits(a, first)
    <3>1. i <= n
      BY <1>2, <2>1
    <3>2. Fits(a, first)
      BY <1>5, <3>1
    <3> QED BY <1>2, <1>3, <2>1, <3>2
  <2>3. Fits(b, first /\ a = <<>>)
    <3> DEFINE e == first /\ a = <<>>
               d == first /\ i + 1 = 1
    <3>1. d \in BOOLEAN /\ e \in BOOLEAN
      OBVIOUS
    <3>2. Fits(b, d)
      BY <1>2, <2>1
    <3>3. d => e
      BY <1>3
    <3> HIDE DEF d, e, a, b
    <3>4. CASE d
      <4>1. d <=> e
        BY <3>3, <3>4
      <4> QED BY <3>1, <3>2, <4>1, FitsSame DEF e
    <3>5. CASE ~d
      <4>1. d <=> FALSE
        BY <3>5
      <4>2. Fits(b, FALSE)
        BY <3>1, <3>2, <4>1, FitsSame
      <4>3. Fits(b, e)
        BY <2>2, <3>1, <4>2, FitsAnywhere
      <4> QED BY <4>3 DEF e
    <3> QED BY <3>4, <3>5
  <2> HIDE DEF a, b
  <2> QED BY <2>2, <2>3, BothFit
<1>6. \A i \in Nat : i \in V
  <2> HIDE DEF V
  <2> QED BY <1>4, <1>5, SetInduction
<1>7. n \in 0..n
  BY <1>2
<1> QED BY <1>2, <1>3, <1>6, <1>7

(* Taking turns.                                                               *)
LEMMA RoundRobinHolds ==
  ASSUME NEW S, \A x \in S : x.size \in Nat, NEW groups \in Seq(Seq(S)),
         \A g \in DOMAIN groups : Fits(groups[g], FALSE)
  PROVE  /\ RoundRobin(groups) \in Seq(S) /\ Fits(RoundRobin(groups), FALSE)
         /\ \A g \in DOMAIN groups : \A k \in DOMAIN groups[g] : groups[g][k] \in ToSet(RoundRobin(groups))
<1> DEFINE longest == Max({Len(groups[g]) : g \in DOMAIN groups} \cup {0})
           One(g, r) == IF r <= Len(groups[g]) THEN <<groups[g][r]>> ELSE <<>>
           Turn(r) == [g \in DOMAIN groups |-> One(g, r)]
           Round(r) == FlattenSeq(Turn(r))
           rounds == [r \in 1..longest |-> Round(r)]
           n == Len(groups)
<1>1. RoundRobin(groups) = FlattenSeq(rounds)
  BY DEF RoundRobin
<1>2. longest \in Nat /\ \A g \in DOMAIN groups : Len(groups[g]) <= longest
  BY LongestIs
<1>3. n \in Nat /\ DOMAIN groups = 1..n /\ \A g \in 1..n : groups[g] \in Seq(S)
  OBVIOUS
<1> HIDE DEF longest, n
<1>4. ASSUME NEW g \in 1..n, NEW r \in 1..longest
      PROVE  One(g, r) \in Seq(S) /\ Fits(One(g, r), FALSE)
  <2>1. CASE r <= Len(groups[g])
    <3> DEFINE x == groups[g][r]
    <3>1. r \in DOMAIN groups[g] /\ x \in S
      BY <1>2, <1>3, <2>1
    <3>2. x.size \in Nat /\ x.size >= 1 /\ x.size <= Room(FALSE)
      <4>1. Room(FALSE /\ r = 1) = Room(FALSE)
        BY DEF Room
      <4>2. Fits(groups[g], FALSE)
        BY <1>3
      <4> QED BY <3>1, <4>1, <4>2 DEF Fits
    <3> HIDE DEF x
    <3>3. <<x>> \in Seq(S) /\ Fits(<<x>>, FALSE)
      BY <3>1, <3>2, OneFits
    <3> QED BY <2>1, <3>3 DEF x
  <2>2. CASE ~(r <= Len(groups[g]))
    <3>1. One(g, r) = <<>>
      BY <2>2
    <3>2. <<>> \in Seq(S) /\ Fits(<<>>, FALSE)
      BY DEF Fits
    <3> HIDE DEF One
    <3> QED BY <3>1, <3>2
  <2> QED BY <2>1, <2>2
<1> HIDE DEF One
<1>5. ASSUME NEW r \in 1..longest
      PROVE  Turn(r) \in Seq(Seq(S)) /\ Round(r) \in Seq(S) /\ Fits(Round(r), FALSE)
  <2>1. Turn(r) \in Seq(Seq(S)) /\ DOMAIN Turn(r) = 1..n /\ \A g \in 1..n : Turn(r)[g] = One(g, r)
    <3>1. Turn(r) = [g \in 1..n |-> One(g, r)]
      BY <1>3
    <3>2. \A g \in 1..n : One(g, r) \in Seq(S)
      BY <1>4
    <3> HIDE DEF Turn
    <3>3. Turn(r) \in [1..n -> Seq(S)]
      BY <3>1, <3>2
    <3> QED BY <1>3, <3>1, <3>3
  <2> DEFINE T == Turn(r)
  <2>2. ASSUME NEW g \in DOMAIN T PROVE Fits(T[g], FALSE /\ g = 1)
    <3> DEFINE e == FALSE /\ g = 1
    <3>1. Fits(T[g], FALSE)
      BY <1>4, <2>1
    <3>2. e \in BOOLEAN /\ (FALSE <=> e)
      OBVIOUS
    <3> HIDE DEF e, T
    <3>3. Fits(T[g], e)
      BY <3>1, <3>2, FitsSame
    <3> QED BY <3>3 DEF e
  <2>3. T \in Seq(Seq(S))
    BY <2>1
  <2> HIDE DEF T
  <2>4. FlattenSeq(T) \in Seq(S) /\ Fits(FlattenSeq(T), FALSE)
    BY <2>2, <2>3, FlattenFits
  <2> QED BY <2>1, <2>4 DEF T
<1>6. ASSUME NEW g \in DOMAIN groups, NEW k \in DOMAIN groups[g]
      PROVE  k \in 1..longest /\ groups[g][k] \in ToSet(Round(k))
  <2>1. Len(groups[g]) \in Nat /\ k \in 1..Len(groups[g]) /\ Len(groups[g]) <= longest /\ g \in 1..n
    BY <1>2, <1>3
  <2>2. k \in 1..longest
    BY <1>2, <2>1
  <2> DEFINE T == Turn(k)
  <2>3. T[g] = <<groups[g][k]>> /\ g \in DOMAIN T
    BY <2>1, <1>3 DEF One
  <2>4. T \in Seq(Seq(S))
    BY <1>5, <2>2
  <2>5. 1 \in DOMAIN T[g] /\ T[g][1] = groups[g][k]
    BY <2>3
  <2> HIDE DEF T
  <2>6. T[g][1] \in ToSet(FlattenSeq(T))
    BY <2>3, <2>4, <2>5, FlattenHas
  <2> QED BY <2>2, <2>5, <2>6 DEF T
<1> HIDE DEF Round
<1>7. rounds \in Seq(Seq(S)) /\ DOMAIN rounds = 1..longest /\ \A r \in 1..longest : rounds[r] = Round(r)
  <2>1. \A r \in 1..longest : Round(r) \in Seq(S)
    BY <1>5
  <2>2. rounds \in [1..longest -> Seq(S)]
    BY <2>1
  <2> QED BY <1>2, <2>2
<1> HIDE DEF rounds
<1>8. ASSUME NEW r \in DOMAIN rounds PROVE Fits(rounds[r], FALSE /\ r = 1)
  <2> DEFINE e == FALSE /\ r = 1
  <2>1. Fits(rounds[r], FALSE)
    BY <1>5, <1>7
  <2>2. e \in BOOLEAN /\ (FALSE <=> e)
    OBVIOUS
  <2> HIDE DEF e
  <2>3. Fits(rounds[r], e)
    BY <2>1, <2>2, FitsSame
  <2> QED BY <2>3 DEF e
<1>9. FlattenSeq(rounds) \in Seq(S) /\ Fits(FlattenSeq(rounds), FALSE)
  BY <1>7, <1>8, FlattenFits
<1>10. ASSUME NEW g \in DOMAIN groups, NEW k \in DOMAIN groups[g]
       PROVE  groups[g][k] \in ToSet(FlattenSeq(rounds))
  <2>1. k \in DOMAIN rounds /\ rounds[k] = Round(k) /\ groups[g][k] \in ToSet(Round(k))
    BY <1>6, <1>7
  <2>2. PICK j \in DOMAIN rounds[k] : rounds[k][j] = groups[g][k]
    BY <2>1 DEF ToSet
  <2>3. rounds[k][j] \in ToSet(FlattenSeq(rounds))
    BY <1>7, <2>1, <2>2, FlattenHas
  <2> QED BY <2>2, <2>3
<1> QED BY <1>1, <1>9, <1>10

LEMMA LeadAndRest ==
  ASSUME NEW S, \A x \in S : x.size \in Nat, NEW group \in Seq(S), group # <<>>, NEW first \in BOOLEAN,
         Fits(group, first)
  PROVE  /\ Lead(group) \in Seq(S) /\ Lead(group) # <<>> /\ Fits(Lead(group), first)
         /\ Rest(group) \in Seq(S) /\ Fits(Rest(group), FALSE)
         /\ Lead(group)[1] = group[1]
         /\ \A k \in DOMAIN group : group[k] \in ToSet(Lead(group)) \/ group[k] \in ToSet(Rest(group))
<1> DEFINE n == Len(group)
           one == SubSeq(group, 1, 1)
           tail == Tail(group)
<1>1. n \in Nat /\ n >= 1 /\ DOMAIN group = 1..n /\ \A k \in 1..n : group[k] \in S
  OBVIOUS
<1>2. CASE Small(group)
  <2>1. Lead(group) = group /\ Rest(group) = <<>>
    BY <1>2 DEF Lead, Rest
  <2>2. <<>> \in Seq(S) /\ Fits(<<>>, FALSE)
    BY DEF Fits
  <2>3. \A k \in DOMAIN group : group[k] \in ToSet(group)
    BY DEF ToSet
  <2> QED BY <2>1, <2>2, <2>3
<1>3. CASE ~Small(group)
  <2>1. Lead(group) = one /\ Rest(group) = tail
    BY <1>3 DEF Lead, Rest
  <2>2. one \in Seq(S) /\ Len(one) = 1 /\ one[1] = group[1] /\ DOMAIN one = {1}
    BY <1>1
  <2>3. tail \in Seq(S) /\ Len(tail) = n - 1 /\ DOMAIN tail = 1..(n - 1)
        /\ \A k \in 1..(n - 1) : tail[k] = group[k + 1]
    BY <1>1
  <2> HIDE DEF one, tail, n
  <2>4. Fits(one, first)
    <3>1. Fits(group, first) /\ 1 \in DOMAIN group
      BY <1>1
    <3> QED BY <2>2, <3>1 DEF Fits
  <2>5. Fits(tail, FALSE)
    <3> SUFFICES ASSUME NEW k \in 1..(n - 1)
                 PROVE  tail[k].size >= 1 /\ tail[k].size <= Room(FALSE /\ k = 1)
      BY <2>3 DEF Fits
    <3>1. k + 1 \in DOMAIN group /\ k + 1 # 1
      BY <1>1
    <3>2. Room(first /\ k + 1 = 1) = Room(FALSE /\ k = 1)
      BY <3>1 DEF Room
    <3>3. group[k + 1].size >= 1 /\ group[k + 1].size <= Room(first /\ k + 1 = 1)
      BY <3>1 DEF Fits
    <3> QED BY <2>3, <3>2, <3>3
  <2>6. ASSUME NEW k \in DOMAIN group PROVE group[k] \in ToSet(one) \/ group[k] \in ToSet(tail)
    <3>1. CASE k = 1
      BY <2>2, <3>1 DEF ToSet
    <3>2. CASE k # 1
      <4>1. k - 1 \in 1..(n - 1) /\ (k - 1) + 1 = k
        BY <1>1, <3>2
      <4>2. tail[k - 1] = group[k] /\ k - 1 \in DOMAIN tail
        BY <2>3, <4>1
      <4> QED BY <4>2 DEF ToSet
    <3> QED BY <3>1, <3>2
  <2>7. one # <<>>
    <3>1. Len(one) = 1
      BY <2>2
    <3> QED BY <3>1
  <2> QED BY <2>1, <2>2, <2>3, <2>4, <2>5, <2>6, <2>7
<1> QED BY <1>2, <1>3

(* The candidates are those of the groups, in an order in which each fits. *)
LEMMA CandidatesHold ==
  ASSUME NEW items, NEW groups, Parted(items, groups), NEW interleave \in BOOLEAN
  PROVE  LET cs == Candidates(groups, interleave)
         IN /\ cs \in Seq(ItemChoices(items)) /\ Fits(cs, TRUE)
            /\ \A g \in DOMAIN groups : \A k \in DOMAIN groups[g] : groups[g][k] \in ToSet(cs)
<1> DEFINE S == ItemChoices(items)
           n == Len(groups)
           cs == Candidates(groups, interleave)
<1>1. \A x \in S : x.size \in Nat
  BY DEF ItemChoices, ItemPassages
<1>2. groups \in Seq(Seq(S)) /\ n \in Nat /\ DOMAIN groups = 1..n
  <2>1. groups \in Seq(Seq(ItemPassages)) /\ n \in Nat /\ DOMAIN groups = 1..n
    BY DEF Parted
  <2>2. ASSUME NEW g \in 1..n PROVE groups[g] \in Seq(S)
    <3>1. groups[g] \in Seq(ItemPassages) /\ OneItem(items, groups[g])
      <4>1. groups[g] \in Seq(ItemPassages)
        <5> HIDE DEF S, n
        <5> QED BY <2>1
      <4>2. g \in DOMAIN groups
        BY <2>1
      <4>3. OneItem(items, groups[g])
        BY <4>2 DEF Parted
      <4> QED BY <4>1, <4>3
    <3>2. \A k \in DOMAIN groups[g] : groups[g][k] \in S
      BY <3>1 DEF OneItem, ItemChoices
    <3> HIDE DEF S
    <3> QED BY <3>1, <3>2
  <2> HIDE DEF S
  <2> QED BY <2>1, <2>2
<1>3. \A g \in DOMAIN groups : groups[g] # <<>> /\ Fits(groups[g], g = 1)
  BY DEF Parted
<1> HIDE DEF S, n
<1>4. \A g \in DOMAIN groups : groups[g] \in Seq(S)
  BY <1>2
<1>5. CASE interleave = FALSE
  <2>1. cs = FlattenSeq(groups)
    BY <1>5 DEF Candidates
  <2>2. ASSUME NEW g \in DOMAIN groups PROVE Fits(groups[g], TRUE /\ g = 1)
    <3> DEFINE a == g = 1  b == TRUE /\ g = 1
    <3>1. a \in BOOLEAN /\ b \in BOOLEAN /\ (a <=> b) /\ Fits(groups[g], a)
      BY <1>3
    <3> HIDE DEF a, b
    <3>2. Fits(groups[g], b)
      BY <3>1, FitsSame
    <3> QED BY <3>2 DEF b
  <2>3. FlattenSeq(groups) \in Seq(S) /\ Fits(FlattenSeq(groups), TRUE)
    BY <1>1, <1>2, <2>2, FlattenFits
  <2>4. \A g \in DOMAIN groups : \A k \in DOMAIN groups[g] : groups[g][k] \in ToSet(FlattenSeq(groups))
    BY <1>2, FlattenHas
  <2> HIDE DEF cs
  <2> QED BY <2>1, <2>3, <2>4 DEF cs, S
<1>6. CASE interleave = TRUE
  <2> DEFINE leads == [g \in DOMAIN groups |-> Lead(groups[g])]
             rests == [g \in DOMAIN groups |-> Rest(groups[g])]
             a == FlattenSeq(leads)
             b == RoundRobin(rests)
  <2>1. cs = a \o b
    BY <1>6 DEF Candidates
  <2>2. ASSUME NEW g \in DOMAIN groups
        PROVE  /\ Lead(groups[g]) \in Seq(S) /\ Rest(groups[g]) \in Seq(S)
               /\ Fits(Lead(groups[g]), TRUE /\ g = 1) /\ Fits(Rest(groups[g]), FALSE)
               /\ \A k \in DOMAIN groups[g] :
                    groups[g][k] \in ToSet(Lead(groups[g])) \/ groups[g][k] \in ToSet(Rest(groups[g]))
    <3> DEFINE f == g = 1  e == TRUE /\ g = 1  x == groups[g]
    <3>1. f \in BOOLEAN /\ e \in BOOLEAN /\ (f <=> e) /\ Fits(x, f) /\ x # <<>> /\ x \in Seq(S)
      BY <1>3, <1>4
    <3> HIDE DEF f, e, x
    <3>2. Fits(x, e)
      BY <3>1, FitsSame
    <3>3. /\ Lead(x) \in Seq(S) /\ Fits(Lead(x), e)
          /\ Rest(x) \in Seq(S) /\ Fits(Rest(x), FALSE)
          /\ \A k \in DOMAIN x : x[k] \in ToSet(Lead(x)) \/ x[k] \in ToSet(Rest(x))
      BY <1>1, <3>1, <3>2, LeadAndRest
    <3> QED BY <3>3 DEF e, x
  <2>3. leads \in Seq(Seq(S)) /\ DOMAIN leads = DOMAIN groups
        /\ \A g \in DOMAIN groups : leads[g] = Lead(groups[g])
    <3>1. leads \in [1..n -> Seq(S)]
      BY <1>2, <2>2
    <3> QED BY <1>2, <3>1
  <2>4. rests \in Seq(Seq(S)) /\ DOMAIN rests = DOMAIN groups
        /\ \A g \in DOMAIN groups : rests[g] = Rest(groups[g])
    <3>1. rests \in [1..n -> Seq(S)]
      BY <1>2, <2>2
    <3> QED BY <1>2, <3>1
  <2> HIDE DEF leads, rests
  <2>5. \A g \in DOMAIN leads : Fits(leads[g], TRUE /\ g = 1)
    BY <2>2, <2>3
  <2>6. a \in Seq(S) /\ Fits(a, TRUE)
    BY <1>1, <2>3, <2>5, FlattenFits
  <2>7. \A g \in DOMAIN rests : Fits(rests[g], FALSE)
    BY <2>2, <2>4
  <2>8. b \in Seq(S) /\ Fits(b, FALSE)
        /\ \A g \in DOMAIN rests : \A k \in DOMAIN rests[g] : rests[g][k] \in ToSet(b)
    BY <1>1, <2>4, <2>7, RoundRobinHolds
  <2>9. \A g \in DOMAIN leads : \A k \in DOMAIN leads[g] : leads[g][k] \in ToSet(a)
    BY <2>3, FlattenHas
  <2> HIDE DEF a, b, cs
  <2>10. a \o b \in Seq(S) /\ Fits(a \o b, TRUE)
    <3> DEFINE e == TRUE /\ a = <<>>
    <3>1. e \in BOOLEAN
      OBVIOUS
    <3> HIDE DEF e
    <3>2. Fits(b, e)
      BY <1>1, <2>8, <3>1, FitsAnywhere
    <3>3. Fits(b, TRUE /\ a = <<>>)
      BY <3>2 DEF e
    <3> QED BY <1>1, <2>6, <2>8, <3>3, BothFit
  <2>11. ToSet(a \o b) = ToSet(a) \cup ToSet(b)
    BY <2>6, <2>8, BothHave
  <2>12. ASSUME NEW g \in DOMAIN groups, NEW k \in DOMAIN groups[g] PROVE groups[g][k] \in ToSet(cs)
    <3>1. CASE groups[g][k] \in ToSet(Lead(groups[g]))
      <4>1. PICK j \in DOMAIN leads[g] : leads[g][j] = groups[g][k]
        BY <2>3, <3>1 DEF ToSet
      <4> QED BY <2>1, <2>3, <2>9, <2>11, <4>1
    <3>2. CASE groups[g][k] \in ToSet(Rest(groups[g]))
      <4>1. PICK j \in DOMAIN rests[g] : rests[g][j] = groups[g][k]
        BY <2>4, <3>2 DEF ToSet
      <4> QED BY <2>1, <2>4, <2>8, <2>11, <4>1
    <3> QED BY <2>2, <3>1, <3>2
  <2> QED BY <2>1, <2>10, <2>12 DEF cs, S
<1> QED BY <1>5, <1>6

-------------------------------------------------------------------------------
(* Packing: what is selected.                                                  *)

LEMMA SayIs ==
  ASSUME NEW items, NEW s \in SelectStates(items), NEW why \in SUBSET Quotas
  PROVE  /\ Say(s, why) \in SelectStates(items)
         /\ Say(s, why).passages = s.passages /\ Say(s, why).chars = s.chars
         /\ Say(s, why).truncated = TRUE /\ Say(s, why).said = s.said \cup why
<1>1. s.said \cup why \in SUBSET Quotas
  BY DEF SelectStates
<1> QED BY <1>1 DEF Say, SelectStates

(* A passage that fits.                                                        *)
LEMMA FragmentFits ==
  ASSUME NEW items, NEW c \in ItemChoices(items), NEW first \in BOOLEAN, c.size >= 1, c.size <= Room(first)
  PROVE  Fragment(c, first) \in Nat \ {0} /\ Fragment(c, first) <= MaxPassageChars
<1> DEFINE x == c.size  r == Room(first)  y == IF first THEN 0 ELSE SeparatorChars
<1>1. x \in Nat /\ x >= 1 /\ x <= r
  BY DEF ItemChoices, ItemPassages
<1>2. HeaderChars \in Nat /\ SeparatorChars \in Nat /\ MaxPassageChars \in Nat
  BY PackerAssumption
<1>3. r \in Nat /\ y \in Nat
  BY <1>2, RoomTyped
<1>4. r # 0 => HeaderChars + r + y = MaxPassageChars
  BY RoomTyped
<1>5. Fragment(c, first) = HeaderChars + x + y
  BY DEF Fragment
<1> HIDE DEF x, r, y
<1> QED BY <1>1, <1>2, <1>3, <1>4, <1>5

(* A passage that fits is taken, or it is said why not.                        *)
LEMMA AddPassageHolds ==
  ASSUME NEW items, NEW s \in SelectStates(items), NEW c \in ItemChoices(items),
         c.size >= 1, c.size <= Room(s.passages = <<>>)
  PROVE  LET r == AddPassage(items, s, c)
         IN /\ r \in SelectStates(items)
            /\ r.said # {} \/ (r.truncated = s.truncated /\ r.said = s.said)
            /\ r.truncated = FALSE => s.truncated = FALSE /\ r.passages = Append(s.passages, c)
            /\ r.passages = s.passages \/ r.passages = Append(s.passages, c)
<1> DEFINE f == s.passages = <<>>
           fragment == Fragment(c, f)
           r == AddPassage(items, s, c)
           t == [s EXCEPT !.passages = Append(@, c), !.chars = @ + fragment]
<1>1. fragment \in Nat /\ fragment <= MaxPassageChars
  <2>1. f \in BOOLEAN /\ c.size <= Room(f)
    OBVIOUS
  <2> HIDE DEF f
  <2> QED BY <2>1, FragmentFits
<1>2. ~(fragment > MaxPassageChars)
  BY <1>1, PackerAssumption
<1>3. s.passages \in Seq(ItemChoices(items)) /\ s.chars \in Nat /\ s.truncated \in BOOLEAN /\ s.said \in SUBSET Quotas
  BY DEF SelectStates
<1> HIDE DEF fragment
<1>4. t \in SelectStates(items) /\ t.passages = Append(s.passages, c) /\ t.truncated = s.truncated /\ t.said = s.said
  <2>1. Append(s.passages, c) \in Seq(ItemChoices(items)) /\ s.chars + fragment \in Nat
    BY <1>1, <1>3
  <2> QED BY <1>3, <2>1 DEF SelectStates
<1> HIDE DEF t
<1>5. \/ r = Say(s, {"passage_quota_reached"}) \/ r = Say(s, {"source_passage_quota_reached"})
      \/ r = Say(s, {"context_budget_exhausted"}) \/ r = t
  BY <1>2 DEF AddPassage, fragment, t
<1> HIDE DEF r
<1>6. ASSUME NEW why \in Quotas, r = Say(s, {why})
      PROVE  r \in SelectStates(items) /\ r.said # {} /\ r.truncated = TRUE /\ r.passages = s.passages
  <2> DEFINE more == {why}
  <2>1. more \in SUBSET Quotas /\ r = Say(s, more)
    BY <1>6
  <2> HIDE DEF more
  <2>3. /\ Say(s, more) \in SelectStates(items) /\ Say(s, more).passages = s.passages
        /\ Say(s, more).truncated = TRUE /\ Say(s, more).said = s.said \cup more
    <3>1. more \in SUBSET Quotas
      BY <2>1
    <3> HIDE DEF r
    <3>2. Say(s, more).passages = s.passages /\ Say(s, more).truncated = TRUE
          /\ Say(s, more).said = s.said \cup more
      BY DEF Say, SelectStates
    <3>3. Say(s, more) \in SelectStates(items)
      BY <3>1, SayIs
    <3> QED BY <3>2, <3>3
  <2>2. r \in SelectStates(items) /\ r.passages = s.passages /\ r.truncated = TRUE /\ r.said = s.said \cup {why}
    BY <2>1, <2>3 DEF more
  <2> QED BY <2>2
<1>7. /\ "passage_quota_reached" \in Quotas /\ "source_passage_quota_reached" \in Quotas
      /\ "context_budget_exhausted" \in Quotas
  BY DEF Quotas
<1>8. \/ r \in SelectStates(items) /\ r.said # {} /\ r.truncated = TRUE /\ r.passages = s.passages
      \/ r = t
  BY <1>5, <1>6, <1>7
<1> QED BY <1>4, <1>8 DEF r

LEMMA AddPassageTyped ==
  ASSUME NEW items, NEW s \in SelectStates(items), NEW c \in ItemChoices(items)
  PROVE  AddPassage(items, s, c) \in SelectStates(items)
<1> DEFINE fragment == Fragment(c, s.passages = <<>>)
           t == [s EXCEPT !.passages = Append(@, c), !.chars = @ + fragment]
<1>1. fragment \in Nat
  <2>1. c.size \in Nat /\ HeaderChars \in Nat /\ SeparatorChars \in Nat
    BY PackerAssumption DEF ItemChoices, ItemPassages
  <2> QED BY <2>1 DEF Fragment
<1>2. s.passages \in Seq(ItemChoices(items)) /\ s.chars \in Nat
  BY DEF SelectStates
<1> HIDE DEF fragment
<1>3. t \in SelectStates(items)
  <2>1. Append(s.passages, c) \in Seq(ItemChoices(items)) /\ s.chars + fragment \in Nat
    BY <1>1, <1>2
  <2> QED BY <2>1 DEF SelectStates
<1> HIDE DEF t
<1>4. \A why \in SUBSET Quotas : Say(s, why) \in SelectStates(items)
  BY SayIs
<1>5. /\ {"passage_quota_reached"} \in SUBSET Quotas /\ {"source_passage_quota_reached"} \in SUBSET Quotas
      /\ {"context_budget_exhausted"} \in SUBSET Quotas /\ {} \in SUBSET Quotas
  BY DEF Quotas
<1>6. /\ Say(s, {"passage_quota_reached"}) \in SelectStates(items)
      /\ Say(s, {"source_passage_quota_reached"}) \in SelectStates(items)
      /\ Say(s, {"context_budget_exhausted"}) \in SelectStates(items)
      /\ Say(s, {}) \in SelectStates(items)
  BY <1>4, <1>5
<1> QED BY <1>3, <1>6 DEF AddPassage, fragment, t

(* The candidates, one after another.                                          *)
LEMMA SelectRuns ==
  ASSUME NEW items, NEW candidates \in Seq(ItemChoices(items))
  PROVE  \E F : /\ F[0] = [passages |-> <<>>, chars |-> 0, truncated |-> FALSE, said |-> {}]
                /\ \A k \in 0..Len(candidates) : F[k] \in SelectStates(items)
                /\ \A k \in 1..Len(candidates) : F[k] = AddPassage(items, F[k-1], candidates[k])
                /\ Select(items, candidates) = F[Len(candidates)]
<1> DEFINE base == [passages |-> <<>>, chars |-> 0, truncated |-> FALSE, said |-> {}]
           n == Len(candidates)
           seq == candidates
           D == SelectStates(items)
           st == [k \in 1..n |-> [s \in D |-> AddPassage(items, s, seq[k])]]
           G == CHOOSE g : g = [s \in SUBSET (1..n) |->
                  IF s = {} THEN base ELSE AddPassage(items, g[s \ {Max(s)}], seq[Max(s)])]
           end == FoldLeft(LAMBDA s, c : AddPassage(items, s, c), base, seq)
           F == [k \in 0..n |-> G[1..k]]
<1>1. DOMAIN seq = 1..n /\ n \in Nat
  OBVIOUS
<1>0. n \in Nat
  BY <1>1
<1>2. base \in D
  BY DEF SelectStates
<1>3. \A s \in D : \A k \in 1..n : AddPassage(items, s, seq[k]) \in D
  <2>1. \A k \in 1..n : seq[k] \in ItemChoices(items)
    BY <1>1
  <2> HIDE DEF n, seq
  <2> QED BY <2>1, AddPassageTyped
<1>12. Select(items, candidates) = end
  BY DEF Select
<1>13. \A k \in 1..n : seq[k] = candidates[k]
  BY <1>1
<1> HIDE DEF n, base, seq, D
<1>5. st \in [1..n -> [D -> D]]
  BY <1>3
<1> HIDE DEF st
<1>6. G = [s \in SUBSET (1..n) |-> IF s = {} THEN base ELSE AddPassage(items, G[s \ {Max(s)}], seq[Max(s)])]
  <2>1. PICK g : Folds(g, n, D, base, st)
    BY <1>0, <1>2, <1>5, FoldExists
  <2>2. ASSUME NEW s \in SUBSET (1..n), s # {}
        PROVE  st[Max(s)][g[s \ {Max(s)}]] = AddPassage(items, g[s \ {Max(s)}], seq[Max(s)])
    <3>1. s \in SUBSET (0..n)
      OBVIOUS
    <3>2. Max(s) \in 1..n
      BY <1>0, <2>2, <3>1, GreatestOne
    <3>3. g[s \ {Max(s)}] \in D
      BY <2>1 DEF Folds
    <3> QED BY <3>2, <3>3 DEF st
  <2>3. g = [s \in SUBSET (1..n) |-> IF s = {} THEN base ELSE AddPassage(items, g[s \ {Max(s)}], seq[Max(s)])]
    BY <2>1, <2>2 DEF Folds
  <2> QED BY <2>3
<1>7. end = G[1..n]
  BY <1>1 DEF FoldLeft, MapThenFoldSet
<1> HIDE DEF G
<1>8. G[{}] = base
  <2>1. {} \in SUBSET (1..n)
    OBVIOUS
  <2> QED BY <1>6, <2>1
<1>9. \A k \in 1..n : G[1..k] = AddPassage(items, G[1..(k-1)], seq[k])
  <2> SUFFICES ASSUME NEW k \in 1..n PROVE G[1..k] = AddPassage(items, G[1..(k-1)], seq[k])
    OBVIOUS
  <2>1. k \in Nat \ {0} /\ 1..k \in SUBSET (1..n)
    BY <1>0
  <2>2. Max(1..k) = k /\ (1..k) \ {k} = 1..(k-1) /\ 1..k # {}
    BY <2>1, MaxUpto
  <2> QED BY <1>6, <2>1, <2>2
<1>10. \A k \in 0..n : G[1..k] \in D
  <2>1. G[{}] \in D
    BY <1>2, <1>8
  <2>2. \A k \in 1..n : G[1..(k-1)] \in D => G[1..k] \in D
    BY <1>3, <1>9
  <2> QED BY <1>0, <2>1, <2>2, FoldStays
<1>11. /\ F[0] = base /\ F[n] = G[1..n]
       /\ \A k \in 0..n : F[k] = G[1..k]
       /\ \A k \in 1..n : F[k] = AddPassage(items, F[k-1], seq[k])
  <2>1. 1..0 = {} /\ 0 \in 0..n /\ n \in 0..n
    BY <1>0
  <2>2. \A k \in 1..n : k \in 0..n /\ k - 1 \in 0..n
    BY <1>0
  <2> QED BY <1>8, <1>9, <2>1, <2>2
<1> HIDE DEF F, end
<1>14. F[0] = base /\ (\A k \in 0..n : F[k] \in D) /\ Select(items, candidates) = F[n]
  BY <1>7, <1>10, <1>11, <1>12
<1>15. \A k \in 1..n : F[k] = AddPassage(items, F[k-1], candidates[k])
  BY <1>11, <1>13
<1> QED BY <1>14, <1>15 DEF base, n, D

(* Every candidate is selected, or it is said why not.                         *)
LEMMA SelectHolds ==
  ASSUME NEW items, NEW candidates \in Seq(ItemChoices(items)), Fits(candidates, TRUE)
  PROVE  LET r == Select(items, candidates)
         IN /\ r \in SelectStates(items)
            /\ r.truncated => r.said # {}
            /\ ~r.truncated => ToSet(candidates) \subseteq ToSet(r.passages)
<1> DEFINE n == Len(candidates)
           base == [passages |-> <<>>, chars |-> 0, truncated |-> FALSE, said |-> {}]
<1>1. n \in Nat /\ DOMAIN candidates = 1..n /\ \A k \in 1..n : candidates[k] \in ItemChoices(items)
  OBVIOUS
<1>2. PICK F : /\ F[0] = base
               /\ \A k \in 0..n : F[k] \in SelectStates(items)
               /\ \A k \in 1..n : F[k] = AddPassage(items, F[k-1], candidates[k])
               /\ Select(items, candidates) = F[n]
  BY SelectRuns
<1> HIDE DEF n
<1> DEFINE Q(k) == /\ F[k].truncated => F[k].said # {}
                   /\ F[k].truncated = FALSE => \A j \in 1..k : candidates[j] \in ToSet(F[k].passages)
                   /\ k = 0 => F[k].passages = <<>>
           V == {k \in Nat : k <= n => Q(k)}
<1>3. 0 \in V
  <2>1. F[0].truncated = FALSE /\ F[0].passages = <<>>
    BY <1>2
  <2>2. \A j \in 1..0 : FALSE
    OBVIOUS
  <2> QED BY <2>1, <2>2
<1>4. ASSUME NEW k \in Nat, k \in V PROVE k + 1 \in V
  <2> SUFFICES ASSUME k + 1 <= n PROVE Q(k + 1)
    <3> HIDE DEF Q
    <3> QED OBVIOUS
  <2>1. k \in 0..n /\ k + 1 \in 1..n /\ (k + 1) - 1 = k /\ k <= n /\ k + 1 # 0
    BY <1>1
  <2> DEFINE s == F[k]  c == candidates[k + 1]  r == F[k + 1]
  <2>2. r = AddPassage(items, s, c) /\ s \in SelectStates(items) /\ c \in ItemChoices(items)
    BY <1>1, <1>2, <2>1
  <2>3. Q(k)
    BY <1>4, <2>1
  <2>4. c.size >= 1 /\ c.size <= Room(s.passages = <<>>)
    <3> DEFINE x == c.size  a == Room(s.passages = <<>>)  b == Room(TRUE /\ k + 1 = 1)
    <3>1. x >= 1 /\ x <= b
      BY <1>1, <2>1 DEF Fits
    <3>2. x \in Nat /\ a \in Nat /\ b \in Nat
      <4>1. x \in Nat
        BY <2>2 DEF ItemChoices, ItemPassages
      <4> QED BY <4>1, RoomTyped DEF Room
    <3>3. b <= a
      <4>1. CASE k = 0
        <5>1. s.passages = <<>>
          BY <2>3, <4>1
        <5>2. a = b
          BY <4>1, <5>1 DEF Room
        <5> HIDE DEF a, b
        <5> QED BY <3>2, <5>2
      <4>2. CASE k # 0
        <5>1. b = Room(FALSE)
          BY <2>1, <4>2 DEF Room
        <5>2. a = Room(TRUE) \/ a = Room(FALSE)
          BY DEF Room
        <5>3. Room(FALSE) <= Room(TRUE) /\ Room(FALSE) \in Nat
          BY RoomTyped
        <5> DEFINE y == Room(FALSE)  z == Room(TRUE)
        <5>4. b = y /\ (a = z \/ a = y) /\ y <= z /\ a \in Nat
          BY <3>2, <5>1, <5>2, <5>3
        <5> HIDE DEF a, b, y, z
        <5>5. z \in Nat /\ y \in Nat
          BY RoomTyped DEF y, z
        <5> QED BY <5>4, <5>5
      <4> QED BY <4>1, <4>2
    <3> HIDE DEF x, a, b
    <3>4. x >= 1 /\ x <= a
      BY <3>1, <3>2, <3>3
    <3> QED BY <3>4 DEF x, a
  <2> HIDE DEF s, c, r
  <2>5. /\ r.said # {} \/ (r.truncated = s.truncated /\ r.said = s.said)
        /\ r.truncated = FALSE => s.truncated = FALSE /\ r.passages = Append(s.passages, c)
    BY <2>2, <2>4, AddPassageHolds
  <2>6. s.passages \in Seq(ItemChoices(items))
    BY <2>2 DEF SelectStates
  <2>7. /\ s.truncated => s.said # {}
        /\ s.truncated = FALSE => \A j \in 1..k : candidates[j] \in ToSet(s.passages)
    BY <2>3 DEF s
  <2>8. r.truncated => r.said # {}
    BY <2>5, <2>7
  <2>9. ASSUME r.truncated = FALSE, NEW j \in 1..(k + 1) PROVE candidates[j] \in ToSet(r.passages)
    <3> DEFINE p == s.passages  m == Len(p)
    <3>1. m \in Nat /\ p \in Seq(ItemChoices(items)) /\ r.passages = Append(p, c)
      BY <2>5, <2>6, <2>9
    <3> HIDE DEF p, m
    <3>2. DOMAIN r.passages = 1..(m + 1) /\ r.passages[m + 1] = c /\ DOMAIN p = 1..m
          /\ \A i \in 1..m : r.passages[i] = p[i]
      BY <3>1 DEF m
    <3>3. m + 1 \in 1..(m + 1) /\ \A i \in 1..m : i \in 1..(m + 1)
      BY <3>1
    <3>4. CASE j = k + 1
      BY <3>2, <3>3, <3>4 DEF ToSet, c
    <3>5. CASE j \in 1..k
      <4>1. candidates[j] \in ToSet(p)
        BY <2>5, <2>7, <2>9, <3>5 DEF p
      <4> QED BY <3>2, <3>3, <4>1 DEF ToSet
    <3> QED BY <3>4, <3>5
  <2> QED BY <2>1, <2>8, <2>9 DEF r
<1>5. \A k \in Nat : k \in V
  <2> HIDE DEF V
  <2> QED BY <1>3, <1>4, SetInduction
<1>6. Q(n) /\ n \in 0..n
  BY <1>1, <1>5
<1>7. F[n] \in SelectStates(items) /\ F[n].truncated \in BOOLEAN
  BY <1>2, <1>6 DEF SelectStates
<1>8. ~F[n].truncated => ToSet(candidates) \subseteq ToSet(F[n].passages)
  BY <1>1, <1>6, <1>7 DEF ToSet
<1> QED BY <1>2, <1>6, <1>7, <1>8

(* Every item is in the context, all of it, or the context says why not.       *)
LEMMA PackHolds ==
  ASSUME NEW l, NEW items \in Seq(ItemsOf(l)), NEW interleave \in BOOLEAN
  PROVE  LET p == PackContext(items, interleave)
         IN /\ p.passages \in Seq(ItemChoices(items))
            /\ p.truncated => p.said # {}
            /\ ~p.truncated =>
                 \A i \in DOMAIN items : \A x \in Characters(items[i].text, DOMAIN items[i].text) :
                   \E q \in ToSet(p.passages) : Alike(items, i, q.item) /\ x \in q.shows
<1> DEFINE repeated == Len(Unique(items)) < Len(items)
           split == Split(items)
           cs == Candidates(split.groups, interleave)
           chosen == Select(items, cs)
           u == Unique(items)
           p == PackContext(items, interleave)
           sd == split.said \cup chosen.said
                   \cup (IF repeated THEN {"duplicate_evidence_removed"} ELSE {})
                   \cup (IF chosen.passages = <<>> THEN {"no_admissible_evidence"} ELSE {})
<1>1. p.passages = chosen.passages /\ p.truncated = (repeated \/ split.omitted \/ chosen.truncated)
      /\ p.said = sd
  BY DEF PackContext
<1>2. split \in Splits(items)
      /\ (~split.omitted => \A j \in DOMAIN u : WholeIn(items, u[j], split.groups))
  BY SplitHolds
<1>3. \A i \in DOMAIN items : \E k \in DOMAIN u : Alike(items, i, u[k])
  BY UniqueHolds
<1> HIDE DEF split, u
<1>4. Parted(items, split.groups) /\ (split.omitted => split.said # {}) /\ split.omitted \in BOOLEAN
  BY <1>2 DEF Splits, SplitStates
<1>5. cs \in Seq(ItemChoices(items)) /\ Fits(cs, TRUE)
      /\ \A g \in DOMAIN split.groups : \A k \in DOMAIN split.groups[g] : split.groups[g][k] \in ToSet(cs)
  BY <1>4, CandidatesHold
<1> HIDE DEF cs
<1>6. /\ chosen \in SelectStates(items)
      /\ chosen.truncated => chosen.said # {}
      /\ ~chosen.truncated => ToSet(cs) \subseteq ToSet(chosen.passages)
  BY <1>5, SelectHolds
<1> HIDE DEF chosen
<1>7. p.truncated => p.said # {}
  BY <1>1, <1>4, <1>6
<1>8. p.passages \in Seq(ItemChoices(items))
  BY <1>1, <1>6 DEF SelectStates
<1>9. ASSUME ~p.truncated, NEW i \in DOMAIN items,
             NEW x \in Characters(items[i].text, DOMAIN items[i].text)
      PROVE  \E q \in ToSet(p.passages) : Alike(items, i, q.item) /\ x \in q.shows
  <2>1. ~split.omitted /\ ~chosen.truncated
    BY <1>1, <1>9
  <2>2. PICK j \in DOMAIN u : Alike(items, i, u[j])
    BY <1>3
  <2>3. x \in Characters(items[u[j]].text, DOMAIN items[u[j]].text)
    BY <1>9, <2>2 DEF Alike
  <2>6. PICK g \in DOMAIN split.groups : \E k \in DOMAIN split.groups[g] :
          split.groups[g][k].item = u[j] /\ x \in split.groups[g][k].shows
    BY <1>2, <2>1, <2>3 DEF WholeIn
  <2>4. PICK k \in DOMAIN split.groups[g] :
          split.groups[g][k].item = u[j] /\ x \in split.groups[g][k].shows
    BY <2>6
  <2>5. split.groups[g][k] \in ToSet(p.passages)
    BY <1>1, <1>5, <1>6, <2>1
  <2> QED BY <2>2, <2>4, <2>5
<1> HIDE DEF p
<1> QED BY <1>7, <1>8, <1>9 DEF p

-------------------------------------------------------------------------------
(* What is packed is the evidence that was collected.                          *)

LEMMA PackInvInit == Init => PackInv
BY DEF Init, PackInv

(* A context is made of the evidence as it is, which stays so. *)
LEMMA PackInvStep == PackInv /\ [Next]_vars => PackInv'
<1> SUFFICES ASSUME PackInv, [Next]_vars PROVE PackInv'
  OBVIOUS
<1>1. CASE Step \/ UNCHANGED vars
  <2>1. evidence' = evidence /\ pack' = pack
    BY <1>1 DEF Step, vars
  <2> QED BY <2>1 DEF PackInv
<1>2. CASE Ask \/ Collect \/ Join
  <2>1. pack' = NoPack
    BY <1>2 DEF Ask, Collect, Join
  <2> QED BY <2>1 DEF PackInv
<1>3. CASE Pack
  <2>1. evidence' = evidence
    BY <1>3 DEF Pack
  <2>2. PICK interleave \in BOOLEAN :
          pack' = [context |-> PackContext(evidence, interleave), interleave |-> interleave]
    BY <1>3 DEF Pack
  <2> QED BY <2>1, <2>2 DEF PackInv
<1> QED BY <1>1, <1>2, <1>3 DEF Next

LEMMA PackedIs ==
  ASSUME PathInv, PackInv, pack # NoPack
  PROVE  /\ pack.context.passages \in Seq(ItemChoices(evidence))
         /\ pack.context.truncated => pack.context.said # {}
         /\ ~pack.context.truncated =>
              \A i \in DOMAIN evidence :
                Characters(evidence[i].text, DOMAIN evidence[i].text) \subseteq ShownOf(i)
<1>1. evidence \in Seq(ItemsOf(lineage))
  BY DEF PathInv, EvidenceInv
<1>2. PICK interleave \in BOOLEAN :
        pack = [context |-> PackContext(evidence, interleave), interleave |-> interleave]
  BY DEF PackInv
<1> DEFINE p == PackContext(evidence, interleave)
<1>3. pack.context = p
  BY <1>2
<1>4. /\ p.passages \in Seq(ItemChoices(evidence))
      /\ p.truncated => p.said # {}
      /\ ~p.truncated =>
           \A i \in DOMAIN evidence : \A x \in Characters(evidence[i].text, DOMAIN evidence[i].text) :
             \E q \in ToSet(p.passages) : Alike(evidence, i, q.item) /\ x \in q.shows
  BY <1>1, PackHolds
<1> HIDE DEF p
<1>5. ASSUME ~pack.context.truncated, NEW i \in DOMAIN evidence,
             NEW x \in Characters(evidence[i].text, DOMAIN evidence[i].text)
      PROVE  x \in ShownOf(i)
  <2>1. PICK q \in ToSet(p.passages) : Alike(evidence, i, q.item) /\ x \in q.shows
    BY <1>3, <1>4, <1>5
  <2>2. q \in {y \in ToSet(pack.context.passages) :
                 /\ evidence[y.item].source = evidence[i].source
                 /\ evidence[y.item].text = evidence[i].text}
    BY <1>3, <2>1 DEF Alike
  <2> QED BY <2>1, <2>2 DEF ShownOf
<1> QED BY <1>3, <1>4, <1>5

(* No evidence is left out of a context that does not say so and say why:      *)
(* whatever the sections, whatever the limits, every character of every item   *)
(* is in a passage, or the context is marked truncated with a limitation       *)
(* (packer.py:289-429).                                                        *)
THEOREM NothingLeftOutInSilence == Spec => []ShownOrSaid
<1>1. Spec => [](PathInv /\ PackInv)
  <2>1. Init => PathInv /\ PackInv
    BY PathInvInit, PackInvInit
  <2>2. PathInv /\ PackInv /\ [Next]_vars => (PathInv /\ PackInv)'
    BY PathInvStep, PackInvStep
  <2> QED BY <2>1, <2>2, PTL DEF Spec
<1>2. PathInv /\ PackInv => ShownOrSaid
  BY PackedIs DEF ShownOrSaid
<1> QED BY <1>1, <1>2, PTL

-------------------------------------------------------------------------------
(* Packing: the budgets are kept.                                              *)

(* The number of passages of c's source after one more passage d.              *)
LEMMA SelectedAfter ==
  ASSUME NEW items, NEW s \in SelectStates(items), NEW c, NEW d \in ItemChoices(items),
         NEW r, r.passages = Append(s.passages, d)
  PROVE  /\ Selected(items, s, c) \in Nat
         /\ SameSource(items, c, d) =>
              Selected(items, s, d) = Selected(items, s, c)
              /\ Selected(items, r, c) = Selected(items, s, c) + 1
         /\ ~SameSource(items, c, d) => Selected(items, r, c) = Selected(items, s, c)
<1> DEFINE p == s.passages
           q == r.passages
           n == Len(p)
           Of(x)   == {k \in DOMAIN p : SameSource(items, x, p[k])}
           Then(x) == {k \in DOMAIN q : SameSource(items, x, q[k])}
<1>1. p \in Seq(ItemChoices(items)) /\ n \in Nat /\ DOMAIN p = 1..n
  BY DEF SelectStates
<1>2. DOMAIN q = 1..(n + 1) /\ q[n + 1] = d /\ \A k \in 1..n : q[k] = p[k]
  <2> HIDE DEF p, n
  <2>1. q = Append(p, d) /\ n = Len(p)
    BY DEF p, n
  <2> QED BY <1>1, <2>1
<1>3. Selected(items, s, c) = Cardinality(Of(c)) /\ Selected(items, s, d) = Cardinality(Of(d))
      /\ Selected(items, r, c) = Cardinality(Then(c))
  BY DEF Selected
<1> HIDE DEF p, q, n
<1>4. IsFiniteSet(Of(c)) /\ Cardinality(Of(c)) \in Nat /\ n + 1 \notin Of(c)
  <2>1. Of(c) \subseteq 1..n
    BY <1>1
  <2>2. IsFiniteSet(1..n)
    BY <1>1, FS_Interval
  <2>3. IsFiniteSet(Of(c))
    BY <2>1, <2>2, FS_Subset
  <2> QED BY <1>1, <2>1, <2>3, FS_CardinalityType
<1>5. CASE SameSource(items, c, d)
  <2>1. Of(d) = Of(c)
    BY <1>5 DEF SameSource
  <2>2. Then(c) = Of(c) \cup {n + 1}
    BY <1>1, <1>2, <1>5
  <2> HIDE DEF Of, Then
  <2>3. Cardinality(Then(c)) = Cardinality(Of(c)) + 1
    BY <1>4, <2>2, FS_AddElement
  <2> QED BY <1>3, <1>4, <1>5, <2>1, <2>3
<1>6. CASE ~SameSource(items, c, d)
  <2>1. Then(c) = Of(c)
    BY <1>1, <1>2, <1>6
  <2> HIDE DEF Of, Then
  <2> QED BY <1>3, <1>4, <1>6, <2>1
<1> QED BY <1>5, <1>6

(* It stays within them, whatever the next candidate.                          *)
LEMMA AddPassageWithin ==
  ASSUME NEW items, NEW s \in SelectStates(items), NEW c \in ItemChoices(items), Within(items, s)
  PROVE  Within(items, AddPassage(items, s, c))
<1> DEFINE fragment == Fragment(c, s.passages = <<>>)
           r == AddPassage(items, s, c)
           t == [s EXCEPT !.passages = Append(@, c), !.chars = @ + fragment]
           n == Len(s.passages)
<1>1. fragment \in Nat /\ c.size \in Nat /\ HeaderChars + c.size <= fragment
  <2>1. c.size \in Nat /\ HeaderChars \in Nat /\ SeparatorChars \in Nat
    BY PackerAssumption DEF ItemChoices, ItemPassages
  <2> QED BY <2>1 DEF Fragment
<1>2. /\ MaxPassageChars \in Nat /\ MaxPassages \in Nat /\ MaxPassagesPerSource \in Nat
      /\ MaxContextChars \in Nat /\ HeaderChars \in Nat
  BY PackerAssumption
<1>3. s.passages \in Seq(ItemChoices(items)) /\ s.chars \in Nat /\ n \in Nat /\ DOMAIN s.passages = 1..n
  BY DEF SelectStates
<1> HIDE DEF fragment, n
<1>4. t.passages = Append(s.passages, c) /\ t.chars = s.chars + fragment
  BY DEF SelectStates
<1>5. DOMAIN t.passages = 1..(n + 1) /\ t.passages[n + 1] = c /\ Len(t.passages) = n + 1
      /\ \A k \in 1..n : t.passages[k] = s.passages[k]
  BY <1>3, <1>4 DEF n
<1> HIDE DEF t
<1>6. ASSUME NEW why \in SUBSET Quotas, r = Say(s, why)
      PROVE  Within(items, r)
  <2>1. r.passages = s.passages /\ r.chars = s.chars
    <3> HIDE DEF r
    <3>1. Say(s, why).passages = s.passages /\ Say(s, why).chars = s.chars
      BY DEF Say, SelectStates
    <3> QED BY <1>6, <3>1
  <2>2. \A x : Selected(items, r, x) = Selected(items, s, x)
    BY <2>1 DEF Selected
  <2> HIDE DEF r
  <2> QED BY <2>1, <2>2 DEF Within
<1>7. ASSUME r = t, ~(n >= MaxPassages), ~(Selected(items, s, c) >= MaxPassagesPerSource),
             ~(fragment > MaxPassageChars), ~(s.chars + fragment > MaxContextChars)
      PROVE  Within(items, r)
  <2> HIDE DEF r
  <2>1. r.chars <= MaxContextChars /\ Len(r.passages) <= MaxPassages
    BY <1>1, <1>2, <1>3, <1>4, <1>5, <1>7
  <2>2. ASSUME NEW k \in DOMAIN r.passages
        PROVE  HeaderChars + r.passages[k].size <= MaxPassageChars
    <3>1. CASE k = n + 1
      BY <1>1, <1>2, <1>5, <1>7, <3>1
    <3>2. CASE k # n + 1
      <4>1. k \in 1..n /\ r.passages[k] = s.passages[k]
        BY <1>3, <1>5, <1>7, <2>2, <3>2
      <4> QED BY <1>3, <4>1 DEF Within
    <3> QED BY <3>1, <3>2
  <2>3. ASSUME NEW k \in DOMAIN r.passages
        PROVE  Selected(items, r, r.passages[k]) <= MaxPassagesPerSource
    <3> DEFINE x == r.passages[k]
    <3>1. /\ Selected(items, s, x) \in Nat /\ Selected(items, s, c) \in Nat
          /\ SameSource(items, x, c) =>
               Selected(items, s, c) = Selected(items, s, x)
               /\ Selected(items, r, x) = Selected(items, s, x) + 1
          /\ ~SameSource(items, x, c) => Selected(items, r, x) = Selected(items, s, x)
      <4>1. r.passages = Append(s.passages, c)
        BY <1>4, <1>7
      <4> HIDE DEF x
      <4> QED BY <4>1, SelectedAfter
    <3>2. x = c \/ \E j \in 1..n : x = s.passages[j]
      <4>1. k \in 1..(n + 1) /\ r.passages = t.passages
        BY <1>5, <1>7, <2>3
      <4>2. k = n + 1 \/ k \in 1..n
        BY <1>3, <4>1
      <4> QED BY <1>5, <4>1, <4>2
    <3>3. x = c => SameSource(items, x, c)
      BY DEF SameSource
    <3>4. (\E j \in 1..n : x = s.passages[j]) => Selected(items, s, x) <= MaxPassagesPerSource
      BY <1>3 DEF Within
    <3> HIDE DEF x
    <3> DEFINE here == Selected(items, s, x)  mine == Selected(items, s, c)  after == Selected(items, r, x)
    <3>5. here \in Nat /\ mine \in Nat /\ ~(mine >= MaxPassagesPerSource)
      BY <1>7, <3>1
    <3>6. \/ mine = here /\ after = here + 1
          \/ after = here /\ here <= MaxPassagesPerSource
      BY <3>1, <3>2, <3>3, <3>4
    <3> HIDE DEF here, mine, after
    <3>7. after <= MaxPassagesPerSource
      BY <1>2, <3>5, <3>6
    <3> QED BY <3>7 DEF after, x
  <2> QED BY <2>1, <2>2, <2>3 DEF Within
<1>8. /\ {"passage_quota_reached"} \in SUBSET Quotas /\ {"source_passage_quota_reached"} \in SUBSET Quotas
      /\ {"context_budget_exhausted"} \in SUBSET Quotas /\ {} \in SUBSET Quotas
  BY DEF Quotas
<1>9. r = IF n >= MaxPassages THEN Say(s, {"passage_quota_reached"})
          ELSE IF Selected(items, s, c) >= MaxPassagesPerSource
          THEN Say(s, {"source_passage_quota_reached"})
          ELSE IF fragment > MaxPassageChars THEN Say(s, {})
          ELSE IF s.chars + fragment > MaxContextChars THEN Say(s, {"context_budget_exhausted"})
          ELSE t
  BY DEF AddPassage, fragment, t, n
<1> HIDE DEF r
<1>10. \/ \E why \in SUBSET Quotas : r = Say(s, why)
       \/ /\ r = t /\ ~(n >= MaxPassages) /\ ~(Selected(items, s, c) >= MaxPassagesPerSource)
          /\ ~(fragment > MaxPassageChars) /\ ~(s.chars + fragment > MaxContextChars)
  BY <1>8, <1>9
<1> QED BY <1>6, <1>7, <1>10 DEF r

LEMMA SelectWithin ==
  ASSUME NEW items, NEW candidates \in Seq(ItemChoices(items))
  PROVE  Within(items, Select(items, candidates))
<1> DEFINE n == Len(candidates)
           base == [passages |-> <<>>, chars |-> 0, truncated |-> FALSE, said |-> {}]
<1>1. n \in Nat /\ \A k \in 1..n : candidates[k] \in ItemChoices(items)
  OBVIOUS
<1>2. PICK F : /\ F[0] = base
               /\ \A k \in 0..n : F[k] \in SelectStates(items)
               /\ \A k \in 1..n : F[k] = AddPassage(items, F[k-1], candidates[k])
               /\ Select(items, candidates) = F[n]
  BY SelectRuns
<1> HIDE DEF n
<1> DEFINE V == {k \in Nat : k <= n => Within(items, F[k])}
<1>3. 0 \in V
  <2>1. F[0].passages = <<>> /\ F[0].chars = 0 /\ Len(<<>>) = 0 /\ DOMAIN <<>> = {}
    BY <1>2
  <2>2. MaxPassages \in Nat /\ MaxContextChars \in Nat
    BY PackerAssumption
  <2>3. Within(items, F[0])
    BY <2>1, <2>2 DEF Within
  <2> QED BY <2>3
<1>4. ASSUME NEW k \in Nat, k \in V PROVE k + 1 \in V
  <2> SUFFICES ASSUME k + 1 <= n PROVE Within(items, F[k + 1])
    OBVIOUS
  <2>1. k \in 0..n /\ k + 1 \in 1..n /\ (k + 1) - 1 = k /\ k <= n
    BY <1>1
  <2>2. /\ F[k + 1] = AddPassage(items, F[k], candidates[k + 1])
        /\ F[k] \in SelectStates(items) /\ candidates[k + 1] \in ItemChoices(items)
    BY <1>1, <1>2, <2>1
  <2>3. Within(items, F[k])
    BY <1>4, <2>1
  <2> QED BY <2>2, <2>3, AddPassageWithin
<1>5. \A k \in Nat : k \in V
  <2> HIDE DEF V
  <2> QED BY <1>3, <1>4, SetInduction
<1> QED BY <1>1, <1>2, <1>5

(* No context that is packed overruns a budget: its characters, its passages,  *)
(* the passages of one source and the characters of each of them, whatever the *)
(* evidence and its order (packer.py:409-442).                                 *)
THEOREM BudgetsAreKept == Spec => []ContextFits
<1>1. Spec => [](PathInv /\ PackInv)
  <2>1. Init => PathInv /\ PackInv
    BY PathInvInit, PackInvInit
  <2>2. PathInv /\ PackInv /\ [Next]_vars => (PathInv /\ PackInv)'
    BY PathInvStep, PackInvStep
  <2> QED BY <2>1, <2>2, PTL DEF Spec
<1>2. ASSUME PathInv, PackInv, pack # NoPack PROVE ContextFits
  <2>1. PICK interleave \in BOOLEAN :
          pack = [context |-> PackContext(evidence, interleave), interleave |-> interleave]
    BY <1>2 DEF PackInv
  <2> DEFINE split == Split(evidence)
             cs == Candidates(split.groups, interleave)
             chosen == Select(evidence, cs)
             c == pack.context
  <2>2. c.passages = chosen.passages /\ c.chars = chosen.chars
    BY <2>1 DEF PackContext
  <2>3. evidence \in Seq(ItemsOf(lineage))
    BY <1>2 DEF PathInv, EvidenceInv
  <2>4. split \in Splits(evidence)
    BY <2>3, SplitHolds
  <2> HIDE DEF split
  <2>5. cs \in Seq(ItemChoices(evidence))
    BY <2>4, CandidatesHold DEF Splits
  <2> HIDE DEF cs
  <2>6. Within(evidence, chosen)
    BY <2>5, SelectWithin
  <2>7. \A x : Selected(evidence, c, x) = Selected(evidence, chosen, x)
    BY <2>2 DEF Selected
  <2> HIDE DEF chosen
  <2> QED BY <2>2, <2>6, <2>7 DEF Within, ContextFits
<1>3. PathInv /\ PackInv => ContextFits
  BY <1>2 DEF ContextFits
<1> QED BY <1>1, <1>3, PTL

-------------------------------------------------------------------------------
(* Packing: every item is heard.                                               *)

(* A candidate with a place among the passages and in the budgets is taken.    *)
LEMMA AddPassageTakes ==
  ASSUME NEW items, NEW s \in SelectStates(items), NEW c \in ItemChoices(items),
         c.size >= 1, c.size <= Room(s.passages = <<>>)
  PROVE  LET r == AddPassage(items, s, c)
             fragment == Fragment(c, s.passages = <<>>)
             taken == r.passages = Append(s.passages, c) /\ r.chars = s.chars + fragment
         IN /\ taken \/ (r.passages = s.passages /\ r.chars = s.chars)
            /\ Len(s.passages) < MaxPassages /\ Selected(items, s, c) = 0
               /\ s.chars + fragment <= MaxContextChars => taken
<1> DEFINE f == s.passages = <<>>
           fragment == Fragment(c, f)
           r == AddPassage(items, s, c)
           t == [s EXCEPT !.passages = Append(@, c), !.chars = @ + fragment]
           len == Len(s.passages)
           sel == Selected(items, s, c)
           sum == s.chars + fragment
<1>1. fragment \in Nat /\ fragment <= MaxPassageChars
  <2>1. f \in BOOLEAN /\ c.size <= Room(f)
    OBVIOUS
  <2> HIDE DEF f
  <2> QED BY <2>1, FragmentFits
<1>2. MaxPassageChars \in Nat /\ MaxPassages \in Nat /\ MaxPassagesPerSource \in Nat \ {0}
      /\ MaxContextChars \in Nat
  BY PackerAssumption
<1>3. ~(fragment > MaxPassageChars)
  BY <1>1, <1>2
<1>4. s.passages \in Seq(ItemChoices(items)) /\ s.chars \in Nat /\ len \in Nat
  BY DEF SelectStates
<1> HIDE DEF fragment
<1>5. t.passages = Append(s.passages, c) /\ t.chars = sum
  BY DEF SelectStates
<1>6. sum \in Nat
  BY <1>1, <1>4
<1> HIDE DEF t
<1>7. \A why \in SUBSET Quotas : Say(s, why).passages = s.passages /\ Say(s, why).chars = s.chars
  BY DEF Say, SelectStates
<1>8. {"passage_quota_reached"} \in SUBSET Quotas /\ {"source_passage_quota_reached"} \in SUBSET Quotas
      /\ {"context_budget_exhausted"} \in SUBSET Quotas
  BY DEF Quotas
<1>9. r = IF len >= MaxPassages THEN Say(s, {"passage_quota_reached"})
          ELSE IF sel >= MaxPassagesPerSource THEN Say(s, {"source_passage_quota_reached"})
          ELSE IF sum > MaxContextChars THEN Say(s, {"context_budget_exhausted"})
          ELSE t
  BY <1>3 DEF AddPassage, fragment, t
<1> HIDE DEF r
<1>10. r = t \/ (r.passages = s.passages /\ r.chars = s.chars)
  BY <1>7, <1>8, <1>9
<1>11. len < MaxPassages /\ sel = 0 /\ sum <= MaxContextChars => r = t
  <2>1. len < MaxPassages => ~(len >= MaxPassages)
    BY <1>2, <1>4
  <2>2. sel = 0 => ~(sel >= MaxPassagesPerSource)
    BY <1>2
  <2>3. sum <= MaxContextChars => ~(sum > MaxContextChars)
    <3> HIDE DEF sum
    <3> QED BY <1>2, <1>6
  <2> HIDE DEF len, sel, sum
  <2> QED BY <1>9, <2>1, <2>2, <2>3
<1> QED BY <1>5, <1>10, <1>11 DEF r, fragment

(* Of a source that no passage is of none is selected.                         *)
LEMMA NoneSelected ==
  ASSUME NEW items, NEW s \in SelectStates(items), NEW c,
         \A p \in ToSet(s.passages) : ~SameSource(items, c, p)
  PROVE  Selected(items, s, c) = 0
<1>1. {k \in DOMAIN s.passages : SameSource(items, c, s.passages[k])} = {}
  BY DEF ToSet
<1> QED BY <1>1, FS_EmptySet DEF Selected

(* What candidates take, one after another.                                    *)
LEMMA GrownRuns ==
  ASSUME NEW items, NEW leads \in Seq(ItemChoices(items))
  PROVE  \E F : /\ F[0] = 0
                /\ \A k \in 0..Len(leads) : F[k] \in Nat
                /\ \A k \in 1..Len(leads) : F[k] = Grown(F[k-1], leads[k])
                /\ FoldLeft(LAMBDA a, c : Grown(a, c), 0, leads) = F[Len(leads)]
<1> DEFINE base == 0
           n == Len(leads)
           seq == leads
           D == Nat
           st == [k \in 1..n |-> [s \in D |-> Grown(s, seq[k])]]
           G == CHOOSE g : g = [s \in SUBSET (1..n) |->
                  IF s = {} THEN base ELSE Grown(g[s \ {Max(s)}], seq[Max(s)])]
           end == FoldLeft(LAMBDA s, c : Grown(s, c), base, seq)
           F == [k \in 0..n |-> G[1..k]]
<1>1. DOMAIN seq = 1..n /\ n \in Nat
  OBVIOUS
<1>0. n \in Nat
  BY <1>1
<1>2. base \in D
  OBVIOUS
<1>3. \A s \in D : \A k \in 1..n : Grown(s, seq[k]) \in D
  <2>1. ASSUME NEW s \in Nat, NEW k \in 1..n PROVE Grown(s, seq[k]) \in Nat
    <3> DEFINE c == seq[k]
    <3>1. c \in ItemChoices(items)
      BY <1>1
    <3>2. c.size \in Nat /\ HeaderChars \in Nat /\ SeparatorChars \in Nat
      BY <3>1, PackerAssumption DEF ItemChoices, ItemPassages
    <3> HIDE DEF c, seq
    <3>3. Fragment(c, s = 0) \in Nat
      BY <3>2 DEF Fragment
    <3> QED BY <3>3 DEF Grown, c
  <2> HIDE DEF n, seq
  <2> QED BY <2>1
<1>12. FoldLeft(LAMBDA a, c : Grown(a, c), 0, leads) = end
  BY DEF base, seq
<1>13. \A k \in 1..n : seq[k] = leads[k]
  BY <1>1
<1> HIDE DEF n, base, seq, D
<1>5. st \in [1..n -> [D -> D]]
  BY <1>3
<1> HIDE DEF st
<1>6. G = [s \in SUBSET (1..n) |-> IF s = {} THEN base ELSE Grown(G[s \ {Max(s)}], seq[Max(s)])]
  <2>1. PICK g : Folds(g, n, D, base, st)
    BY <1>0, <1>2, <1>5, FoldExists
  <2>2. ASSUME NEW s \in SUBSET (1..n), s # {}
        PROVE  st[Max(s)][g[s \ {Max(s)}]] = Grown(g[s \ {Max(s)}], seq[Max(s)])
    <3>1. s \in SUBSET (0..n)
      OBVIOUS
    <3>2. Max(s) \in 1..n
      BY <1>0, <2>2, <3>1, GreatestOne
    <3>3. g[s \ {Max(s)}] \in D
      BY <2>1 DEF Folds
    <3> QED BY <3>2, <3>3 DEF st
  <2>3. g = [s \in SUBSET (1..n) |-> IF s = {} THEN base ELSE Grown(g[s \ {Max(s)}], seq[Max(s)])]
    BY <2>1, <2>2 DEF Folds
  <2> QED BY <2>3
<1>7. end = G[1..n]
  BY <1>1 DEF FoldLeft, MapThenFoldSet
<1> HIDE DEF G
<1>8. G[{}] = base
  <2>1. {} \in SUBSET (1..n)
    OBVIOUS
  <2> QED BY <1>6, <2>1
<1>9. \A k \in 1..n : G[1..k] = Grown(G[1..(k-1)], seq[k])
  <2> SUFFICES ASSUME NEW k \in 1..n PROVE G[1..k] = Grown(G[1..(k-1)], seq[k])
    OBVIOUS
  <2>1. k \in Nat \ {0} /\ 1..k \in SUBSET (1..n)
    BY <1>0
  <2>2. Max(1..k) = k /\ (1..k) \ {k} = 1..(k-1) /\ 1..k # {}
    BY <2>1, MaxUpto
  <2> QED BY <1>6, <2>1, <2>2
<1>10. \A k \in 0..n : G[1..k] \in D
  <2>1. G[{}] \in D
    BY <1>2, <1>8
  <2>2. \A k \in 1..n : G[1..(k-1)] \in D => G[1..k] \in D
    BY <1>3, <1>9
  <2> QED BY <1>0, <2>1, <2>2, FoldStays
<1>11. /\ F[0] = base /\ F[n] = G[1..n]
       /\ \A k \in 0..n : F[k] = G[1..k]
       /\ \A k \in 1..n : F[k] = Grown(F[k-1], seq[k])
  <2>1. 1..0 = {} /\ 0 \in 0..n /\ n \in 0..n
    BY <1>0
  <2>2. \A k \in 1..n : k \in 0..n /\ k - 1 \in 0..n
    BY <1>0
  <2> QED BY <1>8, <1>9, <2>1, <2>2
<1> HIDE DEF F, end
<1>14. F[0] = base /\ (\A k \in 0..n : F[k] \in D) /\ FoldLeft(LAMBDA a, c : Grown(a, c), 0, leads) = F[n]
  BY <1>7, <1>10, <1>11, <1>12
<1>15. \A k \in 1..n : F[k] = Grown(F[k-1], leads[k])
  BY <1>11, <1>13
<1> QED BY <1>14, <1>15 DEF base, n, D

(* What is selected of the first candidates is some of those, they take no     *)
(* more than all of those would, and what was selected stays.                  *)
LEMMA LeadsSelected ==
  ASSUME NEW items, NEW cs \in Seq(ItemChoices(items)), Fits(cs, TRUE), NEW m \in Nat, m <= Len(cs),
         NEW F, F[0] = [passages |-> <<>>, chars |-> 0, truncated |-> FALSE, said |-> {}],
         \A k \in 0..Len(cs) : F[k] \in SelectStates(items),
         \A k \in 1..Len(cs) : F[k] = AddPassage(items, F[k-1], cs[k]),
         NEW T, T[0] = 0, \A k \in 0..m : T[k] \in Nat,
         \A k \in 1..m : T[k] = Grown(T[k-1], cs[k])
  PROVE  GetFar(cs, m, F, T)
<1> DEFINE n == Len(cs)
           Q(k) == /\ Len(F[k].passages) <= k
                   /\ F[k].passages = <<>> <=> k = 0
                   /\ T[k] = 0 <=> k = 0
                   /\ F[k].chars <= T[k]
                   /\ \A p \in ToSet(F[k].passages) : \E j \in 1..k : p = cs[j]
           R(k) == /\ F[k].chars + Fragment(cs[k + 1], F[k].passages = <<>>) <= T[k + 1]
                   /\ cs[k + 1].size >= 1 /\ cs[k + 1].size <= Room(F[k].passages = <<>>)
           V == {k \in Nat : k <= m => Q(k)}
<1>1. n \in Nat /\ DOMAIN cs = 1..n /\ (\A k \in 1..n : cs[k] \in ItemChoices(items)) /\ m <= n
  OBVIOUS
<1>2. 0 \in V
  <2>1. F[0].passages = <<>> /\ F[0].chars = 0 /\ T[0] = 0
    OBVIOUS
  <2>2. Len(<<>>) = 0 /\ ToSet(<<>>) = {}
    BY DEF ToSet
  <2>3. Q(0)
    BY <2>1, <2>2
  <2> HIDE DEF Q
  <2> QED BY <2>3
<1> HIDE DEF n
<1>3. ASSUME NEW k \in Nat, k <= m, Q(k)
      PROVE  k # m => Q(k + 1) /\ R(k)
  <2> SUFFICES ASSUME k # m PROVE Q(k + 1) /\ R(k)
    OBVIOUS
  <2>1. k \in 0..n /\ k + 1 \in 1..n /\ (k + 1) - 1 = k /\ k + 1 \in 1..m /\ k \in 0..m /\ k + 1 \in 0..m
        /\ k + 1 # 0
    BY <1>1, <1>3
  <2> DEFINE s == F[k]  c == cs[k + 1]  r == F[k + 1]  f == s.passages = <<>>  fragment == Fragment(c, f)
             a == T[k]  b == T[k + 1]  x == c.size
  <2>2. r = AddPassage(items, s, c) /\ s \in SelectStates(items) /\ c \in ItemChoices(items)
    BY <1>1, <2>1 DEF n
  <2>3. a \in Nat /\ b \in Nat /\ b = Grown(a, c)
    BY <2>1
  <2>4. x \in Nat /\ x >= 1 /\ x <= Room(f)
    <3>1. x \in Nat
      BY <2>2 DEF ItemChoices, ItemPassages
    <3>2. k + 1 \in DOMAIN cs
      BY <1>1, <2>1
    <3>3. x >= 1 /\ x <= Room(TRUE /\ k + 1 = 1)
      BY <3>2 DEF Fits
    <3>4. Room(TRUE /\ k + 1 = 1) = Room(f)
      BY <1>3 DEF Room
    <3> HIDE DEF x, f
    <3> QED BY <3>1, <3>3, <3>4
  <2>5. fragment \in Nat \ {0} /\ fragment <= MaxPassageChars
    <3>1. f \in BOOLEAN /\ c.size >= 1 /\ c.size <= Room(f)
      BY <2>4
    <3> HIDE DEF f
    <3> QED BY <2>2, <3>1, FragmentFits
  <2>6. b = a + fragment
    <3>1. Fragment(c, a = 0) = fragment
      BY <1>3 DEF Fragment
    <3> HIDE DEF a, b, fragment, c
    <3> QED BY <2>3, <3>1 DEF Grown
  <2>7. s.passages \in Seq(ItemChoices(items)) /\ s.chars \in Nat
    BY <2>2 DEF SelectStates
  <2>8. s.chars <= a /\ Len(s.passages) <= k /\ (f <=> k = 0)
        /\ (\A p \in ToSet(s.passages) : \E j \in 1..k : p = cs[j])
    BY <1>3
  <2>9. s.chars + fragment <= b
    <3> DEFINE z == s.chars
    <3>1. z \in Nat /\ z <= a
      BY <2>7, <2>8
    <3> HIDE DEF a, b, fragment, z
    <3>2. z + fragment <= b
      BY <2>3, <2>5, <2>6, <3>1
    <3> QED BY <3>2 DEF z
  <2>10. R(k)
    BY <2>4, <2>9
  <2> DEFINE taken == r.passages = Append(s.passages, c) /\ r.chars = s.chars + fragment
  <2>11. /\ taken \/ (r.passages = s.passages /\ r.chars = s.chars)
         /\ Len(s.passages) < MaxPassages /\ Selected(items, s, c) = 0
               /\ s.chars + fragment <= MaxContextChars => taken
    <3>1. c.size >= 1 /\ c.size <= Room(s.passages = <<>>)
      BY <2>4
    <3> HIDE DEF s, c, r
    <3> QED BY <2>2, <3>1, AddPassageTakes
  <2>12. k = 0 => taken
    <3> SUFFICES ASSUME k = 0 PROVE taken
      OBVIOUS
    <3>1. s.passages = <<>> /\ s.chars = 0
      OBVIOUS
    <3>2. Len(s.passages) < MaxPassages
      <4>1. MaxPassages \in Nat \ {0} /\ Len(<<>>) = 0
        BY PackerAssumption
      <4>2. 0 < MaxPassages
        BY <4>1
      <4> QED BY <3>1, <4>1, <4>2
    <3>3. Selected(items, s, c) = 0
      <4>1. \A p \in ToSet(s.passages) : ~SameSource(items, c, p)
        BY <3>1 DEF ToSet
      <4> HIDE DEF s, c
      <4> QED BY <2>2, <4>1, NoneSelected
    <3>4. s.chars + fragment <= MaxContextChars
      <4>1. MaxPassageChars \in Nat /\ MaxContextChars \in Nat /\ MaxPassageChars <= MaxContextChars
        BY PackerAssumption
      <4> HIDE DEF fragment, s
      <4> QED BY <2>5, <3>1, <4>1
    <3> HIDE DEF taken, s, c, fragment
    <3> QED BY <2>11, <3>2, <3>3, <3>4
  <2>13. Q(k + 1)
    <3> DEFINE p == s.passages  l == Len(p)  z == s.chars
    <3>1. p \in Seq(ItemChoices(items)) /\ l \in Nat /\ l <= k /\ z \in Nat /\ z <= a
          /\ \A y \in ToSet(p) : \E j \in 1..k : y = cs[j]
      BY <2>7, <2>8
    <3>2. b # 0
      <4> HIDE DEF a, b, fragment
      <4> QED BY <2>3, <2>5, <2>6
    <3>3. \A y : (\E j \in 1..k : y = cs[j]) => \E j \in 1..(k + 1) : y = cs[j]
      <4>1. \A j \in 1..k : j \in 1..(k + 1)
        OBVIOUS
      <4> QED BY <4>1
    <3>4. CASE taken
      <4>1. r.passages = Append(p, c) /\ r.chars = z + fragment
        BY <3>4
      <4> HIDE DEF p, r, z, fragment, c
      <4>2. Len(r.passages) = l + 1 /\ DOMAIN r.passages = 1..(l + 1) /\ r.passages[l + 1] = c
            /\ DOMAIN p = 1..l /\ \A i \in 1..l : r.passages[i] = p[i]
        BY <3>1, <4>1
      <4> HIDE DEF l
      <4>3. \A y \in ToSet(r.passages) : y = c \/ y \in ToSet(p)
        <5>1. \A i \in 1..(l + 1) : i = l + 1 \/ i \in 1..l
          BY <3>1
        <5> QED BY <4>2, <5>1 DEF ToSet
      <4>4. k + 1 \in 1..(k + 1)
        OBVIOUS
      <4>5. \A y \in ToSet(r.passages) : \E j \in 1..(k + 1) : y = cs[j]
        BY <3>1, <3>3, <4>3, <4>4 DEF c
      <4>6. Len(r.passages) <= k + 1 /\ r.passages # <<>>
        <5>1. Len(r.passages) <= k + 1
          BY <3>1, <4>2
        <5>2. l + 1 # 0
          BY <3>1
        <5>3. Len(r.passages) # 0
          BY <4>2, <5>2
        <5> QED BY <5>1, <5>3
      <4>7. r.chars <= b
        BY <2>9, <4>1 DEF z
      <4> QED BY <2>1, <3>2, <4>5, <4>6, <4>7 DEF r
    <3>5. CASE ~taken
      <4>1. r.passages = p /\ r.chars = z /\ k # 0
        BY <2>11, <2>12, <3>5
      <4>2. p # <<>>
        BY <2>8, <4>1
      <4>3. l <= k + 1
        <5> HIDE DEF l
        <5> QED BY <3>1
      <4>4. z <= b
        <5> HIDE DEF z, a, b, fragment
        <5> QED BY <2>3, <2>5, <2>6, <3>1
      <4>5. \A y \in ToSet(r.passages) : \E j \in 1..(k + 1) : y = cs[j]
        BY <3>1, <3>3, <4>1
      <4> QED BY <2>1, <3>2, <4>1, <4>2, <4>3, <4>4, <4>5
    <3> QED BY <3>4, <3>5
  <2> HIDE DEF Q, R
  <2> QED BY <2>10, <2>13
<1> HIDE DEF Q, R
<1>4. ASSUME NEW k \in Nat, k \in V PROVE k + 1 \in V
  <2>1. k + 1 <= m => k <= m /\ k # m
    OBVIOUS
  <2> QED BY <1>3, <1>4, <2>1
<1>5. \A k \in Nat : k \in V
  <2> HIDE DEF V
  <2> QED BY <1>2, <1>4, SetInduction
<1>6. \A k \in Nat : k <= m => Q(k) /\ (k # m => R(k))
  BY <1>3, <1>5
<1> HIDE DEF V
<1> QED BY <1>6 DEF Q, R, GetFar

(* A lead is of its group.                                                     *)
LEMMA LeadOf ==
  ASSUME NEW S, NEW group \in Seq(S), group # <<>>
  PROVE  \A k \in DOMAIN Lead(group) : Lead(group)[k] \in ToSet(group)
<1> DEFINE n == Len(group)
           one == SubSeq(group, 1, 1)
<1>1. n \in Nat /\ n >= 1 /\ DOMAIN group = 1..n
  OBVIOUS
<1>2. DOMAIN one = 1..1 /\ one[1] = group[1]
  OBVIOUS
<1>3. Lead(group) = group \/ Lead(group) = one
  BY DEF Lead
<1>4. 1 \in 1..n /\ \A k \in 1..1 : k = 1
  BY <1>1
<1> HIDE DEF one, n
<1>5. \A k \in DOMAIN group : group[k] \in ToSet(group)
  BY DEF ToSet
<1>6. \A k \in DOMAIN one : one[k] \in ToSet(group)
  BY <1>1, <1>2, <1>4 DEF ToSet
<1> QED BY <1>3, <1>5, <1>6

(* Where the first of a sequence comes to stand: after those of the sequences  *)
(* before it.                                                                  *)
LEMMA FlattenPlaces ==
  ASSUME NEW S, NEW seqs \in Seq(Seq(S)), NEW g \in DOMAIN seqs, seqs[g] # <<>>
  PROVE  LET flat == FlattenSeq(seqs)
         IN \E k \in Nat : /\ k + 1 <= Len(flat) /\ flat[k + 1] = seqs[g][1]
                           /\ \A j \in 1..k : \E i \in 1..(g - 1) : flat[j] \in ToSet(seqs[i])
<1> DEFINE n == Len(seqs)
           flat == FlattenSeq(seqs)
<1>1. PICK h : Flattens(h, seqs, S)
  BY FlattenRuns
<1>2. n \in Nat /\ DOMAIN seqs = 1..n /\ g \in 1..n /\ \A i \in 1..n : seqs[i] \in Seq(S)
  OBVIOUS
<1>3. /\ flat = h[n] /\ h[0] = <<>>
      /\ \A i \in 0..n : h[i] \in Seq(S)
      /\ \A i \in 1..n : h[i] = h[i-1] \o seqs[i]
  BY <1>1 DEF Flattens
<1> HIDE DEF n, flat
<1> DEFINE From(k) == \A j \in 1..Len(h[k]) : \E i \in 1..k : h[k][j] \in ToSet(seqs[i])
           V == {k \in Nat : k <= n => From(k)}
<1>4. ASSUME NEW i \in 1..n
      PROVE  /\ Len(h[i]) = Len(h[i-1]) + Len(seqs[i]) /\ Len(h[i-1]) \in Nat /\ Len(seqs[i]) \in Nat
             /\ \A j \in 1..Len(h[i-1]) : h[i][j] = h[i-1][j]
             /\ \A j \in 1..Len(seqs[i]) : h[i][Len(h[i-1]) + j] = seqs[i][j]
  <2> DEFINE a == h[i-1]  b == seqs[i]  c == h[i]
  <2>1. i - 1 \in 0..n
    BY <1>2
  <2>2. a \in Seq(S) /\ b \in Seq(S) /\ c = a \o b
    BY <1>2, <1>3, <2>1
  <2> HIDE DEF a, b, c
  <2>3. /\ Len(c) = Len(a) + Len(b) /\ Len(a) \in Nat /\ Len(b) \in Nat
        /\ \A j \in 1..Len(a) : c[j] = a[j]
        /\ \A j \in 1..Len(b) : c[Len(a) + j] = b[j]
    BY <2>2
  <2> QED BY <2>3 DEF a, b, c
<1>5. 0 \in V
  <2>1. 1..Len(h[0]) = {}
    BY <1>3
  <2> QED BY <2>1
<1>6. ASSUME NEW k \in Nat, k \in V PROVE k + 1 \in V
  <2> SUFFICES ASSUME k + 1 <= n PROVE From(k + 1)
    <3> HIDE DEF From
    <3> QED OBVIOUS
  <2>1. k + 1 \in 1..n /\ (k + 1) - 1 = k /\ k <= n /\ k + 1 \in 1..(k + 1) /\ \A i \in 1..k : i \in 1..(k + 1)
    BY <1>2
  <2> DEFINE x == Len(h[k])  y == Len(seqs[k + 1])
  <2>2. /\ Len(h[k + 1]) = x + y /\ x \in Nat /\ y \in Nat
        /\ \A j \in 1..x : h[k + 1][j] = h[k][j]
        /\ \A j \in 1..y : h[k + 1][x + j] = seqs[k + 1][j]
    <3> DEFINE i == k + 1
    <3>1. i \in 1..n /\ h[i - 1] = h[k]
      BY <2>1
    <3> HIDE DEF i
    <3>2. /\ Len(h[i]) = Len(h[i-1]) + Len(seqs[i]) /\ Len(h[i-1]) \in Nat /\ Len(seqs[i]) \in Nat
          /\ \A j \in 1..Len(h[i-1]) : h[i][j] = h[i-1][j]
          /\ \A j \in 1..Len(seqs[i]) : h[i][Len(h[i-1]) + j] = seqs[i][j]
      BY <1>4, <3>1
    <3> QED BY <3>1, <3>2 DEF i
  <2>3. From(k)
    BY <1>6, <2>1
  <2>4. \A j \in 1..x : \E i \in 1..(k + 1) : h[k + 1][j] \in ToSet(seqs[i])
    BY <2>1, <2>2, <2>3
  <2>5. DOMAIN seqs[k + 1] = 1..y
    BY <1>2, <2>1
  <2> HIDE DEF x, y
  <2>6. ASSUME NEW j \in 1..(x + y), ~(j \in 1..x)
        PROVE  h[k + 1][j] \in ToSet(seqs[k + 1])
    <3>1. j - x \in 1..y /\ x + (j - x) = j
      BY <2>2, <2>6
    <3> QED BY <2>2, <2>5, <3>1 DEF ToSet
  <2> QED BY <2>1, <2>2, <2>4, <2>6
<1>7. \A k \in Nat : k \in V
  <2> HIDE DEF V
  <2> QED BY <1>5, <1>6, SetInduction
<1> DEFINE Upto(k, i) == Len(h[k]) <= Len(h[i]) /\ \A j \in 1..Len(h[k]) : h[i][j] = h[k][j]
           W == {i \in Nat : g <= i /\ i <= n => Upto(g, i)}
<1>8. 0 \in W
  BY <1>2
<1>9. ASSUME NEW i \in Nat, i \in W PROVE i + 1 \in W
  <2> SUFFICES ASSUME g <= i + 1, i + 1 <= n PROVE Upto(g, i + 1)
    <3> HIDE DEF Upto
    <3> QED OBVIOUS
  <2>1. i + 1 \in 1..n /\ (i + 1) - 1 = i /\ i <= n
    BY <1>2
  <2> DEFINE x == Len(h[i])  y == Len(seqs[i + 1])  z == Len(h[g])
  <2>2. /\ Len(h[i + 1]) = x + y /\ x \in Nat /\ y \in Nat
        /\ \A j \in 1..x : h[i + 1][j] = h[i][j]
    <3> DEFINE k == i + 1
    <3>1. k \in 1..n /\ h[k - 1] = h[i]
      BY <2>1
    <3> HIDE DEF k
    <3>2. /\ Len(h[k]) = Len(h[k-1]) + Len(seqs[k]) /\ Len(h[k-1]) \in Nat /\ Len(seqs[k]) \in Nat
          /\ \A j \in 1..Len(h[k-1]) : h[k][j] = h[k-1][j]
      BY <1>4, <3>1
    <3> QED BY <3>1, <3>2 DEF k
  <2>3. z \in Nat
    <3>1. g \in 0..n
      BY <1>2
    <3> QED BY <1>3, <3>1
  <2>4. CASE g = i + 1
    <3>1. Len(h[i + 1]) <= Len(h[i + 1])
      BY <2>2
    <3> QED BY <2>4, <3>1
  <2>5. CASE g # i + 1
    <3>1. g <= i
      BY <1>2, <2>5
    <3>2. z <= x /\ \A j \in 1..z : h[i][j] = h[g][j]
      BY <1>9, <2>1, <3>1
    <3> HIDE DEF x, y, z
    <3>3. z <= x + y /\ \A j \in 1..z : j \in 1..x
      BY <2>2, <2>3, <3>2
    <3>4. \A j \in 1..z : h[i + 1][j] = h[g][j]
      BY <2>2, <3>2, <3>3
    <3> QED BY <2>2, <3>3, <3>4 DEF z
  <2> QED BY <2>4, <2>5
<1>10. Upto(g, n)
  <2>1. \A i \in Nat : i \in W
    <3> HIDE DEF W
    <3> QED BY <1>8, <1>9, SetInduction
  <2> HIDE DEF Upto
  <2>2. g <= n /\ n <= n
    BY <1>2
  <2> QED BY <1>2, <2>1, <2>2
<1> DEFINE k == Len(h[g - 1])  y == Len(seqs[g])  z == Len(h[g])
<1>11. z = k + y /\ k \in Nat /\ y \in Nat /\ (\A j \in 1..k : h[g][j] = h[g - 1][j])
       /\ (\A j \in 1..y : h[g][k + j] = seqs[g][j])
  BY <1>2, <1>4
<1>12. y # 0
  BY <1>2
<1>13. From(g - 1)
  <2> HIDE DEF From
  <2>1. g - 1 \in Nat /\ g - 1 <= n
    BY <1>2
  <2> QED BY <1>7, <2>1
<1>14. z <= Len(flat) /\ \A j \in 1..z : flat[j] = h[g][j]
  BY <1>3, <1>10
<1>15. Len(flat) \in Nat
  <2>1. n \in 0..n
    BY <1>2
  <2> QED BY <1>3, <2>1
<1>16. \A j \in 1..k : \E i \in 1..(g - 1) : h[g - 1][j] \in ToSet(seqs[i])
  BY <1>13
<1> HIDE DEF k, y, z, From, V
<1>17. k + 1 <= z /\ k + 1 \in 1..z /\ 1 \in 1..y /\ (\A j \in 1..k : j \in 1..z)
  BY <1>11, <1>12
<1>18. k + 1 <= Len(flat)
  <2> DEFINE l == Len(flat)
  <2>1. l \in Nat /\ z <= l /\ z \in Nat
    BY <1>11, <1>14, <1>15
  <2> HIDE DEF l
  <2>2. k + 1 <= l
    BY <1>11, <1>17, <2>1
  <2> QED BY <2>2 DEF l
<1>19. flat[k + 1] = seqs[g][1]
  BY <1>11, <1>14, <1>17
<1>20. \A j \in 1..k : \E i \in 1..(g - 1) : flat[j] \in ToSet(seqs[i])
  BY <1>11, <1>14, <1>16, <1>17
<1> QED BY <1>11, <1>18, <1>19, <1>20 DEF flat

(* What was selected stays.                                                    *)
LEMMA SelectedStays ==
  ASSUME NEW items, NEW cs \in Seq(ItemChoices(items)), NEW F,
         \A k \in 0..Len(cs) : F[k] \in SelectStates(items),
         \A k \in 1..Len(cs) : F[k] = AddPassage(items, F[k-1], cs[k]),
         Fits(cs, TRUE), NEW k \in 0..Len(cs)
  PROVE  ToSet(F[k].passages) \subseteq ToSet(F[Len(cs)].passages)
<1> DEFINE n == Len(cs)
           Kept(i) == ToSet(F[k].passages) \subseteq ToSet(F[i].passages)
           V == {i \in Nat : k <= i /\ i <= n => Kept(i)}
<1>1. n \in Nat /\ k \in Nat /\ k <= n /\ \A i \in 1..n : cs[i] \in ItemChoices(items)
  OBVIOUS
<1> HIDE DEF n
<1>2. ASSUME NEW s \in SelectStates(items), NEW c \in ItemChoices(items)
      PROVE  ToSet(s.passages) \subseteq ToSet(AddPassage(items, s, c).passages)
  <2> DEFINE p == s.passages  r == AddPassage(items, s, c)
             t == [s EXCEPT !.passages = Append(@, c), !.chars = @ + Fragment(c, s.passages = <<>>)]
  <2>1. p \in Seq(ItemChoices(items))
    BY DEF SelectStates
  <2>2. t.passages = Append(p, c)
    BY DEF SelectStates
  <2> HIDE DEF t
  <2>3. /\ Say(s, {"passage_quota_reached"}).passages = p
        /\ Say(s, {"source_passage_quota_reached"}).passages = p
        /\ Say(s, {"context_budget_exhausted"}).passages = p
        /\ Say(s, {}).passages = p
    BY DEF Say, SelectStates
  <2>4. r.passages = p \/ r.passages = Append(p, c)
    BY <2>2, <2>3 DEF AddPassage, t
  <2> HIDE DEF p, r
  <2>5. ToSet(p) \subseteq ToSet(Append(p, c))
    <3> DEFINE m == Len(p)  q == Append(p, c)
    <3>1. m \in Nat /\ DOMAIN p = 1..m /\ DOMAIN q = 1..(m + 1) /\ \A i \in 1..m : q[i] = p[i]
      BY <2>1
    <3> HIDE DEF m, q
    <3>2. \A i \in 1..m : i \in 1..(m + 1)
      BY <3>1
    <3>3. ToSet(p) \subseteq ToSet(q)
      BY <3>1, <3>2 DEF ToSet
    <3> QED BY <3>3 DEF q
  <2> QED BY <2>4, <2>5 DEF p, r
<1>3. 0 \in V
  <2>1. k <= 0 => Kept(0)
    BY <1>1
  <2> QED BY <2>1
<1>4. ASSUME NEW i \in Nat, i \in V PROVE i + 1 \in V
  <2> SUFFICES ASSUME k <= i + 1, i + 1 <= n PROVE Kept(i + 1)
    <3> HIDE DEF Kept
    <3> QED OBVIOUS
  <2>1. i + 1 \in 1..n /\ (i + 1) - 1 = i /\ i \in 0..n /\ i <= n
    BY <1>1
  <2>2. CASE k = i + 1
    BY <2>2
  <2>3. CASE k # i + 1
    <3>1. k <= i
      BY <1>1, <2>3
    <3>2. Kept(i)
      BY <1>4, <2>1, <3>1
    <3> DEFINE s == F[i]  c == cs[i + 1]
    <3>3. F[i + 1] = AddPassage(items, s, c) /\ s \in SelectStates(items) /\ c \in ItemChoices(items)
      BY <1>1, <2>1 DEF n
    <3> HIDE DEF s, c
    <3>4. ToSet(s.passages) \subseteq ToSet(F[i + 1].passages)
      BY <1>2, <3>3
    <3> QED BY <3>2, <3>4 DEF s
  <2> QED BY <2>2, <2>3
<1>5. \A i \in Nat : i \in V
  <2> HIDE DEF V
  <2> QED BY <1>3, <1>4, SetInduction
<1>6. Kept(n)
  <2> HIDE DEF Kept
  <2>1. n <= n
    BY <1>1
  <2> QED BY <1>1, <1>5, <2>1
<1> QED BY <1>6 DEF n

(* What some of the candidates take is no more than all of them take.          *)
LEMMA GrownOnly ==
  ASSUME NEW items, NEW leads \in Seq(ItemChoices(items)), NEW T,
         \A k \in 0..Len(leads) : T[k] \in Nat,
         \A k \in 1..Len(leads) : T[k] = Grown(T[k-1], leads[k]),
         NEW k \in 0..Len(leads)
  PROVE  T[k] <= T[Len(leads)]
<1> DEFINE n == Len(leads)
           V == {i \in Nat : k <= i /\ i <= n => T[k] <= T[i]}
<1>1. n \in Nat /\ k \in Nat /\ k <= n /\ \A i \in 1..n : leads[i] \in ItemChoices(items)
  OBVIOUS
<1> HIDE DEF n
<1>2. \A i \in 0..n : T[i] \in Nat
  BY DEF n
<1>3. 0 \in V
  <2>1. k <= 0 => k = 0 /\ T[0] \in Nat
    BY <1>1, <1>2
  <2>2. T[0] \in Nat => T[0] <= T[0]
    OBVIOUS
  <2> QED BY <2>1, <2>2
<1>4. ASSUME NEW i \in Nat, i \in V PROVE i + 1 \in V
  <2> SUFFICES ASSUME k <= i + 1, i + 1 <= n PROVE T[k] <= T[i + 1]
    OBVIOUS
  <2>1. i + 1 \in 1..n /\ (i + 1) - 1 = i /\ i \in 0..n /\ i <= n /\ i + 1 \in 0..n /\ k \in 0..n
    BY <1>1
  <2> DEFINE a == T[k]  b == T[i]  c == T[i + 1]  x == leads[i + 1]
  <2>2. a \in Nat /\ b \in Nat /\ c \in Nat /\ x \in ItemChoices(items)
    BY <1>1, <1>2, <2>1
  <2>3. c = Grown(b, x)
    BY <2>1 DEF n
  <2>4. CASE k = i + 1
    <3>1. a = c
      BY <2>4
    <3> HIDE DEF a, c
    <3>2. a <= c
      BY <2>2, <3>1
    <3> QED BY <3>2 DEF a, c
  <2>5. CASE k # i + 1
    <3>1. k <= i
      BY <1>1, <2>5
    <3>2. a <= b
      BY <1>4, <2>1, <3>1
    <3>3. x.size \in Nat /\ HeaderChars \in Nat /\ SeparatorChars \in Nat
      BY <2>2, PackerAssumption DEF ItemChoices, ItemPassages
    <3> HIDE DEF a, b, c, x
    <3>4. Fragment(x, b = 0) \in Nat
      BY <3>3 DEF Fragment
    <3>5. a <= c
      BY <2>2, <2>3, <3>2, <3>4 DEF Grown
    <3> QED BY <3>5 DEF a, c
  <2> QED BY <2>4, <2>5
<1>5. \A i \in Nat : i \in V
  <2> HIDE DEF V
  <2> QED BY <1>3, <1>4, SetInduction
<1>6. n \in V /\ n <= n
  BY <1>1, <1>5
<1> QED BY <1>1, <1>6 DEF n

(* When the first passages of the groups all have a place and room, and no two *)
(* groups are of one source, each item of a group is heard.                    *)
LEMMA HeardHolds ==
  ASSUME NEW items, NEW groups, Parted(items, groups), Apart(items, groups),
         Len(LeadsOf(groups)) <= MaxPassages, Taken(LeadsOf(groups)) <= MaxContextChars,
         NEW g \in DOMAIN groups
  PROVE  groups[g][1] \in ToSet(Select(items, Candidates(groups, TRUE)).passages)
<1> DEFINE S == ItemChoices(items)
           n == Len(groups)
           seqs == [i \in DOMAIN groups |-> Lead(groups[i])]
           leads == LeadsOf(groups)
           rests == RoundRobin([i \in DOMAIN groups |-> Rest(groups[i])])
           cs == Candidates(groups, TRUE)
           m == Len(leads)
           total == Taken(leads)
           c == groups[g][1]
<1>11. m <= MaxPassages /\ total <= MaxContextChars
  OBVIOUS
<1>7. cs = leads \o rests /\ leads = FlattenSeq(seqs)
  BY DEF Candidates, LeadsOf
<1>28. seqs = [i \in DOMAIN groups |-> Lead(groups[i])]
  OBVIOUS
<1>29. rests = RoundRobin([i \in DOMAIN groups |-> Rest(groups[i])])
  OBVIOUS
<1>5. cs \in Seq(S) /\ Fits(cs, TRUE)
  BY CandidatesHold
<1>30. total = Taken(leads) /\ m = Len(leads)
  OBVIOUS
<1> HIDE DEF cs, rests, leads, seqs, m, total, S
<1>1. /\ groups \in Seq(Seq(ItemPassages)) /\ n \in Nat /\ DOMAIN groups = 1..n /\ g \in 1..n
      /\ \A i \in 1..n : groups[i] # <<>> /\ OneItem(items, groups[i]) /\ Fits(groups[i], i = 1)
  BY DEF Parted
<1>2. \A i \in 1..n : groups[i] \in Seq(S)
  <2> SUFFICES ASSUME NEW i \in 1..n PROVE groups[i] \in Seq(S)
    OBVIOUS
  <2>1. groups[i] \in Seq(ItemPassages) /\ OneItem(items, groups[i])
    BY <1>1
  <2>2. \A k \in DOMAIN groups[i] : groups[i][k] \in S
    BY <2>1 DEF OneItem, ItemChoices, S
  <2> QED BY <2>1, <2>2
<1>3. \A i \in 1..n : /\ Lead(groups[i]) \in Seq(S) /\ Lead(groups[i]) # <<>>
                      /\ Lead(groups[i])[1] = groups[i][1]
                      /\ Rest(groups[i]) \in Seq(S) /\ Fits(Rest(groups[i]), FALSE)
                      /\ \A k \in DOMAIN Lead(groups[i]) : Lead(groups[i])[k] \in ToSet(groups[i])
  <2> SUFFICES ASSUME NEW i \in 1..n
               PROVE  /\ Lead(groups[i]) \in Seq(S) /\ Lead(groups[i]) # <<>>
                      /\ Lead(groups[i])[1] = groups[i][1]
                      /\ Rest(groups[i]) \in Seq(S) /\ Fits(Rest(groups[i]), FALSE)
                      /\ \A k \in DOMAIN Lead(groups[i]) : Lead(groups[i])[k] \in ToSet(groups[i])
    OBVIOUS
  <2> DEFINE group == groups[i]  f == i = 1
  <2>1. group \in Seq(S) /\ group # <<>> /\ f \in BOOLEAN /\ Fits(group, f)
    BY <1>1, <1>2
  <2>2. \A x \in S : x.size \in Nat
    BY DEF ItemChoices, ItemPassages, S
  <2> HIDE DEF group, f
  <2>3. /\ Lead(group) \in Seq(S) /\ Lead(group) # <<>> /\ Lead(group)[1] = group[1]
        /\ Rest(group) \in Seq(S) /\ Fits(Rest(group), FALSE)
    BY <2>1, <2>2, LeadAndRest
  <2>4. \A k \in DOMAIN Lead(group) : Lead(group)[k] \in ToSet(group)
    BY <2>1, LeadOf
  <2> QED BY <2>3, <2>4 DEF group
<1>4. seqs \in Seq(Seq(S)) /\ DOMAIN seqs = 1..n
  <2>1. seqs = [i \in 1..n |-> Lead(groups[i])] /\ n \in Nat
    BY <1>1, <1>28
  <2> HIDE DEF n
  <2> DEFINE L(i) == Lead(groups[i])
  <2>2. (\A i \in 1..n : L(i) \in Seq(S)) /\ seqs = [i \in 1..n |-> L(i)]
    BY <1>3, <2>1
  <2> HIDE DEF L
  <2> QED BY <2>1, <2>2
<1>6. rests \in Seq(S)
  <2> DEFINE others == [i \in DOMAIN groups |-> Rest(groups[i])]
  <2>4. others = [i \in 1..n |-> Rest(groups[i])] /\ n \in Nat
    BY <1>1
  <2> HIDE DEF n, others
  <2>1. others \in Seq(Seq(S)) /\ \A i \in DOMAIN others : Fits(others[i], FALSE)
    <3> DEFINE L(i) == Rest(groups[i])
    <3>1. (\A i \in 1..n : L(i) \in Seq(S) /\ Fits(L(i), FALSE)) /\ others = [i \in 1..n |-> L(i)]
      BY <1>3, <2>4
    <3> HIDE DEF L
    <3>2. (\A i \in 1..n : L(i) \in Seq(S)) /\ others = [i \in 1..n |-> L(i)] /\ n \in Nat
      BY <2>4, <3>1
    <3>3. others \in Seq(Seq(S))
      BY ONLY <3>2
    <3>4. DOMAIN others = 1..n /\ \A i \in 1..n : others[i] = L(i)
      BY <3>2
    <3> QED BY <3>1, <3>3, <3>4
  <2>2. \A x \in S : x.size \in Nat
    BY DEF ItemChoices, ItemPassages, S
  <2>3. RoundRobin(others) \in Seq(S)
    BY <2>1, <2>2, RoundRobinHolds
  <2> QED BY <1>29, <2>3 DEF others
<1>8. leads \in Seq(S)
  <2>1. PICK h : Flattens(h, seqs, S)
    BY <1>4, FlattenRuns
  <2>2. Len(seqs) \in 0..Len(seqs)
    BY <2>1 DEF Flattens
  <2> QED BY <1>7, <2>1, <2>2 DEF Flattens
<1>9. PICK k \in Nat : /\ k + 1 <= Len(FlattenSeq(seqs)) /\ FlattenSeq(seqs)[k + 1] = seqs[g][1]
                       /\ \A j \in 1..k : \E i \in 1..(g - 1) : FlattenSeq(seqs)[j] \in ToSet(seqs[i])
  <2>1. g \in DOMAIN seqs /\ seqs[g] # <<>>
    BY <1>1, <1>3, <1>28
  <2> QED BY <1>4, <2>1, FlattenPlaces
<1>10. /\ k + 1 <= m /\ leads[k + 1] = c
       /\ \A j \in 1..k : \E i \in 1..(g - 1) : leads[j] \in ToSet(seqs[i])
  BY <1>1, <1>3, <1>7, <1>9, <1>28, <1>30
<1>12. ASSUME NEW i \in 1..n, NEW x \in ToSet(seqs[i]) PROVE x.item = groups[i][1].item
  <2>1. PICK j \in DOMAIN Lead(groups[i]) : x = Lead(groups[i])[j]
    BY <1>1, <1>28 DEF ToSet
  <2>2. x \in ToSet(groups[i])
    BY <1>3, <2>1
  <2> QED BY <1>1, <2>2 DEF ToSet, OneItem
<1>13. PICK T : /\ T[0] = 0
                /\ \A j \in 0..m : T[j] \in Nat
                /\ \A j \in 1..m : T[j] = Grown(T[j-1], leads[j])
                /\ total = T[m]
  <2>1. leads \in Seq(ItemChoices(items))
    BY <1>8 DEF S
  <2>2. Taken(leads) = FoldLeft(LAMBDA a, x : Grown(a, x), 0, leads)
    BY DEF Taken
  <2> QED BY <1>30, <2>1, <2>2, GrownRuns
<1>14. PICK F : /\ F[0] = [passages |-> <<>>, chars |-> 0, truncated |-> FALSE, said |-> {}]
                /\ \A j \in 0..Len(cs) : F[j] \in SelectStates(items)
                /\ \A j \in 1..Len(cs) : F[j] = AddPassage(items, F[j-1], cs[j])
                /\ Select(items, cs) = F[Len(cs)]
  BY <1>5, SelectRuns DEF S
<1>15. m \in Nat /\ Len(cs) \in Nat /\ m <= Len(cs) /\ \A j \in 1..m : cs[j] = leads[j]
  BY <1>6, <1>7, <1>8, <1>30
<1>16. GetFar(cs, m, F, T)
  <2>1. \A j \in 1..m : T[j] = Grown(T[j-1], cs[j])
    BY <1>13, <1>15
  <2>2. cs \in Seq(ItemChoices(items))
    BY <1>5 DEF S
  <2>3. \A j \in 0..m : T[j] \in Nat
    BY <1>13
  <2> QED BY <1>5, <1>13, <1>14, <1>15, <2>1, <2>2, <2>3, LeadsSelected
<1> DEFINE s == F[k]  r == F[k + 1]
<1>17. /\ k <= m /\ k # m /\ k \in 0..Len(cs) /\ k + 1 \in 1..Len(cs) /\ (k + 1) - 1 = k /\ k + 1 \in 0..m
       /\ k + 1 \in 0..Len(cs) /\ k + 1 \in 1..m /\ \A j \in 1..k : j \in 1..m
  BY <1>10, <1>15
<1>18. cs[k + 1] = c
  BY <1>10, <1>15, <1>17
<1>19. s \in SelectStates(items) /\ c \in S /\ r = AddPassage(items, s, c)
  <2>1. c \in S
    BY <1>5, <1>17, <1>18
  <2> QED BY <1>14, <1>17, <1>18, <2>1
<1>20. /\ Len(s.passages) <= k
       /\ \A p \in ToSet(s.passages) : \E i \in 1..k : p = cs[i]
       /\ s.chars + Fragment(c, s.passages = <<>>) <= T[k + 1]
       /\ c.size >= 1 /\ c.size <= Room(s.passages = <<>>)
  BY <1>16, <1>17, <1>18 DEF GetFar
<1> HIDE DEF s, r, c
<1>21. Len(s.passages) < MaxPassages
  <2> DEFINE a == Len(s.passages)
  <2>1. a \in Nat
    BY <1>19 DEF SelectStates
  <2>2. MaxPassages \in Nat
    BY PackerAssumption
  <2> HIDE DEF a
  <2>3. a <= k
    BY <1>20 DEF a
  <2>4. a < MaxPassages
    BY <1>10, <1>11, <1>15, <2>1, <2>2, <2>3
  <2> QED BY <2>4 DEF a
<1>22. s.chars + Fragment(c, s.passages = <<>>) <= MaxContextChars
  <2> DEFINE a == s.chars  f == Fragment(c, s.passages = <<>>)  b == T[k + 1]
  <2>1. a \in Nat
    BY <1>19 DEF SelectStates
  <2>2. f \in Nat
    <3>1. c.size \in Nat /\ HeaderChars \in Nat /\ SeparatorChars \in Nat
      BY <1>19, PackerAssumption DEF ItemChoices, ItemPassages, S
    <3> QED BY <3>1 DEF Fragment
  <2>3. b \in Nat /\ T[m] \in Nat
    <3>1. m \in 0..m
      BY <1>15
    <3> QED BY <1>13, <1>17, <3>1
  <2>4. b <= T[m]
    <3>1. \A j \in 0..Len(leads) : T[j] \in Nat
      BY <1>13, <1>30
    <3>2. \A j \in 1..Len(leads) : T[j] = Grown(T[j-1], leads[j])
      BY <1>13, <1>30
    <3>3. leads \in Seq(ItemChoices(items)) /\ k + 1 \in 0..Len(leads)
      BY <1>8, <1>17, <1>30 DEF S
    <3> DEFINE d == k + 1
    <3> HIDE DEF d
    <3>4. T[d] <= T[Len(leads)]
      BY <3>1, <3>2, <3>3, GrownOnly DEF d
    <3> QED BY <1>30, <3>4 DEF d
  <2>5. T[m] <= MaxContextChars /\ MaxContextChars \in Nat
    BY <1>11, <1>13, PackerAssumption
  <2>6. a + f <= b
    BY <1>20
  <2> DEFINE e == T[m]
  <2>7. e \in Nat /\ b <= e /\ e <= MaxContextChars
    BY <2>3, <2>4, <2>5
  <2> HIDE DEF a, f, b, e
  <2>8. a + f <= MaxContextChars
    BY <2>1, <2>2, <2>3, <2>5, <2>6, <2>7
  <2> QED BY <2>8 DEF a, f
<1>23. \A p \in ToSet(s.passages) : ~SameSource(items, c, p)
  <2> SUFFICES ASSUME NEW p \in ToSet(s.passages) PROVE ~SameSource(items, c, p)
    OBVIOUS
  <2>1. PICK j \in 1..k : p = cs[j]
    BY <1>20
  <2>2. p = leads[j]
    BY <1>15, <1>17, <2>1
  <2>3. PICK i \in 1..(g - 1) : leads[j] \in ToSet(seqs[i])
    BY <1>10
  <2>4. i \in 1..n /\ i # g
    BY <1>1
  <2>5. p.item = groups[i][1].item
    BY <1>12, <2>2, <2>3, <2>4
  <2>6. c.item = groups[g][1].item
    BY DEF c
  <2> QED BY <1>1, <2>4, <2>5, <2>6 DEF SameSource, Apart
<1>24. Selected(items, s, c) = 0
  <2> QED BY <1>19, <1>23, NoneSelected
<1>25. r.passages = Append(s.passages, c)
  <2>1. c \in ItemChoices(items)
    BY <1>19 DEF S
  <2> QED BY <1>19, <1>20, <2>1, <1>21, <1>22, <1>24, AddPassageTakes
<1>26. c \in ToSet(r.passages)
  <2> DEFINE p == s.passages  q == r.passages  l == Len(p)
  <2>1. p \in Seq(S)
    BY <1>19 DEF SelectStates, S
  <2>2. q = Append(p, c)
    BY <1>25
  <2> HIDE DEF p, q
  <2>3. l \in Nat /\ l + 1 \in DOMAIN q /\ q[l + 1] = c
    BY <2>1, <2>2
  <2> QED BY <2>3 DEF ToSet, q
<1>27. ToSet(r.passages) \subseteq ToSet(F[Len(cs)].passages)
  <2> DEFINE d == k + 1
  <2>1. d \in 0..Len(cs) /\ cs \in Seq(ItemChoices(items))
    BY <1>5, <1>17 DEF S
  <2> HIDE DEF d
  <2>2. ToSet(F[d].passages) \subseteq ToSet(F[Len(cs)].passages)
    BY <1>5, <1>14, <2>1, SelectedStays
  <2> QED BY <2>2 DEF d, r
<1> QED BY <1>14, <1>26, <1>27 DEF cs, c

(* Every item is heard before one is heard twice: when the first passage of    *)
(* each has a place and room, and no two are of one source, each item has a    *)
(* passage in an interleaved context, whatever the evidence and the limits     *)
(* (packer.py:236-262, 394-429).                                               *)
THEOREM NoItemIsTalkedOver == Spec => []EveryItemHeard
<1>1. Spec => [](PathInv /\ PackInv)
  <2>1. Init => PathInv /\ PackInv
    BY PathInvInit, PackInvInit
  <2>2. PathInv /\ PackInv /\ [Next]_vars => (PathInv /\ PackInv)'
    BY PathInvStep, PackInvStep
  <2> QED BY <2>1, <2>2, PTL DEF Spec
<1>2. PathInv /\ PackInv => EveryItemHeard
  <2> SUFFICES ASSUME PathInv, PackInv, pack # NoPack, pack.interleave PROVE EveryItemHeard
    BY DEF EveryItemHeard
  <2> DEFINE groups == Split(evidence).groups
  <2>1. evidence \in Seq(ItemsOf(lineage))
    BY DEF PathInv, EvidenceInv
  <2>2. pack.context.passages = Select(evidence, Candidates(groups, TRUE)).passages
    <3>1. PICK interleave \in BOOLEAN :
            pack = [context |-> PackContext(evidence, interleave), interleave |-> interleave]
      BY DEF PackInv
    <3>2. interleave = TRUE /\ pack.context = PackContext(evidence, TRUE)
      BY <3>1
    <3> QED BY <3>2 DEF PackContext
  <2>3. Parted(evidence, groups)
    <3>1. Split(evidence) \in Splits(evidence)
      BY <2>1, SplitHolds
    <3> QED BY <3>1 DEF Splits
  <2> HIDE DEF groups
  <2>4. ASSUME Len(LeadsOf(groups)) <= MaxPassages, Taken(LeadsOf(groups)) <= MaxContextChars,
               Apart(evidence, groups), NEW g \in DOMAIN groups
        PROVE  \E p \in ToSet(pack.context.passages) : p.item = groups[g][1].item
    <3>1. groups[g][1] \in ToSet(pack.context.passages)
      BY <2>2, <2>3, <2>4, HeardHolds
    <3> QED BY <3>1
  <2> QED BY <2>4 DEF EveryItemHeard, Lead, LeadsOf, Taken, Grown, Apart, groups
<1> QED BY <1>1, <1>2, PTL

-------------------------------------------------------------------------------
(* The parser: nothing of a section is lost.                                   *)

LEMMA OneOfAll ==
  ASSUME NEW texts, NEW k \in DOMAIN texts
  PROVE  Origins(texts[k]) \subseteq AllOrigins(texts)
BY DEF AllOrigins

LEMMA OriginsOfBoth ==
  ASSUME NEW t \in Texts, NEW u \in Texts
  PROVE  Origins(t) \subseteq Origins(t \o u) /\ Origins(u) \subseteq Origins(t \o u)
<1> DEFINE m == Len(t)  n == Len(u)  v == t \o u
<1>1. m \in Nat /\ n \in Nat /\ DOMAIN t = 1..m /\ DOMAIN u = 1..n /\ DOMAIN v = 1..(m + n)
      /\ (\A k \in 1..m : v[k] = t[k]) /\ (\A k \in 1..n : v[m + k] = u[k])
  BY DEF Texts
<1> HIDE DEF m, n, v
<1>2. (\A k \in 1..m : k \in 1..(m + n)) /\ (\A k \in 1..n : m + k \in 1..(m + n))
  BY <1>1
<1>3. \A k \in 1..m : Origin(t[k]) \subseteq Origins(v)
  <2> SUFFICES ASSUME NEW k \in 1..m PROVE Origin(t[k]) \subseteq Origins(v)
    OBVIOUS
  <2>1. k \in DOMAIN v /\ v[k] = t[k]
    BY <1>1, <1>2
  <2> HIDE DEF v
  <2> QED BY <2>1 DEF Origins
<1>4. \A k \in 1..n : Origin(u[k]) \subseteq Origins(v)
  <2> SUFFICES ASSUME NEW k \in 1..n PROVE Origin(u[k]) \subseteq Origins(v)
    OBVIOUS
  <2>1. m + k \in DOMAIN v /\ v[m + k] = u[k]
    BY <1>1, <1>2
  <2> DEFINE i == m + k
  <2>2. i \in DOMAIN v /\ v[i] = u[k]
    BY <2>1
  <2> HIDE DEF i
  <2> QED BY <2>2 DEF Origins
<1>5. Origins(t) \subseteq Origins(v)
  BY <1>1, <1>3 DEF Origins
<1>6. Origins(u) \subseteq Origins(v)
  BY <1>1, <1>4 DEF Origins
<1> QED BY <1>5, <1>6 DEF v

LEMMA OriginsOfJoined ==
  ASSUME NEW t \in Texts, NEW u \in Texts
  PROVE  Origins(t) \subseteq Origins(Joined(t, u)) /\ Origins(u) \subseteq Origins(Joined(t, u))
<1>1. CASE t = <<>>
  <2>1. Joined(t, u) = u /\ Origins(t) = {}
    BY <1>1 DEF Joined, Origins
  <2> QED BY <2>1
<1>2. CASE t # <<>>
  <2> DEFINE x == t \o <<Blank>>
  <2>1. <<Blank>> \in Texts
    BY DEF Texts, Lines, Blank, Kinds
  <2>2. x \in Texts
    BY <2>1 DEF Texts
  <2>3. Origins(t) \subseteq Origins(x)
    BY <2>1, OriginsOfBoth
  <2>4. Joined(t, u) = x \o u
    BY <1>2 DEF Joined
  <2> HIDE DEF x
  <2>5. Origins(x) \subseteq Origins(x \o u) /\ Origins(u) \subseteq Origins(x \o u)
    BY <2>2, OriginsOfBoth
  <2> QED BY <2>3, <2>4, <2>5
<1> QED BY <1>1, <1>2

(* Neither the chunks nor the piece that is put to them lose anything.         *)
LEMMA AddPieceOrigins ==
  ASSUME NEW g \in Grouped, NEW piece \in SomeTexts
  PROVE  /\ AllOrigins(g) \subseteq AllOrigins(AddPiece(g, piece))
         /\ Origins(piece) \subseteq AllOrigins(AddPiece(g, piece))
<1> DEFINE n == Len(g)  last == g[n]  joined == Joined(last, piece)
           h == [g EXCEPT ![n] = joined]  more == Append(g, piece)
<1>1. g \in Seq(SomeTexts) /\ n \in Nat /\ DOMAIN g = 1..n /\ \A i \in 1..n : g[i] \in SomeTexts
  BY DEF Grouped
<1>2. CASE g # <<>> /\ Chars(Joined(Last(g), piece)) <= MaxChunkChars
  <2>1. AddPiece(g, piece) = h
    BY <1>2 DEF AddPiece, Last
  <2>2. n \in 1..n
    BY <1>1, <1>2
  <2>3. last \in Texts /\ piece \in Texts
    BY <1>1, <2>2 DEF SomeTexts
  <2>4. DOMAIN h = 1..n /\ h[n] = joined /\ \A i \in 1..n : i # n => h[i] = g[i]
    BY <1>1, <2>2
  <2> HIDE DEF h, last, n
  <2>5. Origins(last) \subseteq Origins(joined) /\ Origins(piece) \subseteq Origins(joined)
    BY <2>3, OriginsOfJoined
  <2> HIDE DEF joined
  <2>6. Origins(joined) \subseteq AllOrigins(h)
    BY <2>2, <2>4, OneOfAll
  <2>7. \A i \in 1..n : i # n => Origins(g[i]) \subseteq AllOrigins(h)
    <3> SUFFICES ASSUME NEW i \in 1..n, i # n PROVE Origins(g[i]) \subseteq AllOrigins(h)
      OBVIOUS
    <3>1. i \in DOMAIN h /\ h[i] = g[i]
      BY <2>4
    <3>2. Origins(h[i]) \subseteq AllOrigins(h)
      BY <3>1, OneOfAll
    <3> QED BY <3>1, <3>2
  <2>8. \A i \in 1..n : Origins(g[i]) \subseteq AllOrigins(h)
    BY <2>5, <2>6, <2>7 DEF last
  <2>9. AllOrigins(g) \subseteq AllOrigins(h)
    BY <1>1, <2>8 DEF AllOrigins
  <2> QED BY <2>1, <2>5, <2>6, <2>9
<1>3. CASE ~(g # <<>> /\ Chars(Joined(Last(g), piece)) <= MaxChunkChars)
  <2>1. AddPiece(g, piece) = more
    BY <1>3 DEF AddPiece
  <2>2. DOMAIN more = 1..(n + 1) /\ more[n + 1] = piece /\ \A i \in 1..n : more[i] = g[i]
    BY <1>1
  <2>3. n + 1 \in 1..(n + 1) /\ \A i \in 1..n : i \in 1..(n + 1)
    BY <1>1
  <2> HIDE DEF more, n
  <2>4. Origins(piece) \subseteq AllOrigins(more)
    <3> DEFINE i == n + 1
    <3>1. i \in DOMAIN more /\ more[i] = piece
      BY <2>2, <2>3
    <3> HIDE DEF i
    <3> QED BY <3>1, OneOfAll
  <2>5. \A i \in 1..n : Origins(g[i]) \subseteq AllOrigins(more)
    <3> SUFFICES ASSUME NEW i \in 1..n PROVE Origins(g[i]) \subseteq AllOrigins(more)
      OBVIOUS
    <3>1. i \in DOMAIN more /\ more[i] = g[i]
      BY <2>2, <2>3
    <3>2. Origins(more[i]) \subseteq AllOrigins(more)
      BY <3>1, OneOfAll
    <3> QED BY <3>1, <3>2
  <2>6. AllOrigins(g) \subseteq AllOrigins(more)
    BY <1>1, <2>5 DEF AllOrigins
  <2> QED BY <2>1, <2>4, <2>6
<1> QED BY <1>2, <1>3

(* The pieces of a block have all of it.                                       *)
LEMMA SplitTextOrigins ==
  ASSUME NEW text \in Texts
  PROVE  Origins(text) \subseteq AllOrigins(SplitText(text))
<1> DEFINE M == MaxChunkChars  n == Chars(text)  pieces == (n + M - 1) \div M
           At(p) == Window(text, (p - 1) * M, Least(p * M, n))
<1>1. /\ pieces \in Nat
      /\ \A p \in 1..pieces :
           (p - 1) * M \in Nat /\ Least(p * M, n) \in Nat /\ (p - 1) * M < Least(p * M, n) /\ Least(p * M, n) <= n
      /\ \A c \in 0..(n - 1) : \E p \in 1..pieces : (p - 1) * M <= c /\ c < Least(p * M, n)
  BY PiecesOfProse
<1>2. SplitText(text) = [p \in 1..pieces |-> At(p)]
  BY DEF SplitText
<1> HIDE DEF pieces, n, M, At
<1>3. ASSUME NEW i \in DOMAIN text, NEW k \in 0..(text[i].size - 1)
      PROVE  <<text[i].id, text[i].from + k>> \in AllOrigins(SplitText(text))
  <2> DEFINE c == LineStart(text, i) + k
  <2>1. i \in 1..Len(text) /\ Len(text) \in 1..Len(text) /\ text # <<>>
    BY DEF Texts
  <2>2. /\ LineStart(text, i) \in Nat /\ LineEnd(text, i) \in Nat /\ text[i].size \in Nat
        /\ LineEnd(text, i) = LineStart(text, i) + text[i].size
    BY <2>1, StartOfLine
  <2>3. LineEnd(text, i) <= n /\ n \in Nat
    <3>1. n = LineEnd(text, Len(text)) /\ n \in Nat
      BY <2>1, CharsIs DEF n
    <3>2. CASE i = Len(text)
      BY <3>1, <3>2
    <3>3. CASE i # Len(text)
      <4>1. i < Len(text)
        BY <2>1, <3>3
      <4>2. LineEnd(text, i) < LineStart(text, Len(text))
        BY <2>1, <4>1, LinesInOrder
      <4>3. /\ LineStart(text, Len(text)) \in Nat /\ text[Len(text)].size \in Nat
            /\ LineEnd(text, Len(text)) = LineStart(text, Len(text)) + text[Len(text)].size
        BY <2>1, StartOfLine
      <4> QED BY <2>2, <3>1, <4>2, <4>3
    <3> QED BY <3>2, <3>3
  <2>4. c \in LineStart(text, i)..(LineEnd(text, i) - 1) /\ c \in 0..(n - 1) /\ c - LineStart(text, i) = k
    BY <2>2, <2>3
  <2> HIDE DEF c
  <2>5. PICK p \in 1..pieces : (p - 1) * M <= c /\ c < Least(p * M, n)
    BY <1>1, <2>4
  <2> DEFINE a == (p - 1) * M  b == Least(p * M, n)  o == <<text[i].id, text[i].from + (c - LineStart(text, i))>>
  <2>6. a \in Nat /\ b \in Nat /\ a < b /\ b <= n /\ a <= c /\ c < b
    BY <1>1, <2>5
  <2>7. At(p) = Window(text, a, b)
    BY DEF At
  <2> HIDE DEF a, b
  <2>8. o \in Origins(Window(text, a, b))
    BY <2>4, <2>6, WindowIs DEF n
  <2>9. p \in DOMAIN SplitText(text) /\ SplitText(text)[p] = At(p)
    BY <1>2
  <2>10. Origins(SplitText(text)[p]) \subseteq AllOrigins(SplitText(text))
    BY <2>9, OneOfAll
  <2> QED BY <2>4, <2>7, <2>8, <2>9, <2>10
<1> QED BY <1>3 DEF Origins, Origin

LEMMA SplitTableOrigins ==
  ASSUME NEW table \in Blocks, ~InProse(table)
  PROVE  Origins(table) \subseteq AllOrigins(SplitTable(table))
<1> DEFINE header == HeaderOf(table)
           rest == RestOf(table)
           n == Len(rest)
           m0 == Len(header)
           end == FoldLeft(LAMBDA s, row : AddTableRow(header, s, row), [parts |-> <<>>, rows |-> <<>>], rest)
           all == Append(end.parts, header \o end.rows)
<1>1. table \in Texts /\ table # <<>> /\ Len(table) \in Nat /\ m0 \in {2, 4}
  BY TableHeader DEF SomeTexts, Texts
<1>4. CASE SplitTable(table) = <<table>>
  <2>1. 1 \in DOMAIN <<table>> /\ <<table>>[1] = table
    OBVIOUS
  <2> QED BY <1>4, <2>1 DEF AllOrigins
<1>6. SplitTable(table) = <<table>> \/ (~(Len(table) <= m0 + 1) /\ SplitTable(table) = all)
  BY <1>1, SplitTableIs
<1> SUFFICES ASSUME Len(table) > m0 + 1, SplitTable(table) = all
             PROVE  Origins(table) \subseteq AllOrigins(SplitTable(table))
  <2> HIDE DEF all, m0
  <2> QED BY <1>1, <1>4, <1>6
<1>0. Len(table) > m0 + 1
  OBVIOUS
<1>8. header \in Texts /\ header # <<>> /\ \A i \in 1..m0 : header[i] = table[i]
  BY TableHeader DEF SomeTexts
<1>9. rest \in Texts /\ n = Len(table) - m0 /\ \A k \in 1..n : rest[k] = table[k + m0]
  BY <1>0, TableRest
<1>2. header \in Texts /\ header # <<>> /\ DOMAIN header = 1..m0 /\ \A i \in 1..m0 : header[i] = table[i]
  <2> HIDE DEF header, rest, end
  <2> QED BY <1>8 DEF Texts
<1>3. rest \in Texts /\ n = Len(table) - m0 /\ DOMAIN rest = 1..n /\ \A k \in 1..n : rest[k] = table[k + m0]
  <2> HIDE DEF header, rest, end
  <2> QED BY <1>9 DEF Texts
<1> HIDE DEF m0, header, rest, n
<1>5. CASE SplitTable(table) = all
  <2> HIDE DEF header, rest, n
  <2>1. PICK F : /\ F[0] = [parts |-> <<>>, rows |-> <<>>]
                 /\ \A k \in 0..Len(rest) : F[k] \in TableState
                 /\ \A k \in 1..Len(rest) : F[k] = AddTableRow(header, F[k-1], rest[k])
                 /\ end = F[Len(rest)]
    BY <1>2, <1>3, RowsSplit
  <2> HIDE DEF end
  <2>2. n \in Nat /\ n = Len(rest) /\ \A k \in 1..n : rest[k] \in Lines
    BY <1>1, <1>3 DEF n, Texts
  <2> DEFINE Had(k) == AllOrigins(F[k].parts) \cup Origins(F[k].rows)
             V == {k \in Nat : k <= n => \A j \in 1..k : Origin(rest[j]) \subseteq Had(k)}
  <2>3. 0 \in V
    OBVIOUS
  <2>4. ASSUME NEW k \in Nat, k \in V PROVE k + 1 \in V
    <3> SUFFICES ASSUME k + 1 <= n PROVE \A j \in 1..(k + 1) : Origin(rest[j]) \subseteq Had(k + 1)
      <4> HIDE DEF Had
      <4> QED OBVIOUS
    <3>1. k + 1 \in 1..n /\ k \in 0..n /\ (k + 1) - 1 = k /\ k <= n
      BY <2>2
    <3> DEFINE s == F[k]  row == rest[k + 1]  r == F[k + 1]
    <3>2. s \in TableState /\ r = AddTableRow(header, s, row) /\ row \in Lines
      BY <2>1, <2>2, <3>1
    <3>3. s.parts \in Seq(SomeTexts) /\ s.rows \in Texts
      BY <3>2 DEF TableState
    <3>4. \A j \in 1..k : Origin(rest[j]) \subseteq Had(k)
      BY <2>4, <3>1
    <3>5. Had(k) = AllOrigins(s.parts) \cup Origins(s.rows) /\ Had(k + 1) = AllOrigins(r.parts) \cup Origins(r.rows)
      OBVIOUS
    <3> HIDE DEF Had, s, row, r
    <3>6. AllOrigins(s.parts) \subseteq AllOrigins(r.parts) /\ Origins(s.rows) \subseteq Had(k + 1)
          /\ Origin(row) \subseteq Had(k + 1)
      <4>1. CASE r = [parts |-> Append(s.parts, header \o s.rows), rows |-> <<row>>]
        <5> DEFINE p == s.parts  x == header \o s.rows  m == Len(p)  q == Append(p, x)
        <5>1. r.parts = q /\ r.rows = <<row>>
          BY <4>1
        <5>2. m \in Nat /\ DOMAIN p = 1..m /\ DOMAIN q = 1..(m + 1) /\ q[m + 1] = x /\ \A i \in 1..m : q[i] = p[i]
          BY <3>3
        <5> HIDE DEF p, m, q, x
        <5>3. (\A i \in 1..m : i \in 1..(m + 1)) /\ m + 1 \in 1..(m + 1)
          BY <5>2
        <5>4. AllOrigins(p) \subseteq AllOrigins(q) /\ Origins(x) \subseteq AllOrigins(q)
          BY <5>2, <5>3 DEF AllOrigins
        <5>5. Origins(s.rows) \subseteq Origins(x)
          BY <1>2, <3>3, OriginsOfBoth DEF x
        <5>6. Origins(<<row>>) = Origin(row)
          BY DEF Origins
        <5> QED BY <3>5, <5>1, <5>4, <5>5, <5>6 DEF p
      <4>2. CASE r = [s EXCEPT !.rows = Append(@, row)]
        <5> DEFINE t == s.rows
        <5>1. r.parts = s.parts /\ r.rows = Append(t, row)
          BY <3>2, <4>2 DEF TableState
        <5>2. Append(t, row) = t \o <<row>> /\ <<row>> \in Texts /\ t \in Texts
          BY <3>2, <3>3 DEF Texts
        <5> HIDE DEF t
        <5>3. Origins(t) \subseteq Origins(t \o <<row>>) /\ Origins(<<row>>) \subseteq Origins(t \o <<row>>)
          BY <5>2, OriginsOfBoth
        <5>4. Origins(<<row>>) = Origin(row)
          BY DEF Origins
        <5> QED BY <3>5, <5>1, <5>2, <5>3, <5>4 DEF t
      <4> QED BY <3>2, <4>1, <4>2 DEF AddTableRow
    <3>7. Had(k) \subseteq Had(k + 1)
      BY <3>5, <3>6
    <3>8. \A j \in 1..(k + 1) : j \in 1..k \/ j = k + 1
      OBVIOUS
    <3> QED BY <3>4, <3>6, <3>7, <3>8 DEF row
  <2>5. \A k \in Nat : k \in V
    <3> HIDE DEF V
    <3> QED BY <2>3, <2>4, SetInduction
  <2>6. \A j \in 1..n : Origin(rest[j]) \subseteq AllOrigins(end.parts) \cup Origins(end.rows)
    <3>1. n \in V /\ n <= n
      <4> HIDE DEF V, all
      <4> QED BY <2>2, <2>5
    <3> QED BY <2>1, <2>2, <3>1
  <2>7. end.parts \in Seq(SomeTexts) /\ end.rows \in Texts
    <3>1. n \in 0..n
      BY <2>2
    <3> QED BY <2>1, <2>2, <3>1 DEF TableState
  <2> DEFINE p == end.parts  x == header \o end.rows  m == Len(p)
  <2>8. m \in Nat /\ DOMAIN p = 1..m /\ DOMAIN all = 1..(m + 1) /\ all[m + 1] = x /\ \A i \in 1..m : all[i] = p[i]
    BY <2>7
  <2> HIDE DEF p, m, x, all
  <2>9. AllOrigins(p) \subseteq AllOrigins(all) /\ Origins(x) \subseteq AllOrigins(all)
    <3>1. (\A i \in 1..m : i \in 1..(m + 1)) /\ m + 1 \in 1..(m + 1)
      BY <2>8
    <3> QED BY <2>8, <3>1 DEF AllOrigins
  <2>10. Origins(header) \subseteq Origins(x) /\ Origins(end.rows) \subseteq Origins(x)
    BY <1>2, <2>7, OriginsOfBoth DEF x
  <2>11. \A i \in DOMAIN table : Origin(table[i]) \subseteq AllOrigins(all)
    <3> SUFFICES ASSUME NEW i \in DOMAIN table PROVE Origin(table[i]) \subseteq AllOrigins(all)
      OBVIOUS
    <3>1. i \in 1..Len(table)
      BY <1>1 DEF Texts
    <3>2. CASE i \in 1..m0
      <4>1. i \in DOMAIN header /\ header[i] = table[i]
        BY <1>2, <3>2
      <4>2. Origin(table[i]) \subseteq Origins(header)
        BY <4>1 DEF Origins
      <4> QED BY <2>9, <2>10, <4>2
    <3>3. CASE i \notin 1..m0
      <4>1. i - m0 \in 1..n /\ (i - m0) + m0 = i
        BY <1>1, <1>3, <3>1, <3>3
      <4>2. Origin(table[i]) \subseteq AllOrigins(p) \cup Origins(end.rows)
        BY <1>3, <2>6, <4>1 DEF p
      <4> QED BY <2>9, <2>10, <4>2
    <3> QED BY <3>2, <3>3
  <2>12. Origins(table) \subseteq AllOrigins(all)
    BY <2>11 DEF Origins
  <2> QED BY <1>5, <2>12
<1>7. SplitTable(table) = all
  OBVIOUS
<1> HIDE DEF all
<1> QED BY <1>5, <1>7

LEMMA PiecesOrigins ==
  ASSUME NEW block \in Blocks
  PROVE  Origins(block) \subseteq AllOrigins(Pieces(block))
<1>1. block \in Texts
  BY DEF Blocks
<1> QED BY <1>1, SplitTextOrigins, SplitTableOrigins DEF Pieces

(* Chunks keep what they had.                                                  *)
LEMMA AddBlockOrigins ==
  ASSUME NEW start \in Grouped, NEW block \in Blocks
  PROVE  /\ AllOrigins(start) \subseteq AllOrigins(AddBlock(start, block))
         /\ Origins(block) \subseteq AllOrigins(AddBlock(start, block))
<1> DEFINE seq == Pieces(block)  n == Len(seq)
<1>1. n \in Nat /\ DOMAIN seq = 1..n /\ \A k \in 1..n : seq[k] \in SomeTexts
  BY PiecesTyped
<1>2. PICK F : /\ F[0] = start
               /\ \A k \in 0..n : F[k] \in Grouped
               /\ \A k \in 1..n : F[k] = AddPiece(F[k-1], seq[k])
               /\ AddBlock(start, block) = F[n]
  BY BlockRuns
<1> HIDE DEF n, seq
<1> DEFINE Q(k) == /\ AllOrigins(start) \subseteq AllOrigins(F[k])
                   /\ \A j \in 1..k : Origins(seq[j]) \subseteq AllOrigins(F[k])
           V == {k \in Nat : k <= n => Q(k)}
<1>3. 0 \in V
  BY <1>2
<1>4. ASSUME NEW k \in Nat, k \in V PROVE k + 1 \in V
  <2> SUFFICES ASSUME k + 1 <= n PROVE Q(k + 1)
    <3> HIDE DEF Q
    <3> QED OBVIOUS
  <2>1. k + 1 \in 1..n /\ k \in 0..n /\ (k + 1) - 1 = k /\ k <= n
    BY <1>1
  <2> DEFINE s == F[k]  x == seq[k + 1]  r == F[k + 1]
  <2>2. s \in Grouped /\ r = AddPiece(s, x) /\ x \in SomeTexts
    BY <1>1, <1>2, <2>1
  <2>3. Q(k)
    BY <1>4, <2>1
  <2>4. AllOrigins(s) \subseteq AllOrigins(r) /\ Origins(x) \subseteq AllOrigins(r)
    <3> HIDE DEF s, x, r
    <3> QED BY <2>2, AddPieceOrigins
  <2>5. \A j \in 1..(k + 1) : j \in 1..k \/ j = k + 1
    OBVIOUS
  <2> QED BY <2>3, <2>4, <2>5
<1>5. \A k \in Nat : k \in V
  <2> HIDE DEF V
  <2> QED BY <1>3, <1>4, SetInduction
<1>6. Q(n)
  <2> HIDE DEF Q
  <2>1. n <= n
    BY <1>1
  <2> QED BY <1>1, <1>5, <2>1
<1>7. AllOrigins(seq) \subseteq AllOrigins(F[n])
  BY <1>1, <1>6 DEF AllOrigins
<1>8. Origins(block) \subseteq AllOrigins(seq)
  BY PiecesOrigins DEF seq
<1> QED BY <1>2, <1>6, <1>7, <1>8

(* Nothing of a section is lost in its chunks.                                 *)
LEMMA ChunksOrigins ==
  ASSUME NEW section \in Seq(Blocks)
  PROVE  AllOrigins(section) \subseteq AllOrigins(Chunks(section))
<1> DEFINE n == Len(section)
<1>1. n \in Nat /\ DOMAIN section = 1..n /\ \A k \in 1..n : section[k] \in Blocks
  OBVIOUS
<1>2. PICK F : /\ F[0] = <<>>
               /\ \A k \in 0..n : F[k] \in Grouped
               /\ \A k \in 1..n : F[k] = AddBlock(F[k-1], section[k])
               /\ Chunks(section) = F[n]
  BY ChunkRuns
<1> HIDE DEF n
<1> DEFINE Q(k) == \A j \in 1..k : Origins(section[j]) \subseteq AllOrigins(F[k])
           V == {k \in Nat : k <= n => Q(k)}
<1>3. 0 \in V
  OBVIOUS
<1>4. ASSUME NEW k \in Nat, k \in V PROVE k + 1 \in V
  <2> SUFFICES ASSUME k + 1 <= n PROVE Q(k + 1)
    <3> HIDE DEF Q
    <3> QED OBVIOUS
  <2>1. k + 1 \in 1..n /\ k \in 0..n /\ (k + 1) - 1 = k /\ k <= n
    BY <1>1
  <2> DEFINE s == F[k]  x == section[k + 1]  r == F[k + 1]
  <2>2. s \in Grouped /\ r = AddBlock(s, x) /\ x \in Blocks
    BY <1>1, <1>2, <2>1
  <2>3. Q(k)
    BY <1>4, <2>1
  <2>4. AllOrigins(s) \subseteq AllOrigins(r) /\ Origins(x) \subseteq AllOrigins(r)
    <3> HIDE DEF s, x, r
    <3> QED BY <2>2, AddBlockOrigins
  <2>5. \A j \in 1..(k + 1) : j \in 1..k \/ j = k + 1
    OBVIOUS
  <2> QED BY <2>3, <2>4, <2>5
<1>5. \A k \in Nat : k \in V
  <2> HIDE DEF V
  <2> QED BY <1>3, <1>4, SetInduction
<1>6. Q(n)
  <2> HIDE DEF Q
  <2>1. n <= n
    BY <1>1
  <2> QED BY <1>1, <1>5, <2>1
<1> QED BY <1>1, <1>2, <1>6 DEF AllOrigins

(* The pages of a section: what is on one, and from where the next one goes on. *)

(* A prefix has nothing that its text has not.                                 *)
LEMMA PrefixOrigins ==
  ASSUME NEW t \in Texts, NEW n \in Nat \ {0}
  PROVE  Origins(Prefix(t, n)) \subseteq Origins(t)
<1>1. PICK c \in Nat :
           /\ c <= Len(t)
           /\ Prefix(t, n) = [i \in 1..c |-> CutLine(t[i], Least(t[i].size, n - LineStart(t, i)))]
           /\ \A i \in 1..c : LineStart(t, i) < n
  BY PrefixIs
<1>2. ASSUME NEW i \in 1..c PROVE Origin(Prefix(t, n)[i]) \subseteq Origin(t[i]) /\ i \in DOMAIN t
  <2>1. i \in 1..Len(t) /\ Len(t) \in Nat /\ DOMAIN t = 1..Len(t) /\ t[i] \in Lines
    BY <1>1 DEF Texts
  <2>2. LineStart(t, i) \in Nat /\ t[i].size \in Nat /\ t[i].from \in Nat
    BY <2>1, StartOfLine, LineTyped
  <2> DEFINE size == Least(t[i].size, n - LineStart(t, i))
             line == CutLine(t[i], size)
  <2>3. size \in Nat /\ size <= t[i].size
    BY <1>1, <2>2 DEF Least
  <2>4. Prefix(t, n)[i] = line
    BY <1>1
  <2> HIDE DEF size
  <2>5. line.id = t[i].id /\ line.from = t[i].from /\ line.size = size
    BY <2>1 DEF CutLine, Lines
  <2> HIDE DEF line
  <2>6. Origin(line) \subseteq Origin(t[i])
    <3>1. \A k \in 0..(size - 1) : k \in 0..(t[i].size - 1)
      BY <2>2, <2>3
    <3> QED BY <2>5, <3>1 DEF Origin
  <2> QED BY <2>1, <2>4, <2>6
<1>3. DOMAIN Prefix(t, n) = 1..c
  BY <1>1
<1> QED BY <1>2, <1>3 DEF Origins

LEMMA PutHolds ==
  ASSUME NEW rows \in Seq(RowTexts), NEW maxChars \in Nat \ {0}, NEW s \in PageState,
         NEW k \in 1..Len(rows), PartsOfRows(rows, s.parts)
  PROVE  PartsOfRows(rows, Put(rows, maxChars, s, k).parts)
<1> DEFINE sep == IF s.parts = <<>> THEN 0 ELSE 1
           available == maxChars - (s.used + sep)
           text == Prefix(rows[k].text, available)
           one == [part |-> rows[k].part, source |-> k, text |-> text]
           r == Put(rows, maxChars, s, k)
           m == Len(s.parts)
<1>1. s.parts \in Seq(PartTexts) /\ s.used \in Nat /\ sep \in Nat /\ m \in Nat
      /\ s = [parts |-> s.parts, used |-> s.used, full |-> s.full]
  BY DEF PageState
<1>2. rows[k].text \in Texts /\ rows[k].part \in Nat /\ k \in Nat
  <2>1. rows[k] \in RowTexts
    OBVIOUS
  <2> QED BY <2>1 DEF RowTexts, SomeTexts
<1> HIDE DEF sep
<1>3. CASE s.full \/ maxChars <= s.used + sep
  <2>1. r = [s EXCEPT !.full = TRUE]
    BY <1>3 DEF Put, sep
  <2>2. r.parts = s.parts
    BY <1>1, <2>1
  <2> QED BY <2>2
<1>4. CASE ~s.full /\ ~(maxChars <= s.used + sep)
  <2>1. available \in Nat \ {0}
    BY <1>1, <1>4
  <2>2. r = [parts |-> Append(s.parts, one), used |-> s.used + sep + Chars(text),
             full |-> Chars(text) < Chars(rows[k].text)]
    BY <1>4 DEF Put, sep
  <2>3. r.parts = Append(s.parts, one)
    BY <2>2
  <2>4. text \in Texts /\ Origins(text) \subseteq Origins(rows[k].text)
    BY <1>2, <2>1, PrefixFits, PrefixOrigins
  <2> HIDE DEF r, text
  <2>5. PartOfRow(rows, one)
    BY <2>4 DEF PartOfRow
  <2>6. one \in PartTexts
    BY <1>2, <2>4 DEF PartTexts
  <2> HIDE DEF one
  <2> DEFINE more == Append(s.parts, one)
  <2>7. Len(more) = m + 1 /\ (\A i \in 1..m : more[i] = s.parts[i]) /\ more[m + 1] = one
    BY <1>1, <2>6
  <2> HIDE DEF more
  <2>8. \A i \in 1..Len(more) : i \in 1..m \/ i = m + 1
    BY <1>1, <2>7
  <2>9. PartsOfRows(rows, more)
    BY <2>5, <2>7, <2>8 DEF PartsOfRows
  <2> QED BY <2>3, <2>9 DEF more, r
<1> QED BY <1>3, <1>4

LEMMA PartsHold ==
  ASSUME NEW rows \in Seq(RowTexts), NEW from \in Nat, NEW maxChars \in Nat \ {0}
  PROVE  PartsOfRows(rows, PartsFrom(rows, from, maxChars))
<1> DEFINE n == Len(rows)
<1>1. PICK F : PartRuns(rows, from, maxChars, F)
  BY PartsRun
<1>2. /\ n \in Nat /\ F[0] = [parts |-> <<>>, used |-> 0, full |-> FALSE]
      /\ \A k \in 0..n : F[k] \in PageState
      /\ \A k \in 1..n : F[k] = AddPart(rows, from, maxChars, F[k-1], k)
      /\ PartsFrom(rows, from, maxChars) = F[n].parts
  BY <1>1 DEF PartRuns
<1> HIDE DEF n
<1> DEFINE T == {k \in Nat : k <= n => PartsOfRows(rows, F[k].parts)}
<1>3. 0 \in T
  BY <1>2 DEF PartsOfRows
<1>4. ASSUME NEW k \in Nat, k \in T PROVE k + 1 \in T
  <2> SUFFICES ASSUME k + 1 <= n PROVE PartsOfRows(rows, F[k + 1].parts)
    OBVIOUS
  <2>1. k + 1 \in 1..n /\ (k + 1) - 1 = k /\ k <= n /\ k \in 0..n
    BY <1>2
  <2>2. F[k] \in PageState /\ PartsOfRows(rows, F[k].parts)
    BY <1>2, <1>4, <2>1
  <2>3. F[k + 1] = AddPart(rows, from, maxChars, F[k], k + 1)
    BY <1>2, <2>1
  <2>4. F[k + 1] = F[k] \/ F[k + 1] = Put(rows, maxChars, F[k], k + 1)
    BY <2>3, AddPartIs
  <2>5. PartsOfRows(rows, Put(rows, maxChars, F[k], k + 1).parts)
    BY <2>1, <2>2, PutHolds DEF n
  <2> QED BY <2>2, <2>4, <2>5
<1>5. \A k \in Nat : k \in T
  <2> HIDE DEF T
  <2> QED BY <1>3, <1>4, SetInduction
<1>6. n \in T /\ n <= n
  BY <1>2, <1>5
<1> QED BY <1>2, <1>6

LEMMA RowParts ==
  ASSUME NEW rows \in Seq(RowTexts)
  PROVE  Len(rows) \in Nat /\ DOMAIN rows = 1..Len(rows) /\ \A k \in 1..Len(rows) : rows[k].part \in Nat \ {0}
<1>1. \A x \in RowTexts : x.part \in Nat \ {0}
  BY DEF RowTexts
<1>2. \A k \in 1..Len(rows) : rows[k] \in RowTexts
  OBVIOUS
<1>3. Len(rows) \in Nat /\ DOMAIN rows = 1..Len(rows)
  OBVIOUS
<1> QED BY <1>1, <1>2, <1>3

(* A page has the rows up to the one whose number it gives. *)
LEMMA PageHolds ==
  ASSUME NEW rows \in Seq(RowTexts), NEW from \in Nat, NEW maxChars \in Nat \ {0}
  PROVE  PageGood(ReadSection(rows, from, maxChars), rows, from)
<1> DEFINE parts == PartsFrom(rows, from, maxChars)
           whole == {parts[i].source : i \in {j \in DOMAIN parts : parts[j].text = rows[parts[j].source].text}}
           left == {k \in DOMAIN rows : rows[k].part >= from /\ k \notin whole}
           page == ReadSection(rows, from, maxChars)
           n == Len(rows)
<1>1. page = [parts |-> parts, truncated |-> left # {},
              nextPart |-> IF left = {} THEN 0 ELSE rows[Min(left)].part]
  BY DEF ReadSection, PageOf
<1>2. PartsOfRows(rows, parts) /\ parts \in Seq(PartTexts)
  BY PartsHold, PageRowsTyped
<1>3. n \in Nat /\ DOMAIN rows = 1..n /\ \A k \in 1..n : rows[k].part \in Nat \ {0}
  BY RowParts
<1> HIDE DEF parts, n
<1>4. DOMAIN parts = 1..Len(parts)
  BY <1>2
<1>5. \A j \in 1..n : j \in whole => \E i \in 1..Len(parts) : parts[i].source = j /\ parts[i].text = rows[j].text
  BY <1>4
<1>6. \A j \in 1..n : rows[j].part >= from => j \in left \/ j \in whole
  BY <1>3
<1>7. left \in SUBSET (0..n) /\ \A k \in left : k \in 1..n /\ rows[k].part >= from
  BY <1>3
<1> HIDE DEF whole, left, page
<1>8. \A j \in 1..n : j \in whole => HasWhole(page, rows, j)
  BY <1>1, <1>5 DEF HasWhole
<1>9. CASE left = {}
  <2>1. page.parts = parts /\ page.nextPart = 0 /\ page.truncated = FALSE
    BY <1>1, <1>9
  <2> QED BY <1>2, <1>6, <1>8, <1>9, <2>1 DEF PageGood, n, page
<1>10. CASE left # {}
  <2> DEFINE m == Min(left)
  <2>1. m \in left /\ \A x \in left : m <= x
    BY <1>3, <1>7, <1>10, LeastOne
  <2>2. page.parts = parts /\ page.nextPart = rows[m].part /\ page.truncated = TRUE
    BY <1>1, <1>10
  <2> HIDE DEF m
  <2>3. m \in 1..n /\ rows[m].part >= from /\ rows[m].part # 0
    BY <1>3, <1>7, <2>1
  <2>4. \A j \in 1..n : j < m => j \notin left
    BY <2>1, <2>3
  <2>5. \A j \in 1..n : rows[j].part >= from /\ j < m => HasWhole(page, rows, j)
    BY <1>6, <1>8, <2>4
  <2> QED BY <1>2, <2>2, <2>3, <2>5 DEF PageGood, n, page
<1> QED BY <1>9, <1>10

(* The pages that were read and what was collected of them.                    *)

LEMMA PagesHold ==
  ASSUME WorldInv, NEW from \in Nat
  PROVE  PageGood(Page(from), stored, from) /\ stored \in Seq(RowTexts)
<1>1. stored \in Seq(RowTexts) /\ MaxChars \in Nat \ {0}
  BY WorldAssumption, RowsHold DEF WorldInv
<1> QED BY <1>1, PageHolds DEF Page

(* The rows of one file are in the order of their parts.                       *)
LEMMA StoredSorted ==
  ASSUME WorldInv, Len(files) = 1
  PROVE  \A i, j \in 1..Len(stored) : i <= j => stored[i].part <= stored[j].part
<1>1. stored = InFile(files[1]) /\ files[1] \in Seq(Seq(Blocks))
  BY RowsHold DEF WorldInv
<1> QED BY <1>1, InFileHolds

(* What a sequence made of two has of each.                                    *)
LEMMA AllOfBoth ==
  ASSUME NEW S, NEW a \in Seq(S), NEW b \in Seq(S)
  PROVE  /\ \A i \in DOMAIN a : i \in DOMAIN (a \o b) /\ (a \o b)[i] = a[i]
         /\ \A i \in DOMAIN b : Len(a) + i \in DOMAIN (a \o b) /\ (a \o b)[Len(a) + i] = b[i]
<1>1. Len(a) \in Nat /\ Len(b) \in Nat /\ DOMAIN a = 1..Len(a) /\ DOMAIN b = 1..Len(b)
      /\ DOMAIN (a \o b) = 1..(Len(a) + Len(b))
  OBVIOUS
<1> QED BY <1>1

(* Two pages of one file that were put together are all of it.                 *)
LEMMA JoinIs ==
  ASSUME NEW rows \in Seq(RowTexts), NEW first \in PageRecords, NEW second \in PageRecords,
         \A i, j \in 1..Len(rows) : i <= j => rows[i].part <= rows[j].part,
         PageGood(first, rows, 1), PageGood(second, rows, first.nextPart),
         JoinPages(first, second) # <<>>
  PROVE  \A j \in 1..Len(rows) :
           \E k \in DOMAIN JoinPages(first, second) : JoinPages(first, second)[k].text = rows[j].text
<1> DEFINE n == Len(first.parts)  m == Len(second.parts)
           r == first.nextPart  x == SubSeq(first.parts, 1, r - 1)  y == second.parts
<1>1. /\ first.truncated /\ first.parts # <<>> /\ second.truncated = FALSE
      /\ \A i \in DOMAIN first.parts : first.parts[i].part = 1 + i - 1
      /\ r \in {n, n + 1}
      /\ JoinPages(first, second) = x \o y
  <2>1. second.truncated \in BOOLEAN
    BY DEF PageRecords
  <2> QED BY <2>1 DEF JoinPages
<1>2. /\ n \in Nat /\ m \in Nat /\ r \in Nat
      /\ first.parts \in Seq(PartTexts) /\ second.parts \in Seq(PartTexts)
      /\ DOMAIN first.parts = 1..n
  BY DEF PageRecords
<1>3. r # 0 /\ second.nextPart = 0
  BY <1>1 DEF PageGood
<1>4. PICK l \in 1..Len(rows) :
        /\ r = rows[l].part
        /\ \A j \in 1..Len(rows) : rows[j].part >= 1 /\ j < l => HasWhole(first, rows, j)
  BY <1>3 DEF PageGood
<1>5. \A j \in 1..Len(rows) : rows[j].part >= r => HasWhole(second, rows, j)
  BY <1>3 DEF PageGood
<1>6. Len(rows) \in Nat /\ \A j \in 1..Len(rows) : rows[j].part \in Nat \ {0}
  BY RowParts
<1>7. x \in Seq(PartTexts) /\ Len(x) = r - 1 /\ \A i \in 1..(r - 1) : i \in 1..n /\ x[i] = first.parts[i]
  <2>1. r - 1 \in 0..n
    BY <1>1, <1>2, <1>3
  <2> HIDE DEF r
  <2> QED BY <1>2, <2>1
<1>8. /\ \A i \in DOMAIN x : i \in DOMAIN (x \o y) /\ (x \o y)[i] = x[i]
      /\ \A i \in DOMAIN y : Len(x) + i \in DOMAIN (x \o y) /\ (x \o y)[Len(x) + i] = y[i]
  <2>1. x \in Seq(PartTexts) /\ y \in Seq(PartTexts)
    BY <1>2, <1>7
  <2> HIDE DEF x, y
  <2> QED BY ONLY <2>1, AllOfBoth
<1>9. DOMAIN x = 1..(r - 1) /\ DOMAIN y = 1..m
  BY <1>2, <1>3, <1>7
<1> SUFFICES ASSUME NEW j \in 1..Len(rows)
             PROVE  \E k \in DOMAIN (x \o y) : (x \o y)[k].text = rows[j].text
  BY <1>1
<1> HIDE DEF x, y, r, n, m
<1>10. CASE rows[j].part >= r
  <2>1. PICK i \in 1..m : second.parts[i].text = rows[j].text
    BY <1>5, <1>10 DEF HasWhole, m
  <2> QED BY <1>8, <1>9, <2>1 DEF y
<1>11. CASE ~(rows[j].part >= r)
  <2>1. j < l
    BY <1>2, <1>4, <1>6, <1>11
  <2>2. PICK i \in 1..n : first.parts[i].source = j /\ first.parts[i].text = rows[j].text
    BY <1>4, <1>6, <2>1 DEF HasWhole, n
  <2>3. first.parts[i].part = rows[j].part
    BY <2>2 DEF PageGood, PartsOfRows, PartOfRow, n
  <2>4. i = rows[j].part
    BY <1>1, <1>2, <2>2, <2>3
  <2>5. i \in 1..(r - 1)
    BY <1>2, <1>6, <1>11, <2>2, <2>4
  <2> QED BY <1>7, <1>8, <1>9, <2>2, <2>5
<1> QED BY <1>10, <1>11

LEMMA JoinedWhole ==
  ASSUME WorldInv, PagesWereRead, JoinedPages # <<>>, Len(files) = 1
  PROVE  \A j \in 1..Len(stored) : \E k \in DOMAIN JoinedPages : JoinedPages[k].text = stored[j].text
<1> DEFINE p == CHOOSE p \in pages : p[1] = 1
           q == CHOOSE q \in pages : q[1] = p[2].nextPart
<1>1. JoinedPages = JoinPages(p[2], q[2])
  BY DEF JoinedPages
<1>2. PICK first \in pages : \E second \in pages : first[1] = 1 /\ second[1] = first[2].nextPart
  BY DEF JoinedPages
<1>3. PICK second \in pages : first[1] = 1 /\ second[1] = first[2].nextPart
  BY <1>2
<1>4. \A x \in pages : x[1] \in Nat \ {0} /\ x = <<x[1], Page(x[1])>>
  BY DEF PagesWereRead
<1>5. p \in pages /\ p[1] = 1
  BY <1>3
<1> HIDE DEF p
<1>6. p = first
  BY <1>3, <1>4, <1>5
<1>7. q \in pages /\ q[1] = p[2].nextPart
  BY <1>3, <1>6
<1> HIDE DEF q
<1>8. ASSUME NEW x \in pages
      PROVE  x[1] \in Nat \ {0} /\ x[2] \in PageRecords /\ PageGood(x[2], stored, x[1])
  <2>1. x[1] \in Nat \ {0} /\ x[2] = Page(x[1])
    BY <1>4
  <2> QED BY <2>1, PageTyped, PagesHold
<1>9. p[2] \in PageRecords /\ q[2] \in PageRecords /\ PageGood(p[2], stored, 1)
      /\ PageGood(q[2], stored, p[2].nextPart)
  BY <1>5, <1>7, <1>8
<1>10. stored \in Seq(RowTexts) /\ \A i, j \in 1..Len(stored) : i <= j => stored[i].part <= stored[j].part
  BY PagesHold, StoredSorted
<1> QED BY <1>1, <1>9, <1>10, JoinIs

LEMMA SectionInvInit == Init => SectionInv
<1>1. IsFiniteSet({})
  BY FS_EmptySet
<1> QED BY <1>1 DEF Init, RegistryInit, SectionInv

LEMMA SameHeld ==
  ASSUME SectionInv, UNCHANGED <<files, evidence, pages>>
  PROVE  IsFiniteSet(pages') /\ (Len(files) = 1 => \A p \in pages : HeldPage(p[2]))'
<1>1. Held' = Held
  BY DEF Held
<1> QED BY <1>1 DEF SectionInv, HeldPage

LEMMA NothingFound ==
  ASSUME SectionInv, UNCHANGED <<files, evidence, pages>>,
         stage' \notin {"leave", "done"} \/ \E code : Finish(Error(code))
  PROVE  SectionInv'
<1>1. stage' # "leave" /\ (stage' = "done" => result'.status # "ok")
  BY DEF Finish, Error
<1> QED BY <1>1, SameHeld DEF SectionInv

LEMMA ExecuteKeepsSection ==
  ASSUME PathInv, SectionInv, Execute, UNCHANGED <<worldVars, evidence, pages>>
  PROVE  SectionInv'
<1>1. stage' = "leave" /\ call' = call /\ naming' = naming /\ files' = files /\ stored' = stored /\ call \in Calls
  BY DEF Execute, worldVars, PathInv, AnswerInv
<1>2. Asked' = Asked
  BY <1>1 DEF Asked
<1>3. ASSUME answer'.status = "ok", Asked.tool = "read_section"
      PROVE  answer'.rows = PageRows(Page(call.partFrom))
  <2>1. answer' = Respond(Asked, bound)
    BY <1>3 DEF Execute, Failure, Response
  <2>2. Asked.partFrom = call.partFrom
    BY <1>1, CallsAssumption DEF Asked
  <2>3. answer' = ReadPage(call.partFrom, {bound["db_path"]})
    BY <1>3, <2>1, <2>2 DEF Respond
  <2> QED BY <2>3 DEF ReadPage, Found, Response
<1>4. (answer.rows = PageRows(Page(call.partFrom)))' <=> answer'.rows = PageRows(Page(call.partFrom))
  BY <1>1 DEF Page, PageRows, ChunkRow, Row
<1> QED BY <1>1, <1>2, <1>3, <1>4, SameHeld DEF SectionInv

(* What the registry makes of a page are its parts, as evidence.               *)
LEMMA PageNormalized ==
  ASSUME NEW raw, IsResponse(raw), raw.tool = "read_section", NEW page \in PageRecords,
         raw.rows = PageRows(page), Normalize(raw).status = "ok"
  PROVE  FoundPage(page, Normalize(raw).evidence)
<1> DEFINE can == Canonical(raw)
<1>1. raw.status = "ok"
  <2> SUFFICES ASSUME raw.status # "ok" PROVE FALSE
    OBVIOUS
  <2>1. Normalize(raw).status \in {"error", raw.status}
    BY DEF Normalize, Error
  <2> QED BY <2>1
<1>2. can = [tool |-> raw.tool, status |-> "ok", code |-> raw.code,
             rows |-> [k \in DOMAIN raw.rows |-> Labelled(raw.rows[k], raw.tool)],
             said |-> raw.said, from |-> raw.from]
  BY <1>1 DEF Canonical, IsResponse
<1>3. page.parts \in Seq(PartTexts) /\ DOMAIN raw.rows = DOMAIN page.parts
  BY DEF PageRows, PageRecords
<1>4. \A row : Labelled(row, raw.tool) = row
  BY DEF Labelled, Structured
<1>5. Normalize(raw).evidence = Evidence(can)
  BY <1>1 DEF Normalize, Error
<1> HIDE DEF can
<1>6. Evidence(can) = [k \in DOMAIN can.rows |->
          [source |-> can.rows[k].source, text |-> can.rows[k].text,
           priority |-> 1, rank |-> k, from |-> can.from]]
  BY <1>2 DEF Evidence, GroundedTools, ToolNames
<1>7. DOMAIN can.rows = DOMAIN page.parts /\ \A k \in DOMAIN page.parts : can.rows[k] = raw.rows[k]
  BY <1>2, <1>3, <1>4
<1>8. \A k \in DOMAIN page.parts : raw.rows[k].text = page.parts[k].text
  BY DEF PageRows, ChunkRow, Row
<1>9. \A k \in DOMAIN page.parts : k \in DOMAIN Evidence(can) /\ Evidence(can)[k].text = page.parts[k].text
  BY <1>6, <1>7, <1>8
<1> QED BY <1>5, <1>9 DEF FoundPage

LEMMA LeaveKeepsSection ==
  ASSUME PathInv, SectionInv, Leave, UNCHANGED <<worldVars, evidence, pages>>
  PROVE  SectionInv'
<1>1. /\ stage = "leave" /\ call \in Calls /\ files' = files /\ stored' = stored
      /\ call' = call /\ answer' = answer /\ IsResponse(answer)
      /\ answer.status = "ok" => Sound(answer, Asked)
  BY DEF Leave, PathInv, AnswerInv, worldVars
<1>2. CASE ~Intact
  <2>1. Finish(Error("lineage_changed")) /\ files' = files
    BY <1>1, <1>2 DEF Leave
  <2> QED BY <2>1, NothingFound
<1>3. CASE Intact /\ naming /\ answer.status = "ok"
  <2>1. stage' = "enter" /\ files' = files
    BY <1>1, <1>3 DEF Leave
  <2> QED BY <2>1, NothingFound
<1>4. CASE Intact /\ ~(naming /\ answer.status = "ok")
  <2> DEFINE raw == [answer EXCEPT !.tool = call.tool]
             page == Page(call.partFrom)
  <2>1. stage' = "done" /\ result' = Normalize(raw)
    BY <1>4 DEF Leave, Finish
  <2>2. IsResponse(raw) /\ raw.status = answer.status /\ raw.rows = answer.rows /\ raw.tool = call.tool
    BY <1>1 DEF IsResponse
  <2>3. ASSUME Normalize(raw).status = "ok", call.tool = "read_section"
        PROVE  FoundPage(page, Normalize(raw).evidence)
    <3> HIDE DEF raw
    <3>1. answer.status = "ok"
      <4>1. Normalize(raw).status \in {"error", raw.status}
        BY DEF Normalize, Error
      <4> QED BY <2>2, <2>3, <4>1
    <3>2. Asked = call
      BY <1>4, <3>1 DEF Asked
    <3>3. raw.rows = PageRows(page)
      BY <1>1, <2>2, <2>3, <3>1, <3>2 DEF SectionInv
    <3>4. page \in PageRecords
      BY <1>1, CallsAssumption, PageTyped DEF PathInv
    <3> QED BY <2>2, <2>3, <3>3, <3>4, PageNormalized
  <2> HIDE DEF raw, page
  <2>4. Page(call.partFrom)' = page
    BY <1>1 DEF Page, page
  <2>5. FoundPage(Page(call.partFrom), result.evidence)' <=> FoundPage(page, Normalize(raw).evidence)
    BY <2>1, <2>4 DEF FoundPage
  <2> QED BY <1>1, <2>1, <2>3, <2>5, SameHeld DEF SectionInv
<1> QED BY <1>2, <1>3, <1>4

LEMMA StillFound ==
  ASSUME SectionInv, UNCHANGED <<files, stored, call, naming, stage, answer, result>>
  PROVE  /\ (stage = "leave" /\ answer.status = "ok" /\ Asked.tool = "read_section" =>
              answer.rows = PageRows(Page(call.partFrom)))'
         /\ (stage = "done" /\ result.status = "ok" /\ call.tool = "read_section" =>
              FoundPage(Page(call.partFrom), result.evidence))'
<1>1. Asked' = Asked
  BY DEF Asked
<1>2. Page(call.partFrom)' = Page(call.partFrom)
  BY DEF Page
<1>3. (answer.rows = PageRows(Page(call.partFrom)))' <=> answer.rows = PageRows(Page(call.partFrom))
  BY <1>2 DEF PageRows, ChunkRow, Row
<1>4. FoundPage(Page(call.partFrom), result.evidence)' <=> FoundPage(Page(call.partFrom), result.evidence)
  BY <1>2 DEF FoundPage
<1> QED BY <1>1, <1>3, <1>4 DEF SectionInv

LEMMA CollectKeepsSection ==
  ASSUME PathInv, SectionInv, Collect
  PROVE  SectionInv'
<1>1. /\ stage = "done" /\ stage' = "idle" /\ evidence' = evidence \o result.evidence
      /\ files' = files /\ stored' = stored
  BY DEF Collect, worldVars
<1>2. evidence \in Seq(ItemsOf(lineage)) /\ result.evidence \in Seq(ItemsOf(lineage))
  BY <1>1 DEF PathInv, EvidenceInv
<1> DEFINE found == result.evidence  more == evidence \o found
<1>3. /\ \A i \in DOMAIN evidence : i \in DOMAIN more /\ more[i] = evidence[i]
      /\ \A i \in DOMAIN found : Len(evidence) + i \in DOMAIN more /\ more[Len(evidence) + i] = found[i]
  BY <1>2, AllOfBoth
<1> HIDE DEF found, more
<1>4. evidence' = more
  BY <1>1 DEF more, found
<1>5. Held' = UNION {Origins(more[i].text) : i \in DOMAIN more} /\ Held = UNION {Origins(evidence[i].text) : i \in DOMAIN evidence}
  BY <1>4 DEF Held, AllOrigins
<1>6. Held \subseteq Held'
  BY <1>3, <1>5
<1>7. \A i \in DOMAIN found : Origins(found[i].text) \subseteq Held'
  BY <1>3, <1>5
<1>8. Len(files) = 1 => \A p \in pages : HeldPage(p[2])'
  BY <1>6 DEF SectionInv, HeldPage
<1>9. CASE pages' = pages
  BY <1>1, <1>8, <1>9 DEF SectionInv
<1>10. CASE result.status = "ok" /\ call.tool = "read_section"
  <2>0. PICK page : page = Page(call.partFrom)
    OBVIOUS
  <2>1. FoundPage(page, found)
    BY <1>1, <1>10, <2>0 DEF SectionInv, found
  <2>2. HeldPage(page)'
    BY <1>7, <2>1 DEF FoundPage, HeldPage
  <2>3. pages' = pages \cup {<<call.partFrom, page>>}
    BY <1>10, <2>0 DEF Collect
  <2>4. IsFiniteSet(pages')
    BY <2>3, FS_AddElement DEF SectionInv
  <2>5. Len(files) = 1 => \A p \in pages' : HeldPage(p[2])'
    <3> SUFFICES ASSUME Len(files) = 1, NEW p \in pages' PROVE HeldPage(p[2])'
      OBVIOUS
    <3>1. CASE p \in pages
      BY <1>8, <3>1
    <3>2. CASE p \notin pages
      <4>1. p[2] = page
        BY <2>3, <3>2
      <4> QED BY <2>2, <4>1 DEF HeldPage
    <3> QED BY <3>1, <3>2
  <2> QED BY <1>1, <2>4, <2>5 DEF SectionInv
<1> QED BY <1>9, <1>10 DEF Collect

LEMMA JoinKeepsSection ==
  ASSUME PathInv, SectionInv, Join
  PROVE  SectionInv'
<1> DEFINE from == UNION {evidence[i].from : i \in PartsHeld}
           Whole(k) == [source |-> JoinedPages[k].source, text |-> JoinedPages[k].text,
                        priority |-> 1, rank |-> k, from |-> from]
           whole == [k \in DOMAIN JoinedPages |-> Whole(k)]
           c == Len(JoinedPages)
           other == OtherEvidence
           more == whole \o other
<1>1. /\ UNCHANGED worldVars /\ UNCHANGED registryVars /\ pages' = pages /\ JoinedPages # <<>>
      /\ evidence' = more
  BY DEF Join
<1>2. UNCHANGED <<files, stored, call, naming, stage, answer, result>>
  BY <1>1 DEF worldVars, registryVars
<1>3. evidence \in Seq(ItemsOf(lineage)) /\ WorldInv /\ PagesWereRead
  BY DEF PathInv, EvidenceInv
<1>4. c \in Nat /\ DOMAIN JoinedPages = 1..c
  BY <1>3, JoinedTyped
<1> HIDE DEF c, from
<1>5. \A k \in 1..c : k \in DOMAIN more /\ more[k].text = JoinedPages[k].text
  <2>1. other \in Seq(ItemsOf(lineage))
    BY <1>3, OtherTyped
  <2>2. whole = [k \in 1..c |-> Whole(k)]
    BY <1>4
  <2>3. \A k \in 1..c : Whole(k).text = JoinedPages[k].text
    OBVIOUS
  <2> DEFINE S == {Whole(k) : k \in 1..c} \cup ItemsOf(lineage)
  <2>4. other \in Seq(S)
    <3>1. ItemsOf(lineage) \subseteq S
      OBVIOUS
    <3> HIDE DEF S, other
    <3> QED BY <2>1, <3>1
  <2>5. \A k \in 1..c : Whole(k) \in S
    OBVIOUS
  <2> HIDE DEF S, other, Whole, whole
  <2>6. whole \in Seq(S) /\ DOMAIN whole = 1..c
    BY <1>4, <2>2, <2>5
  <2>7. \A k \in 1..c : k \in DOMAIN (whole \o other) /\ (whole \o other)[k] = whole[k]
    <3>1. whole \in Seq(S)
      BY <2>6
    <3>2. \A i \in DOMAIN whole : i \in DOMAIN (whole \o other) /\ (whole \o other)[i] = whole[i]
      BY ONLY <2>4, <3>1, AllOfBoth
    <3> QED BY <2>6, <3>2
  <2> QED BY <2>2, <2>3, <2>7
<1> HIDE DEF more, whole, Whole, other
<1>6. Held' = UNION {Origins(more[i].text) : i \in DOMAIN more}
  BY <1>1 DEF Held, AllOrigins
<1>7. ASSUME Len(files) = 1, NEW p \in pages PROVE HeldPage(p[2])'
  <2>1. \A j \in 1..Len(stored) : \E k \in 1..c : JoinedPages[k].text = stored[j].text
    BY <1>1, <1>3, <1>4, <1>7, JoinedWhole
  <2>2. ASSUME NEW j \in 1..Len(stored) PROVE Origins(stored[j].text) \subseteq Held'
    <3>1. PICK k \in 1..c : JoinedPages[k].text = stored[j].text
      BY <2>1
    <3>2. k \in DOMAIN more /\ more[k].text = stored[j].text
      BY <1>5, <3>1
    <3> QED BY <1>6, <3>2
  <2>3. p[1] \in Nat \ {0} /\ p[2] = Page(p[1])
    BY <1>3 DEF PagesWereRead
  <2>4. PageGood(p[2], stored, p[1]) /\ p[2] \in PageRecords
    BY <1>3, <2>3, PagesHold, PageTyped
  <2>5. DOMAIN p[2].parts = 1..Len(p[2].parts)
    BY <2>4 DEF PageRecords
  <2>6. \A i \in DOMAIN p[2].parts :
          /\ p[2].parts[i].source \in 1..Len(stored)
          /\ Origins(p[2].parts[i].text) \subseteq Origins(stored[p[2].parts[i].source].text)
    BY <2>4, <2>5 DEF PageGood, PartsOfRows, PartOfRow
  <2> QED BY <2>2, <2>6 DEF HeldPage
<1> QED BY <1>1, <1>2, <1>7, StillFound DEF SectionInv

LEMMA SectionInvStep == PathInv /\ SectionInv /\ [Next]_vars => SectionInv'
<1> SUFFICES ASSUME PathInv, SectionInv, [Next]_vars PROVE SectionInv'
  OBVIOUS
<1>1. CASE Ask
  <2>1. UNCHANGED <<files, evidence, pages>> /\ (stage' \notin {"leave", "done"} \/ \E code : Finish(Error(code)))
    BY <1>1 DEF Ask, Dispatch, worldVars
  <2> QED BY <2>1, NothingFound
<1>2. CASE Step
  <2>1. UNCHANGED <<worldVars, evidence, pages>> /\ files' = files
    BY <1>2 DEF Step, worldVars
  <2>2. CASE Enter
    <3>1. stage' \notin {"leave", "done"} \/ \E code : Finish(Error(code))
      BY <2>2 DEF Enter
    <3> QED BY <2>1, <3>1, NothingFound
  <2>3. CASE Execute
    BY <2>1, <2>3, ExecuteKeepsSection
  <2>4. CASE ExecuteFails
    <3>1. \E code : Finish(Error(code))
      BY <2>4 DEF ExecuteFails
    <3> QED BY <2>1, <3>1, NothingFound
  <2>5. CASE Leave
    BY <2>1, <2>5, LeaveKeepsSection
  <2>6. CASE \E path \in BoundPaths, release \in Releases : Rebind(path, release)
    <3>1. UNCHANGED <<files, stored, call, naming, stage, answer, result>>
      BY <2>1, <2>6 DEF Rebind, worldVars
    <3> QED BY <2>1, <3>1, StillFound, SameHeld DEF SectionInv
  <2> QED BY <1>2, <2>2, <2>3, <2>4, <2>5, <2>6 DEF Step
<1>3. CASE Collect
  BY <1>3, CollectKeepsSection
<1>4. CASE Join
  BY <1>4, JoinKeepsSection
<1>5. CASE Pack \/ UNCHANGED vars
  <2>1. UNCHANGED <<files, stored, call, naming, stage, answer, result>> /\ UNCHANGED <<evidence, pages>>
    BY <1>5 DEF Pack, vars, worldVars, registryVars
  <2> QED BY <2>1, StillFound, SameHeld DEF SectionInv
<1> QED BY <1>1, <1>2, <1>3, <1>4, <1>5 DEF Next

(* What is reached is found page after page. *)
LEMMA ReachedSteps ==
  ASSUME NEW c \in Nat, Cardinality(pages) = c
  PROVE  \E f : f[0] = {1} /\ (\A n \in 1..c : f[n] = Beyond(f[n-1])) /\ Reached = f[c]
<1> DEFINE Upto(m, f) == f = [n \in 0..m |-> IF n = 0 THEN {1} ELSE Beyond(f[n-1])]
           T == {m \in Nat : \E f : Upto(m, f)}
           R == CHOOSE f : f = [n \in 0..c |-> IF n = 0 THEN {1} ELSE Beyond(f[n-1])]
<1>0. Reached = R[c]
  BY DEF Reached, Beyond
<1>1. 0 \in T
  <2>1. Upto(0, [n \in 0..0 |-> {1}])
    OBVIOUS
  <2> HIDE DEF Upto
  <2> QED BY <2>1
<1>2. ASSUME NEW m \in Nat, m \in T PROVE m + 1 \in T
  <2>1. PICK f : Upto(m, f)
    BY <1>2
  <2> DEFINE g == [n \in 0..(m+1) |-> IF n = m + 1 THEN Beyond(f[m]) ELSE f[n]]
  <2>2. ASSUME NEW n \in 0..(m+1) PROVE g[n] = IF n = 0 THEN {1} ELSE Beyond(g[n-1])
    <3>1. CASE n = m + 1
      <4>1. n # 0 /\ n - 1 = m /\ m \in 0..(m+1) /\ m # m + 1
        BY <3>1
      <4>2. g[m] = f[m] /\ g[n] = Beyond(f[m])
        BY <3>1, <4>1
      <4> HIDE DEF g
      <4> QED BY <4>1, <4>2
    <3>2. CASE n # m + 1
      <4>1. n \in 0..m /\ g[n] = f[n]
        BY <3>2
      <4>2. f[n] = IF n = 0 THEN {1} ELSE Beyond(f[n-1])
        BY <2>1, <4>1
      <4>3. n # 0 => g[n-1] = f[n-1]
        <5>1. n # 0 => n - 1 \in 0..(m+1) /\ n - 1 # m + 1
          BY <4>1
        <5> QED BY <5>1
      <4> HIDE DEF g
      <4> QED BY <4>1, <4>2, <4>3
    <3> QED BY <3>1, <3>2
  <2>3. g = [n \in 0..(m+1) |-> g[n]]
    OBVIOUS
  <2>4. Upto(m + 1, g)
    <3> HIDE DEF g
    <3> QED BY <2>2, <2>3
  <2> HIDE DEF g, Upto
  <2> QED BY <2>4
<1>3. \A m \in Nat : m \in T
  <2> HIDE DEF T
  <2> QED BY <1>1, <1>2, SetInduction
<1>4. \E f : Upto(c, f)
  <2> HIDE DEF Upto
  <2> QED BY <1>3
<1>5. R = [n \in 0..c |-> IF n = 0 THEN {1} ELSE Beyond(R[n-1])]
  BY <1>4
<1> HIDE DEF R
<1>6. R[0] = {1} /\ \A n \in 1..c : R[n] = Beyond(R[n-1])
  <2>1. 0 \in 0..c /\ \A n \in 1..c : n \in 0..c /\ n # 0
    OBVIOUS
  <2> QED BY <1>5, <2>1
<1> QED BY <1>0, <1>6

LEMMA PageCovers ==
  ASSUME PathInv, SectionInv, Len(files) = 1, NEW p \in pages, Covered(p[1])
  PROVE  Covered(p[2].nextPart)
<1> DEFINE from == p[1]  page == p[2]
<1>1. WorldInv /\ from \in Nat \ {0} /\ page = Page(from)
  BY DEF PathInv, EvidenceInv, PagesWereRead
<1>2. PageGood(page, stored, from) /\ stored \in Seq(RowTexts) /\ page \in PageRecords
  BY <1>1, PagesHold, PageTyped
<1>3. DOMAIN stored = 1..Len(stored) /\ DOMAIN page.parts = 1..Len(page.parts) /\ page.nextPart \in Nat
  BY <1>2 DEF PageRecords
<1>4. HeldPage(page)
  BY DEF SectionInv
<1>5. Covered(from)
  OBVIOUS
<1>6. \A i, j \in 1..Len(stored) : i <= j => stored[i].part <= stored[j].part
  BY <1>1, StoredSorted
<1> SUFFICES ASSUME NEW k \in DOMAIN stored, stored[k].part < page.nextPart \/ page.nextPart = 0
             PROVE  Origins(stored[k].text) \subseteq Held
  BY DEF Covered
<1> HIDE DEF from, page
<1>7. stored[k].part \in Nat /\ Len(stored) \in Nat /\ k \in 1..Len(stored)
  BY <1>2, <1>3, RowParts
<1>8. CASE stored[k].part < from
  BY <1>5, <1>8 DEF Covered
<1>9. CASE ~(stored[k].part < from)
  <2>1. stored[k].part >= from
    BY <1>1, <1>7, <1>9
  <2>2. HasWhole(page, stored, k)
    <3>1. CASE page.nextPart = 0
      BY <1>2, <1>7, <2>1, <3>1 DEF PageGood
    <3>2. CASE page.nextPart # 0
      <4>1. PICK m \in 1..Len(stored) :
              /\ page.nextPart = stored[m].part
              /\ \A j \in 1..Len(stored) : stored[j].part >= from /\ j < m => HasWhole(page, stored, j)
        BY <1>2, <3>2 DEF PageGood
      <4>2. ~(m <= k)
        BY <1>3, <1>6, <1>7, <3>2, <4>1
      <4>3. k < m
        BY <1>7, <4>2
      <4> QED BY <1>7, <2>1, <4>1, <4>3
    <3> QED BY <3>1, <3>2
  <2> QED BY <1>3, <1>4, <2>2 DEF HasWhole, HeldPage
<1> QED BY <1>8, <1>9

(* A section of one file that was read to its end is held, every line of every *)
(* block of every occurrence of its path.                                      *)
LEMMA SectionHeld ==
  ASSUME PathInv, SectionInv, Len(files) = 1, 0 \in Reached, NEW block \in BlocksRead
  PROVE  Origins(block) \subseteq Held
<1> DEFINE c == Cardinality(pages)
<1>1. c \in Nat
  BY FS_CardinalityType DEF SectionInv
<1> HIDE DEF c
<1>2. PICK f : f[0] = {1} /\ (\A n \in 1..c : f[n] = Beyond(f[n-1])) /\ Reached = f[c]
  BY <1>1, ReachedSteps DEF c
<1>3. /\ WorldInv /\ files \in Seq(Seq(Seq(Blocks))) /\ stored \in Seq(RowTexts)
      /\ files[1] \in Seq(Seq(Blocks)) /\ stored = InFile(files[1])
  BY RowsHold DEF PathInv, WorldInv
<1>4. \A k \in DOMAIN stored : stored[k].part \in Nat \ {0}
  BY <1>3, RowParts
<1> DEFINE T == {n \in Nat : n <= c => \A r \in f[n] : Covered(r)}
<1>5. 0 \in T
  <2>1. \A k \in DOMAIN stored : ~(stored[k].part < 1)
    BY <1>4
  <2>2. Covered(1)
    BY <2>1 DEF Covered
  <2> QED BY <1>2, <2>2
<1>6. ASSUME NEW n \in Nat, n \in T PROVE n + 1 \in T
  <2> SUFFICES ASSUME n + 1 <= c, NEW r \in f[n + 1] PROVE Covered(r)
    OBVIOUS
  <2>1. n + 1 \in 1..c /\ (n + 1) - 1 = n /\ n <= c
    BY <1>1
  <2>2. r \in Beyond(f[n])
    BY <1>2, <2>1
  <2>3. \A q \in f[n] : Covered(q)
    BY <1>6, <2>1
  <2>4. CASE r \in f[n]
    BY <2>3, <2>4
  <2>5. CASE r \notin f[n]
    <3>1. PICK p \in pages : p[1] \in f[n] /\ r = p[2].nextPart
      BY <2>2, <2>5 DEF Beyond
    <3> QED BY <2>3, <3>1, PageCovers
  <2> QED BY <2>4, <2>5
<1>7. \A n \in Nat : n \in T
  <2> HIDE DEF T
  <2> QED BY <1>5, <1>6, SetInduction
<1>8. Covered(0)
  <2>1. c \in T /\ c <= c
    BY <1>1, <1>7
  <2> QED BY <1>2, <2>1
<1>9. PICK o \in DOMAIN files[1] : block \in ToSet(files[1][o])
  <2>1. \A g \in DOMAIN files : g = 1
    BY <1>3
  <2> QED BY <2>1 DEF BlocksRead
<1>10. files[1][o] \in Seq(Blocks)
  BY <1>3
<1> DEFINE chunks == Chunks(files[1][o])
<1>11. AllOrigins(files[1][o]) \subseteq AllOrigins(chunks) /\ chunks \in Grouped
  BY <1>10, ChunksOrigins, ChunksGrouped
<1>12. Origins(block) \subseteq AllOrigins(files[1][o])
  BY <1>9, <1>10 DEF AllOrigins, ToSet
<1>13. ASSUME NEW p \in DOMAIN chunks PROVE Origins(chunks[p]) \subseteq Held
  <2>1. p \in 1..Len(chunks)
    BY <1>11 DEF Grouped
  <2>2. PICK k \in 1..Len(InFile(files[1])) : InFile(files[1])[k].text = chunks[p]
    BY <1>3, <2>1, InFileHolds
  <2>3. k \in DOMAIN stored /\ stored[k].text = chunks[p]
    BY <1>3, <2>2
  <2> QED BY <1>8, <2>3 DEF Covered
<1> HIDE DEF chunks
<1>14. AllOrigins(chunks) \subseteq Held
  BY <1>13 DEF AllOrigins
<1> QED BY <1>11, <1>12, <1>14

(* What is shown whole shows all that it holds.                                *)
LEMMA ShownWhole ==
  ASSUME NEW S, evidence \in Seq(ItemsOf(S)),
         \A i \in DOMAIN evidence : Characters(evidence[i].text, DOMAIN evidence[i].text) \subseteq ShownOf(i)
  PROVE  Held \subseteq OriginsShown
<1> SUFFICES ASSUME NEW i \in DOMAIN evidence, NEW o \in Origins(evidence[i].text)
             PROVE  o \in OriginsShown
  BY DEF Held, AllOrigins
<1> DEFINE t == evidence[i].text
<1>1. t \in Texts
  <2>1. evidence[i] \in ItemsOf(S)
    OBVIOUS
  <2> QED BY <2>1 DEF ItemsOf
<1>2. PICK k \in DOMAIN t : o \in Origin(t[k])
  BY DEF Origins
<1>3. PICK j \in 0..(t[k].size - 1) : o = <<t[k].id, t[k].from + j>>
  BY <1>2 DEF Origin
<1>4. Characters(t, DOMAIN t) \subseteq ShownOf(i)
  OBVIOUS
<1> HIDE DEF t
<1>5. k \in 1..Len(t)
  BY <1>1 DEF Texts
<1>6. LineStart(t, k) \in Nat /\ t[k].size \in Nat /\ t[k].from \in Nat /\ LineEnd(t, k) = LineStart(t, k) + t[k].size
  BY <1>1, <1>5, StartOfLine, LineTyped
<1> DEFINE x == LineStart(t, k) + j
<1>7. x \in LineStart(t, k)..(LineEnd(t, k) - 1) /\ t[k].from + x - LineStart(t, k) = t[k].from + j
  BY <1>6
<1> HIDE DEF x
<1>8. x \in Characters(t, DOMAIN t)
  BY <1>7 DEF Characters
<1>9. x \in ShownOf(i) \cap (LineStart(t, k)..(LineEnd(t, k) - 1))
  BY <1>4, <1>7, <1>8
<1>10. o = <<t[k].id, t[k].from + x - LineStart(t, k)>>
  BY <1>3, <1>7
<1> DEFINE Shows(u, v, m) == {<<u[m].id, u[m].from + y - LineStart(u, m)>> :
                                y \in ShownOf(v) \cap (LineStart(u, m)..(LineEnd(u, m) - 1))}
<1>11. o \in Shows(t, i, k)
  BY <1>9, <1>10
<1>12. OriginsShown = UNION {UNION {Shows(evidence[v].text, v, m) : m \in DOMAIN evidence[v].text} : v \in DOMAIN evidence}
  BY DEF OriginsShown
<1> HIDE DEF Shows
<1> QED BY <1>11, <1>12 DEF t

(* A section that was read page by page to its end is in the context, every    *)
(* line of every block of every occurrence of its path in a file, whatever its *)
(* blocks and wherever the pages were cut, unless the context says that it     *)
(* left something out (periodic.py:230, filings.py:93,                         *)
(* open_profile_route.py:209, packer.py:289).                                  *)
THEOREM SectionsArriveWhole == Spec => []SectionArrives
<1>1. Spec => [](PathInv /\ PackInv /\ SectionInv)
  <2>1. Init => PathInv /\ PackInv /\ SectionInv
    BY PathInvInit, PackInvInit, SectionInvInit
  <2>2. PathInv /\ PackInv /\ SectionInv /\ [Next]_vars => (PathInv /\ PackInv /\ SectionInv)'
    BY PathInvStep, PackInvStep, SectionInvStep
  <2> QED BY <2>1, <2>2, PTL DEF Spec
<1>2. PathInv /\ PackInv /\ SectionInv => SectionArrives
  <2> SUFFICES ASSUME PathInv, PackInv, SectionInv, pack # NoPack, ~pack.context.truncated, 0 \in Reached,
                      Len(files) = 1, NEW block \in BlocksRead
               PROVE  Origins(block) \subseteq OriginsShown
    BY DEF SectionArrives
  <2>1. \A i \in DOMAIN evidence :
          Characters(evidence[i].text, DOMAIN evidence[i].text) \subseteq ShownOf(i)
    BY PackedIs
  <2>2. evidence \in Seq(ItemsOf(lineage))
    BY DEF PathInv, EvidenceInv
  <2>3. Held \subseteq OriginsShown
    BY <2>1, <2>2, ShownWhole
  <2>4. Origins(block) \subseteq Held
    BY SectionHeld
  <2> QED BY <2>3, <2>4
<1> QED BY <1>1, <1>2, PTL
===============================================================================
