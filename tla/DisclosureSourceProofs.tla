------------------------ MODULE DisclosureSourceProofs ------------------------
(* What is proved of DisclosureSource.                                         *)
EXTENDS DisclosureSource, FiniteSetTheorems, TLAPS

(* Induction over the naturals, stated of a set.                               *)
LEMMA SetInduction ==
  ASSUME NEW T, 0 \in T, \A n \in Nat : n \in T => n + 1 \in T
  PROVE  \A n \in Nat : n \in T
<1> SUFFICES ASSUME NEW m \in Nat, m \notin T
             PROVE  FALSE
  OBVIOUS
<1> DEFINE Out == {n \in Nat : n \notin T}
           Spans == {0..n : n \in Out}
<1>1. Spans \subseteq FiniteSubsetsOf(Nat) /\ Spans # {}
  <2>1. ASSUME NEW n \in Nat
        PROVE  IsFiniteSet(0..n) /\ 0..n \subseteq Nat
    BY FS_Interval
  <2> QED BY <2>1 DEF FiniteSubsetsOf
<1>2. PICK low \in Spans : \A s \in Spans : <<s, low>> \notin StrictSubsetOrdering(Nat)
  <2> HIDE DEF Spans
  <2> QED BY <1>1, FS_StrictSubsetOrderingWellFounded, WFMin
<1>3. PICK n \in Out : low = 0..n
  OBVIOUS
<1>4. n \in Nat /\ n # 0 /\ n - 1 \in Nat /\ n = (n - 1) + 1
  OBVIOUS
<1>5. n - 1 \in Out
  BY <1>4
<1>6. 0..(n-1) \in Spans
  BY <1>5
<1>7. 0..(n-1) \subseteq 0..n /\ 0..(n-1) # 0..n /\ 0..(n-1) \in SUBSET Nat /\ 0..n \in SUBSET Nat
  BY <1>4
<1>8. <<0..(n-1), 0..n>> \in StrictSubsetOrdering(Nat)
  BY <1>7 DEF StrictSubsetOrdering
<1> QED BY <1>2, <1>3, <1>6, <1>8

(* Numbers up to a bound have a greatest one, and Max is it.                   *)
LEMMA GreatestOne ==
  ASSUME NEW n \in Nat, NEW S \in SUBSET (0..n), S # {}
  PROVE  /\ Max(S) \in S
         /\ \A x \in S : x <= Max(S)
         /\ \A y \in S : (\A x \in S : x <= y) => Max(S) = y
<1> DEFINE T == {m \in Nat : \A Q \in SUBSET (0..m) : Q # {} => \E y \in Q : \A x \in Q : x <= y}
<1>1. 0 \in T
  <2>1. ASSUME NEW Q \in SUBSET (0..0), Q # {}
        PROVE  \E y \in Q : \A x \in Q : x <= y
    <3>1. \A x \in Q : x = 0
      OBVIOUS
    <3>2. 0 \in Q
      BY <2>1, <3>1
    <3> QED BY <3>1, <3>2
  <2> QED BY <2>1
<1>2. ASSUME NEW m \in Nat, m \in T
      PROVE  m + 1 \in T
  <2>1. ASSUME NEW Q \in SUBSET (0..(m+1)), Q # {}
        PROVE  \E y \in Q : \A x \in Q : x <= y
    <3>1. CASE m + 1 \in Q
      BY <3>1
    <3>2. CASE m + 1 \notin Q
      <4>1. Q \in SUBSET (0..m)
        BY <3>2
      <4> QED BY <1>2, <2>1, <4>1
    <3> QED BY <3>1, <3>2
  <2> QED BY <2>1
<1>3. n \in T
  <2> HIDE DEF T
  <2> QED BY <1>1, <1>2, SetInduction
<1>4. \E y \in S : \A x \in S : x <= y
  BY <1>3
<1>5. \E y \in S : \A x \in S : y >= x
  BY <1>4
<1>6. Max(S) \in S /\ \A x \in S : Max(S) >= x
  BY <1>5 DEF Max
<1>7. \A x \in S : x \in Nat
  OBVIOUS
<1>8. \A x \in S : x <= Max(S)
  BY <1>6, <1>7
<1>9. ASSUME NEW y \in S, \A x \in S : x <= y
      PROVE  Max(S) = y
  <2>1. Max(S) \in Nat /\ y \in Nat
    BY <1>6, <1>7
  <2>2. Max(S) <= y
    BY <1>6, <1>9
  <2>3. y <= Max(S)
    BY <1>8
  <2> QED BY <2>1, <2>2, <2>3
<1> QED BY <1>6, <1>8, <1>9

-------------------------------------------------------------------------------
(* The loop over the corrections of a report.                                  *)

LEMMA LineageTurns ==
  ASSUME NEW rows, NEW known, NEW marks, NEW reports
  PROVE  \E after :
           /\ after[0] = ResetRows(rows, known, marks, reports)
           /\ \A f \in Filings : after[f] = Turn(f, after[f - 1], known, marks, reports)
           /\ Lineage(rows, known, marks, reports) = after[NumFilings]
<1> DEFINE Upto(n, a) ==
             a = [f \in 0..n |-> IF f = 0 THEN ResetRows(rows, known, marks, reports)
                                 ELSE Turn(f, a[f - 1], known, marks, reports)]
           T == {n \in Nat : \E a : Upto(n, a)}
<1>1. 0 \in T
  <2>1. Upto(0, [f \in 0..0 |-> ResetRows(rows, known, marks, reports)])
    OBVIOUS
  <2> QED BY <2>1
<1>2. ASSUME NEW n \in Nat, n \in T
      PROVE  n + 1 \in T
  <2>1. PICK a : Upto(n, a)
    BY <1>2
  <2> DEFINE b == [f \in 0..(n + 1) |-> IF f = n + 1 THEN Turn(f, a[n], known, marks, reports) ELSE a[f]]
  <2>2. Upto(n + 1, b)
    <3>1. ASSUME NEW f \in 0..(n + 1)
          PROVE  b[f] = IF f = 0 THEN ResetRows(rows, known, marks, reports)
                        ELSE Turn(f, b[f - 1], known, marks, reports)
      <4>1. CASE f = n + 1
        <5>1. f - 1 = n /\ n \in 0..(n + 1) /\ n # n + 1 /\ f # 0
          BY <4>1
        <5>2. b[f - 1] = a[n]
          BY <5>1
        <5> QED BY <4>1, <5>1, <5>2
      <4>2. CASE f # n + 1
        <5>1. f \in 0..n /\ b[f] = a[f]
          BY <4>2
        <5>2. CASE f = 0
          BY <2>1, <5>1, <5>2
        <5>3. CASE f # 0
          <6>1. f - 1 \in 0..(n + 1) /\ f - 1 # n + 1
            BY <5>1, <5>3
          <6>2. b[f - 1] = a[f - 1]
            BY <6>1
          <6> QED BY <2>1, <5>1, <5>3, <6>2
        <5> QED BY <5>2, <5>3
      <4> QED BY <4>1, <4>2
    <3>2. b = [f \in 0..(n + 1) |-> b[f]]
      OBVIOUS
    <3> HIDE DEF b
    <3> QED BY <3>1, <3>2
  <2> HIDE DEF b
  <2>3. \E c : Upto(n + 1, c)
    BY <2>2
  <2> QED BY <2>3
<1>3. NumFilings \in T
  <2> HIDE DEF T
  <2> QED BY <1>1, <1>2, SetInduction, SourceAssumption
<1> DEFINE after == CHOOSE a : Upto(NumFilings, a)
<1>4. Upto(NumFilings, after)
  BY <1>3
<1>5. Lineage(rows, known, marks, reports) = after[NumFilings]
  BY DEF Lineage
<1> HIDE DEF after
<1>6. after[0] = ResetRows(rows, known, marks, reports)
  BY <1>4, SourceAssumption
<1>7. \A f \in Filings : after[f] = Turn(f, after[f - 1], known, marks, reports)
  BY <1>4, SourceAssumption DEF Filings
<1> QED BY <1>5, <1>6, <1>7

-------------------------------------------------------------------------------
(* The roots of the chains.                                                    *)

Pred(f, known, marks) == Max(Predecessors(f, known, marks))

LEMMA PredecessorFacts ==
  ASSUME NEW known \in SUBSET Filings, NEW marks, NEW f \in Filings, Links(f, known, marks)
  PROVE  /\ Pred(f, known, marks) \in Predecessors(f, known, marks)
         /\ Pred(f, known, marks) \in known
         /\ Pred(f, known, marks) \in Filings
         /\ Report[Pred(f, known, marks)] = Report[f]
         /\ Pred(f, known, marks) < f
         /\ marks[Pred(f, known, marks)] = "corrected"
<1> DEFINE P == Predecessors(f, known, marks)
<1>1. P # {} /\ \A p \in P : p \in known /\ p < f /\ marks[p] = "corrected" /\ Report[p] = Report[f]
  BY DEF Links, Predecessors, SameReport
<1>2. P \in SUBSET (0..NumFilings)
  <2>1. \A p \in Filings : p \in 0..NumFilings
    BY SourceAssumption DEF Filings
  <2>2. \A p \in P : p \in Filings
    BY <1>1
  <2> HIDE DEF P
  <2> QED BY <2>1, <2>2
<1>3. Max(P) \in P
  <2> HIDE DEF P
  <2> QED BY <1>1, <1>2, GreatestOne, SourceAssumption
<1> QED BY <1>1, <1>3 DEF Pred

(* The chain a filing is in, as the recursion defines it.                      *)
LEMMA RootOfTurns ==
  ASSUME NEW known \in SUBSET Filings, NEW marks
  PROVE  \A f \in Filings :
           RootOf(known, marks)[f] =
             IF Links(f, known, marks) THEN RootOf(known, marks)[Pred(f, known, marks)] ELSE f
<1> DEFINE Lk(f) == Links(f, known, marks)
           Pr(f) == Pred(f, known, marks)
           Upto(n, a) == a = [f \in 1..n |-> IF Lk(f) THEN a[Pr(f)] ELSE f]
           T == {n \in Nat : n <= NumFilings => \E a : Upto(n, a)}
<1>0. \A f \in Filings : Lk(f) => Pr(f) \in Filings /\ Pr(f) < f
  BY PredecessorFacts
<1> HIDE DEF Lk, Pr
<1>1. 0 \in T
  <2>1. Upto(0, [f \in 1..0 |-> f])
    OBVIOUS
  <2> HIDE DEF Upto
  <2> QED BY <2>1
<1>2. ASSUME NEW n \in Nat, n \in T
      PROVE  n + 1 \in T
  <2> SUFFICES ASSUME n + 1 <= NumFilings
               PROVE  \E a : Upto(n + 1, a)
    OBVIOUS
  <2>1. PICK a : Upto(n, a)
    BY <1>2, SourceAssumption
  <2> DEFINE b == [f \in 1..(n + 1) |-> IF f = n + 1 THEN (IF Lk(f) THEN a[Pr(f)] ELSE f) ELSE a[f]]
  <2>2. ASSUME NEW f \in 1..(n + 1)
        PROVE  b[f] = IF Lk(f) THEN b[Pr(f)] ELSE f
    <3>1. f \in Filings
      BY SourceAssumption DEF Filings
    <3>2. CASE ~Lk(f)
      BY <2>1, <3>2
    <3>3. CASE Lk(f)
      <4>1. Pr(f) \in 1..n /\ Pr(f) # n + 1 /\ Pr(f) \in 1..(n + 1)
        BY <1>0, <3>1, <3>3 DEF Filings
      <4>2. b[Pr(f)] = a[Pr(f)]
        BY <4>1
      <4> QED BY <2>1, <3>3, <4>2
    <3> QED BY <3>2, <3>3
  <2>3. Upto(n + 1, b)
    <3>1. b = [f \in 1..(n + 1) |-> b[f]]
      OBVIOUS
    <3> HIDE DEF b
    <3> QED BY <2>2, <3>1
  <2> HIDE DEF b, Upto
  <2> QED BY <2>3
<1>3. NumFilings \in T
  <2> HIDE DEF T
  <2> QED BY <1>1, <1>2, SetInduction, SourceAssumption
<1> DEFINE R == CHOOSE a : Upto(NumFilings, a)
<1>4. Upto(NumFilings, R)
  <2> HIDE DEF Upto
  <2> QED BY <1>3, SourceAssumption
<1>5. RootOf(known, marks) = R
  BY DEF RootOf, Filings, Lk, Pr, Pred
<1> HIDE DEF R
<1> QED BY <1>4, <1>5 DEF Lk, Pr, Filings

LEMMA RootOfFacts ==
  ASSUME NEW known \in SUBSET Filings, NEW marks
  PROVE  \A f \in Filings :
           LET r == RootOf(known, marks)[f]
           IN /\ r \in Filings
              /\ r <= f
              /\ Report[r] = Report[f]
              /\ RootOf(known, marks)[r] = r
              /\ f \in known => r \in known
              /\ r # f => marks[r] = "corrected"
<1> DEFINE R == RootOf(known, marks)
           Good(f) == /\ R[f] \in Filings
                      /\ R[f] <= f
                      /\ Report[R[f]] = Report[f]
                      /\ R[R[f]] = R[f]
                      /\ f \in known => R[f] \in known
                      /\ R[f] # f => marks[R[f]] = "corrected"
           T == {n \in Nat : \A f \in Filings : f <= n => Good(f)}
<1>1. 0 \in T
  BY SourceAssumption DEF Filings
<1>2. ASSUME NEW n \in Nat, n \in T
      PROVE  n + 1 \in T
  <2> SUFFICES ASSUME NEW f \in Filings, f = n + 1
               PROVE  Good(f)
    <3>1. \A f \in Filings : f <= n + 1 => f <= n \/ f = n + 1
      BY DEF Filings
    <3> HIDE DEF Good
    <3> QED BY <1>2, <3>1
  <2>1. CASE ~Links(f, known, marks)
    <3>1. R[f] = f
      BY <2>1, RootOfTurns
    <3> HIDE DEF R
    <3> QED BY <3>1 DEF Filings
  <2>2. CASE Links(f, known, marks)
    <3> DEFINE p == Pred(f, known, marks)
    <3>1. R[f] = R[p]
      BY <2>2, RootOfTurns
    <3>2. /\ p \in Filings /\ p \in known /\ p < f
          /\ Report[p] = Report[f] /\ marks[p] = "corrected"
      BY <2>2, PredecessorFacts
    <3> HIDE DEF R, p
    <3>3. p <= n
      BY <3>2 DEF Filings
    <3>4. Good(p)
      BY <1>2, <3>2, <3>3
    <3> QED BY <3>1, <3>2, <3>4 DEF Filings
  <2> QED BY <2>1, <2>2
<1>3. \A n \in Nat : n \in T
  <2> HIDE DEF T
  <2> QED BY <1>1, <1>2, SetInduction
<1>4. ASSUME NEW f \in Filings
      PROVE  Good(f)
  <2>1. f \in Nat /\ f <= f
    BY DEF Filings
  <2> HIDE DEF Good
  <2> QED BY <1>3, <2>1
<1> QED BY <1>4

LEMMA LinksAreRooted ==
  ASSUME NEW known \in SUBSET Filings, NEW marks, NEW f \in Filings
  PROVE  /\ Links(f, known, marks) =>
              RootOf(known, marks)[f] = RootOf(known, marks)[Pred(f, known, marks)]
         /\ ~Links(f, known, marks) => RootOf(known, marks)[f] = f
BY RootOfTurns

-------------------------------------------------------------------------------
(* What the loop has made of the rows after its first k turns.                 *)

Concerned(f, known, reports) == f \in known /\ Report[f] \in reports

ChainUpto(f, k, known, marks) ==
  {g \in known : g <= k /\ RootOf(known, marks)[g] = RootOf(known, marks)[f]}

Greatest(x, S) == x \in S /\ \A y \in S : y <= x

RowAfter(r, f, k, known, marks) ==
  /\ r \in Rows
  /\ f <= k => r.root = RootOf(known, marks)[f] /\ Greatest(r.latest, ChainUpto(f, k, known, marks))
  /\ f > k => r.root = f /\ r.latest = f
  /\ r.isLatest = (f = r.latest /\ marks[f] = "none")
  /\ r.status = IF f <= k /\ Links(f, known, marks) THEN "linked" ELSE Own(f, marks[f]).status

RowsAfter(now, rows, k, known, marks, reports) ==
  /\ now \in [Filings -> Rows]
  /\ \A f \in Filings :
       /\ Concerned(f, known, reports) => RowAfter(now[f], f, k, known, marks)
       /\ ~Concerned(f, known, reports) => now[f] = rows[f]

LEMMA OwnType ==
  ASSUME NEW f \in Filings, NEW mark \in Marks
  PROVE  /\ Own(f, mark) \in Rows
         /\ Own(f, mark).root = f
         /\ Own(f, mark).latest = f
         /\ Own(f, mark).isLatest = (mark = "none")
         /\ Own(f, mark).status # "linked"
         /\ Own(f, mark).status \in Statuses
BY DEF Own, Rows, Statuses

LEMMA ResetIsStart ==
  ASSUME NEW known \in SUBSET Filings, NEW marks \in [Filings -> Marks], NEW reports,
         NEW rows \in [Filings -> Rows]
  PROVE  RowsAfter(ResetRows(rows, known, marks, reports), rows, 0, known, marks, reports)
<1> DEFINE now == ResetRows(rows, known, marks, reports)
<1>1. ASSUME NEW f \in Filings
      PROVE  /\ now[f] \in Rows
             /\ Concerned(f, known, reports) => now[f] = Own(f, marks[f])
             /\ ~Concerned(f, known, reports) => now[f] = rows[f]
  BY OwnType DEF ResetRows, Concerned
<1>2. now \in [Filings -> Rows]
  BY <1>1 DEF ResetRows
<1>3. ASSUME NEW f \in Filings, Concerned(f, known, reports)
      PROVE  RowAfter(now[f], f, 0, known, marks)
  <2>1. now[f] = Own(f, marks[f])
    BY <1>1, <1>3
  <2>2. f > 0 /\ ~ (f <= 0) /\ marks[f] \in Marks
    BY DEF Filings
  <2> HIDE DEF now
  <2> QED BY <2>1, <2>2, OwnType DEF RowAfter
<1> HIDE DEF now
<1>4. RowsAfter(now, rows, 0, known, marks, reports)
  BY <1>1, <1>2, <1>3 DEF RowsAfter
<1> QED BY <1>4 DEF now

LEMMA TurnWithoutLink ==
  ASSUME NEW known \in SUBSET Filings, NEW marks \in [Filings -> Marks], NEW reports,
         NEW rows \in [Filings -> Rows], NEW now, NEW k \in Nat, k + 1 \in Filings,
         RowsAfter(now, rows, k, known, marks, reports),
         ~ (Report[k + 1] \in reports /\ Links(k + 1, known, marks))
  PROVE  RowsAfter(now, rows, k + 1, known, marks, reports)
<1> DEFINE R == RootOf(known, marks)
           n == k + 1
<1>1. ASSUME NEW f \in Filings, Concerned(f, known, reports)
      PROVE  RowAfter(now[f], f, k + 1, known, marks)
  <2>0. f \in Nat /\ RowAfter(now[f], f, k, known, marks)
    BY <1>1 DEF Filings, RowsAfter
  <2>1. CASE f <= k
    <3>1. n \notin known \/ R[n] # R[f]
      <4> SUFFICES ASSUME R[n] = R[f], n \in known
                   PROVE  FALSE
        OBVIOUS
      <4>1. Report[n] = Report[f]
        BY RootOfFacts
      <4>2. ~Links(n, known, marks)
        BY <4>1, <1>1 DEF Concerned
      <4>3. R[n] = n
        BY <4>2, LinksAreRooted
      <4>4. R[f] <= f /\ R[f] \in Nat
        BY RootOfFacts DEF Filings
      <4>5. R[f] = k + 1 /\ f \in Nat
        BY <2>0, <4>3
      <4> HIDE DEF R
      <4> QED BY <4>4, <4>5, <2>1
    <3>2. ChainUpto(f, k + 1, known, marks) = ChainUpto(f, k, known, marks)
      <4>1. \A g \in known : g <= k + 1 <=> g <= k \/ g = k + 1
        BY DEF Filings
      <4> QED BY <3>1, <4>1 DEF ChainUpto
    <3>3. f <= k + 1 /\ ~ (f > k) /\ ~ (f > k + 1)
      BY <2>0, <2>1
    <3> QED BY <2>0, <2>1, <3>2, <3>3 DEF RowAfter
  <2>2. CASE f = k + 1
    <3>1. ~Links(f, known, marks)
      BY <1>1, <2>2 DEF Concerned
    <3>2. R[f] = f
      BY <3>1, LinksAreRooted
    <3>3. ChainUpto(f, k + 1, known, marks) = {f}
      <4>1. ASSUME NEW g \in known, g <= k + 1, R[g] = R[f]
            PROVE  g = f
        BY <4>1, <3>2, <2>2, RootOfFacts DEF Filings
      <4>2. f \in ChainUpto(f, k + 1, known, marks)
        BY <1>1, <2>0, <2>2 DEF ChainUpto, Concerned
      <4> QED BY <4>1, <4>2 DEF ChainUpto
    <3>4. f > k /\ ~ (f <= k) /\ f <= k + 1 /\ ~ (f > k + 1)
      BY <2>0, <2>2
    <3>5. Greatest(f, ChainUpto(f, k + 1, known, marks))
      BY <3>3, <2>0 DEF Greatest
    <3> QED BY <2>0, <3>1, <3>2, <3>4, <3>5 DEF RowAfter
  <2>3. CASE f > k + 1
    <3>1. ~ (f <= k) /\ ~ (f <= k + 1) /\ f > k
      BY <2>0, <2>3
    <3> QED BY <2>0, <2>3, <3>1 DEF RowAfter
  <2> QED BY <2>0, <2>1, <2>2, <2>3
<1> QED BY <1>1 DEF RowsAfter

LEMMA TurnWithLink ==
  ASSUME NEW known \in SUBSET Filings, NEW marks \in [Filings -> Marks], NEW reports,
         NEW rows \in [Filings -> Rows], NEW now, NEW k \in Nat, k + 1 \in Filings,
         RowsAfter(now, rows, k, known, marks, reports),
         Report[k + 1] \in reports, Links(k + 1, known, marks)
  PROVE  RowsAfter(Linked(k + 1, now, known, marks), rows, k + 1, known, marks, reports)
<1> DEFINE R == RootOf(known, marks)
           n == k + 1
           p == Pred(n, known, marks)
           root == now[p].root
           chain == {c \in SameReport(known, n) : c < n /\ root \in {c, now[c].root}}
           after == Linked(n, now, known, marks)
<1>1. /\ p \in known /\ p \in Filings /\ p <= k /\ Report[p] = Report[n]
      /\ n \in known /\ (marks[n] = "none" \/ marks[n] = "corrected")
  <2>1. n \in known /\ marks[n] \in Marks /\ marks[n] # "withdrawn"
    BY DEF Links
  <2>2. p \in known /\ p \in Filings /\ p < n /\ Report[p] = Report[n]
    BY PredecessorFacts
  <2>3. p <= k
    BY <2>2 DEF Filings
  <2> QED BY <2>1, <2>2, <2>3 DEF Marks
<1>2. root = R[n] /\ root \in Filings /\ root <= n /\ Report[root] = Report[n] /\ R[root] = root
      /\ root \in known
  <2>1. RowAfter(now[p], p, k, known, marks)
    BY <1>1 DEF RowsAfter, Concerned
  <2>2. root = R[p]
    BY <2>1, <1>1 DEF RowAfter
  <2>3. R[n] = R[p]
    BY LinksAreRooted
  <2> QED BY <2>2, <2>3, <1>1, RootOfFacts
<1>3. ASSUME NEW c \in Filings, c <= k
      PROVE  c \in chain <=> c \in known /\ R[c] = R[n]
  <2>1. CASE c \in known /\ Report[c] = Report[n]
    <3>1. RowAfter(now[c], c, k, known, marks)
      BY <2>1 DEF RowsAfter, Concerned
    <3>2. now[c].root = R[c]
      BY <3>1, <1>3 DEF RowAfter
    <3>3. c < n
      BY <1>3 DEF Filings
    <3>4. c \in chain <=> root = c \/ root = R[c]
      BY <2>1, <3>2, <3>3 DEF SameReport
    <3> QED BY <3>4, <2>1, <1>2
  <2>2. CASE c \notin known \/ Report[c] # Report[n]
    <3>1. c \notin chain
      BY <2>2 DEF SameReport
    <3>2. R[c] = R[n] => Report[c] = Report[n]
      BY RootOfFacts
    <3> QED BY <2>2, <3>1, <3>2
  <2> QED BY <2>1, <2>2
<1>4. \A c \in chain : c \in Filings /\ c <= k /\ c \in known /\ Report[c] \in reports
  BY DEF SameReport, Filings
<1>5. /\ after = [c \in Filings |->
                    IF c = n
                    THEN [root |-> root, latest |-> n, isLatest |-> marks[n] # "corrected", status |-> "linked"]
                    ELSE IF c \in chain THEN Replaced(now[c], root, n) ELSE now[c]]
  BY DEF Linked, Pred
<1> HIDE DEF chain, after, root, p
<1>6. ASSUME NEW f \in Filings, Concerned(f, known, reports)
      PROVE  RowAfter(after[f], f, k + 1, known, marks)
  <2>0. f \in Nat /\ RowAfter(now[f], f, k, known, marks)
    BY <1>6 DEF Filings, RowsAfter
  <2>1. CASE f = n
    <3>1. after[f] = [root |-> root, latest |-> n, isLatest |-> marks[n] # "corrected", status |-> "linked"]
      BY <1>5, <2>1
    <3>2. Greatest(n, ChainUpto(f, k + 1, known, marks))
      BY <2>1, <1>1 DEF Greatest, ChainUpto, Filings
    <3>3. f <= k + 1 /\ ~ (f > k + 1)
      BY <2>0, <2>1
    <3>4. after[f] \in Rows
      BY <3>1, <1>2 DEF Rows, Statuses
    <3>5. (marks[n] # "corrected") = (marks[n] = "none")
      BY <1>1
    <3> QED BY <3>1, <3>2, <3>3, <3>4, <3>5, <2>1, <1>2 DEF RowAfter
  <2>2. CASE f <= k /\ f \in chain
    <3>1. after[f] = Replaced(now[f], root, n)
      BY <1>5, <2>0, <2>2
    <3>2. now[f] \in Rows
      BY <2>0 DEF RowAfter
    <3>3. /\ after[f] \in Rows /\ after[f].root = root /\ after[f].latest = n
          /\ after[f].isLatest = FALSE /\ after[f].status = now[f].status
      BY <3>1, <3>2, <1>2 DEF Replaced, Rows
    <3>4. R[f] = R[n]
      BY <1>3, <2>2
    <3>5. Greatest(n, ChainUpto(f, k + 1, known, marks))
      BY <3>4, <1>1 DEF Greatest, ChainUpto, Filings
    <3>6. f <= k + 1 /\ ~ (f > k + 1) /\ f # n
      BY <2>0, <2>2
    <3> QED BY <2>0, <2>2, <3>3, <3>4, <3>5, <3>6, <1>2 DEF RowAfter
  <2>3. CASE f <= k /\ f \notin chain
    <3>1. after[f] = now[f]
      BY <1>5, <2>0, <2>3
    <3>2. R[f] # R[n]
      BY <1>3, <1>6, <2>3 DEF Concerned
    <3>3. ChainUpto(f, k + 1, known, marks) = ChainUpto(f, k, known, marks)
      <4>1. \A g \in known : g <= k + 1 <=> g <= k \/ g = k + 1
        BY DEF Filings
      <4> QED BY <3>2, <4>1 DEF ChainUpto
    <3>4. f <= k + 1 /\ ~ (f > k) /\ ~ (f > k + 1)
      BY <2>0, <2>3
    <3> QED BY <2>0, <2>3, <3>1, <3>3, <3>4 DEF RowAfter
  <2>4. CASE f > k + 1
    <3>1. ~ (f <= k) /\ ~ (f <= k + 1) /\ f > k /\ f # n
      BY <2>0, <2>4
    <3>2. after[f] = now[f]
      BY <1>4, <1>5, <3>1
    <3> QED BY <2>0, <2>4, <3>1, <3>2 DEF RowAfter
  <2> QED BY <2>0, <2>1, <2>2, <2>3, <2>4
<1>7. ASSUME NEW f \in Filings, ~Concerned(f, known, reports)
      PROVE  after[f] = now[f]
  <2>1. f # n /\ f \notin chain
    BY <1>1, <1>4, <1>7 DEF Concerned
  <2> QED BY <2>1, <1>5
<1>8. after \in [Filings -> Rows]
  <2>1. ASSUME NEW f \in Filings
        PROVE  after[f] \in Rows
    BY <1>6, <1>7 DEF RowAfter, RowsAfter
  <2> QED BY <2>1, <1>5
<1>9. RowsAfter(after, rows, k + 1, known, marks, reports)
  BY <1>6, <1>7, <1>8 DEF RowsAfter
<1> QED BY <1>9 DEF after

(* What _apply_correction_lineage makes of the rows.                           *)
LEMMA LineageRows ==
  ASSUME NEW known \in SUBSET Filings, NEW marks \in [Filings -> Marks], NEW reports,
         NEW rows \in [Filings -> Rows]
  PROVE  RowsAfter(Lineage(rows, known, marks, reports), rows, NumFilings, known, marks, reports)
<1>1. PICK after :
        /\ after[0] = ResetRows(rows, known, marks, reports)
        /\ \A f \in Filings : after[f] = Turn(f, after[f - 1], known, marks, reports)
        /\ Lineage(rows, known, marks, reports) = after[NumFilings]
  BY LineageTurns
<1> DEFINE T == {n \in Nat : n <= NumFilings => RowsAfter(after[n], rows, n, known, marks, reports)}
<1>2. 0 \in T
  BY <1>1, ResetIsStart
<1>3. ASSUME NEW n \in Nat, n \in T
      PROVE  n + 1 \in T
  <2> SUFFICES ASSUME n + 1 <= NumFilings
               PROVE  RowsAfter(after[n + 1], rows, n + 1, known, marks, reports)
    OBVIOUS
  <2>1. n + 1 \in Filings /\ n <= NumFilings /\ (n + 1) - 1 = n
    BY SourceAssumption DEF Filings
  <2>2. after[n + 1] = Turn(n + 1, after[n], known, marks, reports)
    BY <1>1, <2>1
  <2>3. RowsAfter(after[n], rows, n, known, marks, reports)
    BY <1>3, <2>1
  <2>4. CASE Report[n + 1] \in reports /\ Links(n + 1, known, marks)
    <3>1. after[n + 1] = Linked(n + 1, after[n], known, marks)
      BY <2>2, <2>4 DEF Turn
    <3> QED BY <2>1, <2>3, <2>4, <3>1, TurnWithLink
  <2>5. CASE ~ (Report[n + 1] \in reports /\ Links(n + 1, known, marks))
    <3>1. after[n + 1] = after[n]
      BY <2>2, <2>5 DEF Turn
    <3> QED BY <2>1, <2>3, <2>5, <3>1, TurnWithoutLink
  <2> QED BY <2>4, <2>5
<1>4. NumFilings \in T
  <2> HIDE DEF T
  <2> QED BY <1>2, <1>3, SetInduction, SourceAssumption
<1> QED BY <1>1, <1>4, SourceAssumption

-------------------------------------------------------------------------------
(* The row that what is known of a filing's report gives it.                   *)

Chain(f, known, marks) == {g \in known : RootOf(known, marks)[g] = RootOf(known, marks)[f]}

Derived(f, known, marks) ==
  [root     |-> RootOf(known, marks)[f],
   latest   |-> Max(Chain(f, known, marks)),
   isLatest |-> f = Max(Chain(f, known, marks)) /\ marks[f] = "none",
   status   |-> IF Links(f, known, marks) THEN "linked" ELSE Own(f, marks[f]).status]

LEMMA NewestOfChain ==
  ASSUME NEW known \in SUBSET Filings, NEW marks, NEW f \in known
  PROVE  /\ Greatest(Max(Chain(f, known, marks)), Chain(f, known, marks))
         /\ \A n : Greatest(n, Chain(f, known, marks)) => n = Max(Chain(f, known, marks))
<1> DEFINE C == Chain(f, known, marks)
<1>1. C \in SUBSET (0..NumFilings) /\ C # {}
  <2>1. \A g \in Filings : g \in 0..NumFilings
    BY SourceAssumption DEF Filings
  <2>2. f \in C /\ \A g \in C : g \in Filings
    BY DEF Chain
  <2> HIDE DEF C
  <2> QED BY <2>1, <2>2
<1> HIDE DEF C
<1>2. /\ Max(C) \in C /\ \A x \in C : x <= Max(C)
      /\ \A y \in C : (\A x \in C : x <= y) => Max(C) = y
  BY <1>1, GreatestOne, SourceAssumption
<1>3. Greatest(Max(C), C)
  BY <1>2 DEF Greatest
<1>4. ASSUME NEW n, Greatest(n, C)
      PROVE  n = Max(C)
  BY <1>2, <1>4 DEF Greatest
<1> QED BY <1>3, <1>4 DEF C

LEMMA DerivedRow ==
  ASSUME NEW known \in SUBSET Filings, NEW marks \in [Filings -> Marks], NEW f \in known,
         NEW r, RowAfter(r, f, NumFilings, known, marks)
  PROVE  r = Derived(f, known, marks)
<1>1. f \in Filings /\ f <= NumFilings
  BY DEF Filings
<1>2. ChainUpto(f, NumFilings, known, marks) = Chain(f, known, marks)
  <2>1. \A g \in known : g <= NumFilings
    BY DEF Filings
  <2> QED BY <2>1 DEF ChainUpto, Chain
<1>3. /\ r \in Rows
      /\ r.root = RootOf(known, marks)[f]
      /\ Greatest(r.latest, Chain(f, known, marks))
      /\ r.isLatest = (f = r.latest /\ marks[f] = "none")
      /\ r.status = IF Links(f, known, marks) THEN "linked" ELSE Own(f, marks[f]).status
  BY <1>1, <1>2 DEF RowAfter
<1>4. r.latest = Max(Chain(f, known, marks))
  BY <1>3, NewestOfChain
<1>5. r = [root |-> r.root, latest |-> r.latest, isLatest |-> r.isLatest, status |-> r.status]
  BY <1>3 DEF Rows
<1> QED BY <1>3, <1>4, <1>5 DEF Derived

LEMMA DerivedFacts ==
  ASSUME NEW known \in SUBSET Filings, NEW marks \in [Filings -> Marks], NEW f \in known
  PROVE  /\ Derived(f, known, marks).root = RootOf(known, marks)[f]
         /\ Greatest(Derived(f, known, marks).latest, Chain(f, known, marks))
         /\ Derived(f, known, marks).isLatest
              => f = Derived(f, known, marks).latest /\ marks[f] = "none"
         /\ Derived(f, known, marks).status = "linked" <=> Links(f, known, marks)
<1>1. marks[f] \in Marks /\ f \in Filings
  OBVIOUS
<1>2. Own(f, marks[f]).status # "linked"
  BY <1>1, OwnType
<1> QED BY <1>2, NewestOfChain DEF Derived

(* Filings of other reports have no part in it.                                *)
LEMMA ReportsAreApart ==
  ASSUME NEW known \in SUBSET Filings, NEW marks, NEW known2 \in SUBSET Filings, NEW marks2,
         NEW one \in Filings,
         \A g \in Filings : Report[g] = Report[one] => (g \in known <=> g \in known2) /\ marks[g] = marks2[g]
  PROVE  /\ Links(one, known, marks) <=> Links(one, known2, marks2)
         /\ RootOf(known, marks)[one] = RootOf(known2, marks2)[one]
         /\ one \in known => Derived(one, known, marks) = Derived(one, known2, marks2)
<1> DEFINE report == Report[one]
<1>0. \A g \in Filings : Report[g] = report => (g \in known <=> g \in known2) /\ marks[g] = marks2[g]
  OBVIOUS
<1> HIDE DEF report
<1> DEFINE R == RootOf(known, marks)
           R2 == RootOf(known2, marks2)
<1>1. ASSUME NEW f \in Filings, Report[f] = report
      PROVE  /\ Predecessors(f, known, marks) = Predecessors(f, known2, marks2)
             /\ Links(f, known, marks) <=> Links(f, known2, marks2)
  <2>1. Predecessors(f, known, marks) = Predecessors(f, known2, marks2)
    BY <1>0, <1>1 DEF Predecessors, SameReport
  <2> QED BY <1>0, <1>1, <2>1 DEF Links
<1> DEFINE T == {n \in Nat : \A f \in Filings : f <= n /\ Report[f] = report => R[f] = R2[f]}
<1>2. 0 \in T
  BY DEF Filings
<1>3. ASSUME NEW n \in Nat, n \in T
      PROVE  n + 1 \in T
  <2> SUFFICES ASSUME NEW f \in Filings, f = n + 1, Report[f] = report
               PROVE  R[f] = R2[f]
    <3>1. \A f \in Filings : f <= n + 1 => f <= n \/ f = n + 1
      BY DEF Filings
    <3> HIDE DEF R, R2
    <3> QED BY <1>3, <3>1
  <2>1. CASE ~Links(f, known, marks)
    <3>1. ~Links(f, known2, marks2)
      BY <1>1, <2>1
    <3> QED BY <2>1, <3>1, LinksAreRooted
  <2>2. CASE Links(f, known, marks)
    <3> DEFINE p == Pred(f, known, marks)
    <3>1. Links(f, known2, marks2) /\ p = Pred(f, known2, marks2)
      BY <1>1, <2>2 DEF Pred
    <3>2. R[f] = R[p] /\ R2[f] = R2[p]
      BY <2>2, <3>1, LinksAreRooted
    <3>3. p \in Filings /\ p < f /\ Report[p] = report
      BY <2>2, PredecessorFacts
    <3> HIDE DEF R, R2, p
    <3>4. p <= n
      BY <3>3 DEF Filings
    <3> QED BY <1>3, <3>2, <3>3, <3>4
  <2> QED BY <2>1, <2>2
<1>4. \A n \in Nat : n \in T
  <2> HIDE DEF T
  <2> QED BY <1>2, <1>3, SetInduction
<1>5. ASSUME NEW f \in Filings, Report[f] = report
      PROVE  R[f] = R2[f]
  <2>1. f \in Nat /\ f <= f
    BY DEF Filings
  <2> HIDE DEF R, R2
  <2> QED BY <1>4, <1>5, <2>1
<1>6. ASSUME NEW f \in Filings, Report[f] = report, f \in known
      PROVE  Derived(f, known, marks) = Derived(f, known2, marks2)
  <2>1. Chain(f, known, marks) = Chain(f, known2, marks2)
    <3>1. \A g \in Filings : R[g] = R[f] \/ R2[g] = R2[f] => Report[g] = report
      BY <1>6, RootOfFacts
    <3> QED BY <1>0, <1>5, <1>6, <3>1 DEF Chain
  <2> QED BY <1>0, <1>1, <1>5, <1>6, <2>1 DEF Derived
<1>7. Report[one] = report
  BY DEF report
<1> QED BY <1>1, <1>5, <1>6, <1>7

-------------------------------------------------------------------------------
(* The invariant of the filings, with what makes it inductive.                 *)

FilingsTyped ==
  /\ filed \in 0..NumFilings
  /\ rm \in [Filings -> Marks]
  /\ seen \subseteq 1..filed
  /\ flags \in [Filings -> Marks]
  /\ row \in [Filings -> Rows]
  /\ watermark \in {0} \cup seen
  /\ torn \subseteq {Report[f] : f \in seen}

(* What was ever observed of a filing's marks is still so at the service.      *)
MarksAreKept == \A f \in Filings : flags[f] # "none" => rm[f] # "none"

RootsAreOfTheReport == \A f \in seen : row[f].root \in seen /\ Report[row[f].root] = Report[f]

(* A filing that others follow has been seen with a mark.                      *)
RootsAreMarked == \A f \in seen : row[f].root # f => flags[row[f].root] # "none"

(* What a link rests on, and which only a withdrawal takes away.               *)
Evidence(f, known, marks) ==
  f \in Corrections /\ \E p \in SameReport(known, f) : p < f /\ marks[p] # "none"

LinksHaveEvidence == \A f \in seen : row[f].status = "linked" => Evidence(f, seen, flags)

FilingInv ==
  /\ FilingsTyped
  /\ LineageFollowsObservation
  /\ OneLatestPerChain
  /\ MarksAreKept
  /\ RootsAreOfTheReport
  /\ RootsAreMarked
  /\ LinksHaveEvidence

LEMMA FollowsIsDerived ==
  LineageFollowsObservation <=> \A f \in seen : Report[f] \notin torn => row[f] = Derived(f, seen, flags)
BY DEF LineageFollowsObservation, Derived, Chain

LEMMA FollowsIsDerivedNext ==
  LineageFollowsObservation' <=>
    \A f \in seen' : Report[f] \notin torn' => row'[f] = Derived(f, seen', flags')
BY DEF LineageFollowsObservation, Derived, Chain, RootOf, Links, Predecessors, SameReport, Own

(* A listing is of published filings, some of which may be seen already.       *)
LEMMA ListedFacts ==
  ASSUME FilingsTyped, MarksAreKept, NEW found \in Found, Listed(found), UNCHANGED upstreamVars
  PROVE  /\ seen' = seen \cup found
         /\ seen' \in SUBSET Filings /\ found \in SUBSET Filings /\ seen \in SUBSET Filings
         /\ seen' \subseteq 1..filed'
         /\ flags' \in [Filings -> Marks]
         /\ filed' \in 0..NumFilings /\ rm' \in [Filings -> Marks]
         /\ watermark' \in {0} \cup seen'
         /\ \A f \in Filings : flags'[f] = IF f \in found THEN rm[f] ELSE flags[f]
         /\ \A f \in Filings : flags[f] # "none" => flags'[f] # "none"
         /\ MarksAreKept'
         /\ FreshRows(found) \in [Filings -> Rows]
<1>1. found \subseteq 1..filed /\ found # {} /\ 1..filed \subseteq Filings
  <2>1. filed \in Nat /\ filed <= NumFilings /\ NumFilings \in Nat
    BY SourceAssumption DEF FilingsTyped
  <2>2. 1..filed \subseteq 1..NumFilings
    BY <2>1
  <2> QED BY <2>2 DEF Found, Published, Filings
<1>2. seen' = seen \cup found /\ filed' = filed /\ rm' = rm
  BY DEF Listed, upstreamVars
<1>3. /\ flags' = [f \in Filings |-> IF f \in found THEN rm[f] ELSE flags[f]]
      /\ watermark' = Max(found \cup {watermark})
  BY DEF Listed
<1>4. flags' \in [Filings -> Marks]
  BY <1>3 DEF FilingsTyped
<1>5. watermark' \in {0} \cup seen'
  <2> DEFINE W == found \cup {watermark}
  <2>1. W \in SUBSET (0..NumFilings) /\ W # {}
    BY <1>1, SourceAssumption DEF FilingsTyped, Filings
  <2>2. Max(W) \in W
    <3> HIDE DEF W
    <3> QED BY <2>1, GreatestOne, SourceAssumption
  <2> QED BY <2>2, <1>2, <1>3 DEF FilingsTyped
<1>6. \A f \in Filings : flags'[f] = IF f \in found THEN rm[f] ELSE flags[f]
  BY <1>3
<1>7. MarksAreKept'
  BY <1>2, <1>6 DEF MarksAreKept
<1>8. \A f \in Filings : flags[f] # "none" => flags'[f] # "none"
  BY <1>6 DEF MarksAreKept
<1>9. FreshRows(found) \in [Filings -> Rows]
  BY OwnType DEF FreshRows, FilingsTyped
<1> QED BY <1>1, <1>2, <1>4, <1>5, <1>6, <1>7, <1>8, <1>9 DEF FilingsTyped

LEMMA EvidenceGrows ==
  ASSUME NEW known, NEW marks, NEW known2, NEW marks2, NEW f,
         known \subseteq known2, known \subseteq Filings,
         \A g \in Filings : marks[g] # "none" => marks2[g] # "none",
         Evidence(f, known, marks)
  PROVE  Evidence(f, known2, marks2)
BY DEF Evidence, SameReport

(* _ingest_filings keeps the invariant, and derives the reports it lists.      *)
LEMMA IngestKeeps ==
  ASSUME FilingInv, NEW found \in Found, Ingest(found), UNCHANGED upstreamVars
  PROVE  FilingInv'
<1> DEFINE reports == ReportsOf(found)
           K == seen'
           M == flags'
<1>1. /\ Listed(found)
      /\ row' = Lineage(FreshRows(found), K, M, reports)
      /\ torn' = torn \ reports
  BY DEF Ingest
<1>2. /\ FilingsTyped /\ MarksAreKept /\ RootsAreOfTheReport /\ RootsAreMarked
      /\ LinksHaveEvidence /\ OneLatestPerChain
      /\ \A f \in seen : Report[f] \notin torn => row[f] = Derived(f, seen, flags)
  BY FollowsIsDerived DEF FilingInv
<1>3. /\ K = seen \cup found
      /\ K \in SUBSET Filings /\ found \in SUBSET Filings /\ seen \in SUBSET Filings
      /\ K \subseteq 1..filed'
      /\ M \in [Filings -> Marks]
      /\ filed' \in 0..NumFilings /\ rm' \in [Filings -> Marks]
      /\ watermark' \in {0} \cup K
      /\ \A f \in Filings : M[f] = IF f \in found THEN rm[f] ELSE flags[f]
      /\ \A f \in Filings : flags[f] # "none" => M[f] # "none"
      /\ MarksAreKept'
      /\ FreshRows(found) \in [Filings -> Rows]
  BY <1>1, <1>2, ListedFacts
<1>4. RowsAfter(row', FreshRows(found), NumFilings, K, M, reports)
  BY <1>1, <1>3, LineageRows
<1> HIDE DEF K, M
<1>a. K \in SUBSET Filings /\ M \in [Filings -> Marks]
  BY <1>3
<1>b. \A f \in K : /\ Derived(f, K, M).root = RootOf(K, M)[f]
                   /\ Greatest(Derived(f, K, M).latest, Chain(f, K, M))
                   /\ Derived(f, K, M).isLatest => f = Derived(f, K, M).latest
  BY <1>a, DerivedFacts
<1>5. row' \in [Filings -> Rows]
  BY <1>4 DEF RowsAfter
<1>6. ASSUME NEW f \in K, Report[f] \in reports
      PROVE  row'[f] = Derived(f, K, M)
  BY <1>3, <1>4, <1>6, DerivedRow DEF RowsAfter, Concerned
<1>7. ASSUME NEW f \in K, Report[f] \notin reports
      PROVE  f \in seen /\ f \notin found /\ row'[f] = row[f]
  <2>1. f \notin found /\ f \in seen /\ f \in Filings
    BY <1>3, <1>7 DEF ReportsOf
  <2>2. row'[f] = FreshRows(found)[f]
    BY <1>4, <1>7, <2>1 DEF RowsAfter, Concerned
  <2> QED BY <2>1, <2>2 DEF FreshRows
<1>8. FilingsTyped'
  <2>1. torn' \subseteq {Report[f] : f \in K}
    BY <1>1, <1>2, <1>3 DEF FilingsTyped
  <2> QED BY <1>3, <1>5, <2>1 DEF FilingsTyped, K, M
<1>9. LineageFollowsObservation'
  <2>1. ASSUME NEW f \in K, Report[f] \notin torn', Report[f] \notin reports
        PROVE  row'[f] = Derived(f, K, M)
    <3>1. f \in seen /\ row'[f] = row[f] /\ f \in Filings
      BY <1>3, <1>7, <2>1
    <3>2. row[f] = Derived(f, seen, flags)
      BY <1>1, <1>2, <2>1, <3>1
    <3>3. \A g \in Filings : Report[g] = Report[f] => g \notin found
      BY <2>1 DEF ReportsOf
    <3>4. \A g \in Filings : Report[g] = Report[f] => (g \in seen <=> g \in K) /\ flags[g] = M[g]
      BY <1>3, <3>3
    <3>5. Derived(f, seen, flags) = Derived(f, K, M)
      <4>1. seen \in SUBSET Filings /\ K \in SUBSET Filings
        BY <1>3
      <4> QED BY <3>1, <3>4, <4>1, ReportsAreApart
    <3> QED BY <3>1, <3>2, <3>5
  <2>2. \A f \in K : Report[f] \notin torn' => row'[f] = Derived(f, K, M)
    BY <1>6, <2>1
  <2> QED BY <2>2, FollowsIsDerivedNext DEF K, M
<1>10. ASSUME NEW f \in K
       PROVE  row'[f].root \in K /\ Report[row'[f].root] = Report[f]
  <2>1. CASE Report[f] \in reports
    <3>1. row'[f].root = RootOf(K, M)[f]
      BY <1>b, <1>6, <2>1
    <3> QED BY <1>3, <3>1, RootOfFacts
  <2>2. CASE Report[f] \notin reports
    BY <1>2, <1>3, <1>7, <2>2 DEF RootsAreOfTheReport
  <2> QED BY <2>1, <2>2
<1>11. RootsAreOfTheReport'
  BY <1>10 DEF RootsAreOfTheReport, K
<1>12. OneLatestPerChain'
  <2>1. ASSUME NEW f \in K, NEW g \in K, row'[f].isLatest, row'[g].isLatest,
               row'[f].root = row'[g].root
        PROVE  f = g
    <3>0. Report[f] = Report[g]
      BY <1>10, <2>1
    <3>1. CASE Report[f] \in reports
      <4>1. row'[f] = Derived(f, K, M) /\ row'[g] = Derived(g, K, M)
        BY <1>6, <3>0, <3>1
      <4>2. Greatest(f, Chain(f, K, M)) /\ Greatest(g, Chain(g, K, M))
        BY <1>b, <2>1, <4>1
      <4>3. RootOf(K, M)[f] = RootOf(K, M)[g]
        BY <1>b, <2>1, <4>1
      <4>4. f \in Chain(g, K, M) /\ g \in Chain(f, K, M)
        BY <4>3 DEF Chain
      <4>5. f <= g /\ g <= f
        BY <4>2, <4>4 DEF Greatest
      <4>6. f \in Nat /\ g \in Nat
        BY <1>3 DEF Filings
      <4> QED BY <4>5, <4>6
    <3>2. CASE Report[f] \notin reports
      BY <1>2, <1>7, <2>1, <3>0, <3>2 DEF OneLatestPerChain
    <3> QED BY <3>1, <3>2
  <2> QED BY <2>1 DEF OneLatestPerChain, K
<1>13. RootsAreMarked'
  <2>1. ASSUME NEW f \in K, row'[f].root # f
        PROVE  M[row'[f].root] # "none"
    <3>1. CASE Report[f] \in reports
      <4>1. row'[f].root = RootOf(K, M)[f]
        BY <1>b, <1>6, <3>1
      <4>2. RootOf(K, M)[f] # f /\ f \in Filings /\ K \in SUBSET Filings
        BY <1>3, <2>1, <4>1
      <4>3. M[RootOf(K, M)[f]] = "corrected"
        BY <4>2, RootOfFacts
      <4> QED BY <4>1, <4>3
    <3>2. CASE Report[f] \notin reports
      <4>1. f \in seen /\ row'[f] = row[f]
        BY <1>7, <3>2
      <4>2. flags[row[f].root] # "none" /\ row[f].root \in Filings
        BY <1>2, <1>3, <2>1, <4>1 DEF RootsAreMarked, RootsAreOfTheReport
      <4> QED BY <1>3, <4>1, <4>2
    <3> QED BY <3>1, <3>2
  <2> QED BY <2>1 DEF RootsAreMarked, K, M
<1>14. LinksHaveEvidence'
  <2>1. ASSUME NEW f \in K, row'[f].status = "linked"
        PROVE  Evidence(f, K, M)
    <3>1. CASE Report[f] \in reports
      <4>1. Links(f, K, M)
        <5>1. Derived(f, K, M).status = "linked"
          BY <1>6, <2>1, <3>1
        <5> QED BY <1>3, <5>1, DerivedFacts
      <4>2. /\ Pred(f, K, M) \in Predecessors(f, K, M)
            /\ M[Pred(f, K, M)] = "corrected"
        BY <1>3, <4>1, PredecessorFacts
      <4> QED BY <4>1, <4>2 DEF Evidence, Links, Predecessors
    <3>2. CASE Report[f] \notin reports
      <4>1. Evidence(f, seen, flags)
        BY <1>2, <1>7, <2>1, <3>2 DEF LinksHaveEvidence
      <4> QED BY <1>3, <4>1, EvidenceGrows
    <3> QED BY <3>1, <3>2
  <2> QED BY <2>1 DEF LinksHaveEvidence, Evidence, SameReport, K, M
<1> QED BY <1>3, <1>8, <1>9, <1>11, <1>12, <1>13, <1>14 DEF FilingInv

(* A listing that breaks off leaves rows that no lineage has been over.        *)
LEMMA BreakKeeps ==
  ASSUME FilingInv, NEW found \in Found, ListingBreaks(found)
  PROVE  FilingInv'
<1> DEFINE K == seen'
           M == flags'
<1>1. /\ Listed(found) /\ UNCHANGED upstreamVars
      /\ row' = FreshRows(found)
      /\ torn' = torn \cup ReportsOf(found)
  BY DEF ListingBreaks
<1>2. /\ FilingsTyped /\ MarksAreKept /\ RootsAreOfTheReport /\ RootsAreMarked
      /\ LinksHaveEvidence /\ OneLatestPerChain
      /\ \A f \in seen : Report[f] \notin torn => row[f] = Derived(f, seen, flags)
  BY FollowsIsDerived DEF FilingInv
<1>3. /\ K = seen \cup found
      /\ K \in SUBSET Filings /\ found \in SUBSET Filings /\ seen \in SUBSET Filings
      /\ K \subseteq 1..filed'
      /\ M \in [Filings -> Marks]
      /\ filed' \in 0..NumFilings /\ rm' \in [Filings -> Marks]
      /\ watermark' \in {0} \cup K
      /\ \A f \in Filings : M[f] = IF f \in found THEN rm[f] ELSE flags[f]
      /\ \A f \in Filings : flags[f] # "none" => M[f] # "none"
      /\ MarksAreKept'
      /\ FreshRows(found) \in [Filings -> Rows]
  BY <1>1, <1>2, ListedFacts
<1> HIDE DEF K, M
<1>5. ASSUME NEW f \in K, f \in found
      PROVE  /\ row'[f] = Own(f, rm[f]) /\ row'[f].root = f
             /\ row'[f].isLatest = (rm[f] = "none") /\ row'[f].status # "linked"
  <2>1. row'[f] = Own(f, rm[f])
    BY <1>1, <1>3, <1>5 DEF FreshRows
  <2>2. f \in Filings /\ rm[f] \in Marks
    BY <1>2, <1>3 DEF FilingsTyped
  <2> QED BY <2>1, <2>2, OwnType
<1>6. ASSUME NEW f \in K, f \notin found
      PROVE  f \in seen /\ row'[f] = row[f]
  BY <1>1, <1>3, <1>6 DEF FreshRows
<1>7. FilingsTyped'
  <2>1. torn' \subseteq {Report[f] : f \in K}
    BY <1>1, <1>2, <1>3 DEF FilingsTyped, ReportsOf
  <2> QED BY <1>1, <1>3, <2>1 DEF FilingsTyped, K, M
<1>8. LineageFollowsObservation'
  <2>1. ASSUME NEW f \in K, Report[f] \notin torn'
        PROVE  row'[f] = Derived(f, K, M)
    <3>1. \A g \in Filings : Report[g] = Report[f] => g \notin found
      BY <1>1, <2>1 DEF ReportsOf
    <3>2. f \in seen /\ row'[f] = row[f] /\ f \in Filings /\ Report[f] \notin torn
      BY <1>1, <1>3, <1>6, <2>1, <3>1
    <3>3. row[f] = Derived(f, seen, flags)
      BY <1>2, <3>2
    <3>4. Derived(f, seen, flags) = Derived(f, K, M)
      <4>1. seen \in SUBSET Filings /\ K \in SUBSET Filings
        BY <1>3
      <4>2. \A g \in Filings : Report[g] = Report[f] => (g \in seen <=> g \in K) /\ flags[g] = M[g]
        BY <1>3, <3>1
      <4> QED BY <3>2, <4>1, <4>2, ReportsAreApart
    <3> QED BY <3>2, <3>3, <3>4
  <2> QED BY <2>1, FollowsIsDerivedNext DEF K, M
<1>9. RootsAreOfTheReport'
  <2>1. ASSUME NEW f \in K
        PROVE  row'[f].root \in K /\ Report[row'[f].root] = Report[f]
    BY <1>2, <1>3, <1>5, <1>6 DEF RootsAreOfTheReport
  <2> QED BY <2>1 DEF RootsAreOfTheReport, K
<1>10. ASSUME NEW f \in K, NEW g \in K, f \in found, g \notin found, row'[f].isLatest,
              row'[f].root = row'[g].root
       PROVE  FALSE
  <2>1. rm[f] = "none" /\ row[g].root = f /\ g \in seen /\ f # g /\ f \in Filings
    BY <1>3, <1>5, <1>6, <1>10
  <2>2. flags[f] # "none"
    BY <1>2, <2>1 DEF RootsAreMarked
  <2> QED BY <1>2, <2>1, <2>2 DEF MarksAreKept
<1>11. OneLatestPerChain'
  <2>1. ASSUME NEW f \in K, NEW g \in K, row'[f].isLatest, row'[g].isLatest,
               row'[f].root = row'[g].root
        PROVE  f = g
    <3>1. CASE f \in found /\ g \in found
      BY <1>5, <2>1, <3>1
    <3>2. CASE f \notin found /\ g \notin found
      BY <1>2, <1>6, <2>1, <3>2 DEF OneLatestPerChain
    <3>3. CASE f \in found /\ g \notin found
      BY <1>10, <2>1, <3>3
    <3>4. CASE f \notin found /\ g \in found
      BY <1>10, <2>1, <3>4
    <3> QED BY <3>1, <3>2, <3>3, <3>4
  <2> QED BY <2>1 DEF OneLatestPerChain, K
<1>12. RootsAreMarked'
  <2>1. ASSUME NEW f \in K, row'[f].root # f
        PROVE  M[row'[f].root] # "none"
    <3>1. f \in seen /\ row'[f] = row[f]
      BY <1>5, <1>6, <2>1
    <3>2. flags[row[f].root] # "none" /\ row[f].root \in Filings
      BY <1>2, <1>3, <2>1, <3>1 DEF RootsAreMarked, RootsAreOfTheReport
    <3> QED BY <1>3, <3>1, <3>2
  <2> QED BY <2>1 DEF RootsAreMarked, K, M
<1>13. LinksHaveEvidence'
  <2>1. ASSUME NEW f \in K, row'[f].status = "linked"
        PROVE  Evidence(f, K, M)
    <3>1. f \in seen /\ row'[f] = row[f]
      BY <1>5, <1>6, <2>1
    <3>2. Evidence(f, seen, flags)
      BY <1>2, <2>1, <3>1 DEF LinksHaveEvidence
    <3> QED BY <1>3, <3>2, EvidenceGrows
  <2> QED BY <2>1 DEF LinksHaveEvidence, Evidence, SameReport, K, M
<1> QED BY <1>3, <1>7, <1>8, <1>9, <1>11, <1>12, <1>13 DEF FilingInv

(* What the service does, and what the source does with its documents alone.   *)
LEMMA UpstreamKeeps ==
  ASSUME FilingInv, UNCHANGED filingVars,
         filed' \in 0..NumFilings, filed <= filed', rm' \in [Filings -> Marks],
         \A f \in Filings : rm[f] # "none" => rm'[f] # "none"
  PROVE  FilingInv'
<1>1. /\ seen' = seen /\ flags' = flags /\ row' = row /\ watermark' = watermark /\ torn' = torn
  BY DEF filingVars
<1>2. FilingsTyped'
  <2>1. 1..filed \subseteq 1..filed'
    BY DEF FilingInv, FilingsTyped
  <2> QED BY <1>1, <2>1 DEF FilingInv, FilingsTyped
<1>3. LineageFollowsObservation'
  BY <1>1, FollowsIsDerived, FollowsIsDerivedNext DEF FilingInv
<1>4. MarksAreKept'
  BY <1>1 DEF FilingInv, MarksAreKept
<1>5. OneLatestPerChain' /\ RootsAreOfTheReport' /\ RootsAreMarked' /\ LinksHaveEvidence'
  BY <1>1 DEF FilingInv, OneLatestPerChain, RootsAreOfTheReport, RootsAreMarked, LinksHaveEvidence,
              Evidence, SameReport
<1> QED BY <1>2, <1>3, <1>4, <1>5 DEF FilingInv

LEMMA FilingInvInit ==
  ASSUME Init
  PROVE  FilingInv
<1>1. FilingsTyped
  <2>1. row \in [Filings -> Rows]
    BY OwnType DEF Init, Marks
  <2> QED BY <2>1, SourceAssumption DEF Init, FilingsTyped, Marks
<1> QED BY <1>1 DEF Init, FilingInv, LineageFollowsObservation, OneLatestPerChain, MarksAreKept,
                   RootsAreOfTheReport, RootsAreMarked, LinksHaveEvidence

-------------------------------------------------------------------------------
(* The documents kept.                                                         *)

Copies(known, marks) ==
  {e \in [filing : known \ NoDocument, row : Rows] :
     e.row.status = "linked" => Evidence(e.filing, known, marks)}

NoTwice(docs) == \A i, j \in DOMAIN docs : docs[i].filing = docs[j].filing => i = j

DocsOK(docs, S) == docs \in Seq(S) /\ Len(docs) <= MaxDocuments /\ NoTwice(docs)

LEMMA TouchKeeps ==
  ASSUME NEW S, NEW docs, DocsOK(docs, S), NEW f \in Kept(docs)
  PROVE  DocsOK(Touch(docs, f), S)
<1> DEFINE n == Len(docs)
           i == CHOOSE k \in DOMAIN docs : docs[k].filing = f
           new == Append(RemoveAt(docs, i), docs[i])
           at == [k \in 1..n |-> IF k < i THEN k ELSE IF k < n THEN k + 1 ELSE i]
<1>1. docs \in Seq(S) /\ n \in Nat /\ DOMAIN docs = 1..n /\ n <= MaxDocuments
  BY DEF DocsOK
<1>2. i \in 1..n /\ docs[i].filing = f
  BY <1>1 DEF Kept
<1>3. Touch(docs, f) = new
  BY DEF Touch
<1> HIDE DEF n, i
<1>4. /\ new \in Seq(S) /\ Len(new) = n
      /\ \A k \in 1..n : at[k] \in 1..n /\ new[k] = docs[at[k]]
  <2> DEFINE s1 == SubSeq(docs, 1, i - 1)
             s2 == SubSeq(docs, i + 1, n)
  <2>1. s1 \in Seq(S) /\ Len(s1) = i - 1 /\ \A k \in 1..(i - 1) : s1[k] = docs[k]
    BY <1>1, <1>2
  <2>2. s2 \in Seq(S) /\ Len(s2) = n - i /\ \A k \in 1..(n - i) : s2[k] = docs[i + k]
    BY <1>1, <1>2
  <2>3. RemoveAt(docs, i) = s1 \o s2
    BY DEF RemoveAt, n
  <2> HIDE DEF s1, s2
  <2>4. /\ s1 \o s2 \in Seq(S) /\ Len(s1 \o s2) = n - 1
        /\ \A k \in 1..(n - 1) : (s1 \o s2)[k] = IF k < i THEN docs[k] ELSE docs[k + 1]
    <3>1. i \in Nat /\ i >= 1 /\ i <= n /\ (i - 1) + (n - i) = n - 1
      BY <1>1, <1>2
    <3>2. s1 \o s2 \in Seq(S) /\ Len(s1 \o s2) = n - 1
      <4>1. s1 \in Seq(S) /\ s2 \in Seq(S)
        BY <2>1, <2>2
      <4>2. s1 \o s2 \in Seq(S) /\ Len(s1 \o s2) = Len(s1) + Len(s2)
        BY <4>1
      <4>3. Len(s1) + Len(s2) = n - 1
        BY <1>1, <2>1, <2>2, <3>1
      <4> QED BY <4>2, <4>3
    <3>3. ASSUME NEW k \in 1..(n - 1)
          PROVE  (s1 \o s2)[k] = IF k < i THEN docs[k] ELSE docs[k + 1]
      <4>1. (s1 \o s2)[k] = IF k <= Len(s1) THEN s1[k] ELSE s2[k - Len(s1)]
        BY <2>1, <2>2, <3>1, <1>1
      <4>2. CASE k < i
        BY <1>1, <2>1, <3>1, <4>1, <4>2
      <4>3. CASE ~ (k < i)
        <5>1. k - (i - 1) \in 1..(n - i) /\ i + (k - (i - 1)) = k + 1 /\ ~ (k <= Len(s1))
          BY <1>1, <2>1, <3>1, <4>3
        <5> QED BY <2>1, <2>2, <4>1, <4>3, <5>1
      <4> QED BY <4>2, <4>3
    <3> QED BY <3>2, <3>3
  <2>5. docs[i] \in S
    BY <1>1, <1>2
  <2> QED BY <1>1, <1>2, <2>3, <2>4, <2>5
<1>5. \A k, l \in 1..n : at[k] = at[l] => k = l
  BY <1>1, <1>2
<1> HIDE DEF new, at
<1>6. NoTwice(docs)
  BY DEF DocsOK
<1>7. NoTwice(new)
  BY <1>1, <1>4, <1>5, <1>6 DEF NoTwice
<1> QED BY <1>1, <1>3, <1>4, <1>7 DEF DocsOK

LEMMA KeepKeeps ==
  ASSUME NEW S, NEW docs, DocsOK(docs, S), NEW f, f \notin Kept(docs), NEW r,
         [filing |-> f, row |-> r] \in S
  PROVE  DocsOK(Keep(docs, f, r), S)
<1> DEFINE grown == Append(docs, [filing |-> f, row |-> r])
           n == Len(docs)
<1>1. docs \in Seq(S) /\ n \in Nat /\ DOMAIN docs = 1..n /\ n <= MaxDocuments /\ NoTwice(docs)
  BY DEF DocsOK
<1>2. MaxDocuments \in Nat /\ MaxDocuments > 0
  BY SourceAssumption
<1>3. /\ grown \in Seq(S) /\ Len(grown) = n + 1 /\ DOMAIN grown = 1..(n + 1)
      /\ \A k \in 1..n : grown[k] = docs[k]
      /\ grown[n + 1].filing = f
  BY <1>1
<1>4. \A k \in 1..n : docs[k].filing # f
  BY <1>1 DEF Kept
<1> HIDE DEF grown, n
<1>5. NoTwice(grown)
  <2>1. \A k \in 1..(n + 1) : k \in 1..n \/ k = n + 1
    BY <1>1
  <2> QED BY <1>1, <1>3, <1>4, <2>1 DEF NoTwice
<1>6. CASE Len(grown) > MaxDocuments
  <2> DEFINE t == Tail(grown)
  <2>1. /\ t \in Seq(S) /\ Len(t) = n /\ DOMAIN t = 1..n
        /\ \A k \in 1..n : t[k] = grown[k + 1] /\ k + 1 \in 1..(n + 1)
    BY <1>1, <1>3
  <2> HIDE DEF t
  <2>2. NoTwice(t)
    <3>1. ASSUME NEW k \in 1..n, NEW l \in 1..n, t[k].filing = t[l].filing
          PROVE  k = l
      <4>1. grown[k + 1].filing = grown[l + 1].filing
        BY <2>1, <3>1
      <4>2. k + 1 = l + 1
        BY <1>3, <1>5, <2>1, <4>1 DEF NoTwice
      <4> QED BY <4>2, <1>1
    <3> QED BY <2>1, <3>1 DEF NoTwice
  <2>3. Keep(docs, f, r) = t
    BY <1>6 DEF Keep, grown, t
  <2> QED BY <1>1, <2>1, <2>2, <2>3 DEF DocsOK
<1>7. CASE ~ (Len(grown) > MaxDocuments)
  <2>1. Keep(docs, f, r) = grown
    BY <1>7 DEF Keep, grown
  <2> QED BY <1>1, <1>2, <1>3, <1>5, <1>7, <2>1 DEF DocsOK
<1> QED BY <1>6, <1>7

LEMMA DocsOfMore ==
  ASSUME NEW S, NEW T, S \subseteq T, NEW docs, DocsOK(docs, S)
  PROVE  DocsOK(docs, T)
<1>1. docs \in Seq(T)
  <2>1. docs \in Seq(S)
    BY DEF DocsOK
  <2>2. \A k \in 1..Len(docs) : docs[k] \in T
    BY <2>1
  <2> QED BY <2>1, <2>2
<1> QED BY <1>1 DEF DocsOK

(* What the loop of search_chunks goes through, newest first.                  *)
LEMMA SearchTurns ==
  ASSUME NEW docs, NEW candidates, NEW rows, NEW failing
  PROVE  \E from :
           /\ from[NumFilings + 1] = [docs |-> docs, downloads |-> 0, failed |-> FALSE]
           /\ \A f \in Filings : from[f] = IF f \in candidates
                                           THEN Explore(from[f + 1], f, rows, failing) ELSE from[f + 1]
           /\ DocumentsAfter(docs, candidates, rows, failing) = from[1].docs
<1> DEFINE Start == [docs |-> docs, downloads |-> 0, failed |-> FALSE]
           Step(s, f) == IF f \in candidates THEN Explore(s, f, rows, failing) ELSE s
           From(m, a) == a = [f \in m..(NumFilings + 1) |->
                                IF f > NumFilings THEN Start
                                ELSE IF f \in candidates THEN Explore(a[f + 1], f, rows, failing)
                                ELSE a[f + 1]]
           T == {n \in Nat : n <= NumFilings => \E a : From(NumFilings + 1 - n, a)}
<1>0. NumFilings \in Nat
  BY SourceAssumption
<1>1. 0 \in T
  <2>1. From(NumFilings + 1, [f \in (NumFilings + 1)..(NumFilings + 1) |-> Start])
    BY <1>0
  <2>2. NumFilings + 1 - 0 = NumFilings + 1
    BY <1>0
  <2> HIDE DEF From
  <2> QED BY <2>1, <2>2
<1>2. ASSUME NEW n \in Nat, n \in T
      PROVE  n + 1 \in T
  <2> DEFINE m == NumFilings + 1 - n
             l == NumFilings + 1 - (n + 1)
  <2> SUFFICES ASSUME n + 1 <= NumFilings
               PROVE  \E a : From(l, a)
    OBVIOUS
  <2>1. m \in Nat /\ l \in Nat /\ m = l + 1 /\ m <= NumFilings + 1 /\ l <= NumFilings /\ l >= 1
    BY <1>0
  <2>2. PICK a : From(m, a)
    BY <1>0, <1>2
  <2> HIDE DEF m, l
  <2> DEFINE b == [f \in l..(NumFilings + 1) |-> IF f = l THEN Step(a[m], l) ELSE a[f]]
  <2>3. ASSUME NEW f \in l..(NumFilings + 1)
        PROVE  b[f] = IF f > NumFilings THEN Start
                      ELSE IF f \in candidates THEN Explore(b[f + 1], f, rows, failing) ELSE b[f + 1]
    <3>1. CASE f = l
      <4>1. ~ (f > NumFilings) /\ f + 1 = m /\ m \in l..(NumFilings + 1) /\ m # l
        BY <1>0, <2>1, <3>1
      <4>2. b[f + 1] = a[m]
        BY <4>1
      <4> QED BY <3>1, <4>1, <4>2
    <3>2. CASE f # l
      <4>1. f \in m..(NumFilings + 1) /\ b[f] = a[f]
        BY <1>0, <2>1, <3>2
      <4>2. CASE f > NumFilings
        BY <2>2, <4>1, <4>2
      <4>3. CASE ~ (f > NumFilings)
        <5>1. f + 1 \in l..(NumFilings + 1) /\ f + 1 # l
          BY <1>0, <2>1, <4>1, <4>3
        <5>2. b[f + 1] = a[f + 1]
          BY <5>1
        <5> QED BY <2>2, <4>1, <4>3, <5>2
      <4> QED BY <4>2, <4>3
    <3> QED BY <3>1, <3>2
  <2>4. From(l, b)
    <3>1. b = [f \in l..(NumFilings + 1) |-> b[f]]
      OBVIOUS
    <3> HIDE DEF b
    <3> QED BY <2>3, <3>1
  <2> HIDE DEF b, From
  <2> QED BY <2>4
<1>3. NumFilings \in T
  <2> HIDE DEF T
  <2> QED BY <1>0, <1>1, <1>2, SetInduction
<1> DEFINE from == CHOOSE a : From(1, a)
<1>4. From(1, from)
  <2>1. NumFilings + 1 - NumFilings = 1 /\ NumFilings <= NumFilings
    BY <1>0
  <2> HIDE DEF From
  <2> QED BY <1>3, <2>1
<1>5. DocumentsAfter(docs, candidates, rows, failing) = from[1].docs
  BY DEF DocumentsAfter
<1> HIDE DEF from
<1>6. from[NumFilings + 1] = Start
  BY <1>0, <1>4
<1>7. ASSUME NEW f \in Filings
      PROVE  from[f] = IF f \in candidates THEN Explore(from[f + 1], f, rows, failing) ELSE from[f + 1]
  <2>1. f \in 1..(NumFilings + 1) /\ ~ (f > NumFilings)
    BY <1>0 DEF Filings
  <2> QED BY <1>4, <2>1
<1> QED BY <1>5, <1>6, <1>7

SearchOK(s, S) ==
  /\ DOMAIN s = {"docs", "downloads", "failed"}
  /\ s.failed \in BOOLEAN
  /\ DocsOK(s.docs, S)

LEMMA ExploreKeeps ==
  ASSUME NEW S, NEW search, SearchOK(search, S), NEW f, NEW rows, NEW failing,
         Retrievable(f) => [filing |-> f, row |-> rows[f]] \in S
  PROVE  SearchOK(Explore(search, f, rows, failing), S)
<1> DEFINE next == Explore(search, f, rows, failing)
<1>1. CASE search.failed
  BY <1>1 DEF Explore
<1>2. CASE ~search.failed /\ f \in Kept(search.docs)
  <2>1. next = [search EXCEPT !.docs = Touch(search.docs, f)]
    BY <1>2 DEF Explore
  <2>2. DocsOK(Touch(search.docs, f), S)
    BY <1>2, TouchKeeps DEF SearchOK
  <2> QED BY <2>1, <2>2 DEF SearchOK
<1>3. CASE ~search.failed /\ f \notin Kept(search.docs)
  <2>1. CASE search.downloads >= MaxNewDownloads
    BY <1>3, <2>1 DEF Explore
  <2>2. CASE ~ (search.downloads >= MaxNewDownloads) /\ f = failing
    <3>1. next = [search EXCEPT !.failed = TRUE]
      BY <1>3, <2>2 DEF Explore
    <3> QED BY <3>1 DEF SearchOK
  <2>3. CASE ~ (search.downloads >= MaxNewDownloads) /\ f # failing
    <3> DEFINE d == IF Retrievable(f) THEN Keep(search.docs, f, rows[f]) ELSE search.docs
    <3>1. next = [search EXCEPT !.downloads = @ + 1, !.docs = d]
      BY <1>3, <2>3 DEF Explore
    <3>2. DocsOK(d, S)
      BY <1>3, KeepKeeps DEF SearchOK
    <3> HIDE DEF d
    <3> QED BY <3>1, <3>2 DEF SearchOK
  <2> QED BY <2>1, <2>2, <2>3
<1> QED BY <1>1, <1>2, <1>3 DEF SearchOK

LEMMA SearchKeeps ==
  ASSUME NEW S, NEW docs, DocsOK(docs, S), NEW candidates, NEW rows, NEW failing,
         \A f \in candidates : Retrievable(f) => [filing |-> f, row |-> rows[f]] \in S
  PROVE  DocsOK(DocumentsAfter(docs, candidates, rows, failing), S)
<1>0. NumFilings \in Nat
  BY SourceAssumption
<1>1. PICK from :
        /\ from[NumFilings + 1] = [docs |-> docs, downloads |-> 0, failed |-> FALSE]
        /\ \A f \in Filings : from[f] = IF f \in candidates
                                        THEN Explore(from[f + 1], f, rows, failing) ELSE from[f + 1]
        /\ DocumentsAfter(docs, candidates, rows, failing) = from[1].docs
  BY SearchTurns
<1> DEFINE T == {n \in Nat : n <= NumFilings => SearchOK(from[NumFilings + 1 - n], S)}
<1>2. 0 \in T
  <2>1. SearchOK([docs |-> docs, downloads |-> 0, failed |-> FALSE], S)
    BY DEF SearchOK
  <2>2. NumFilings + 1 - 0 = NumFilings + 1
    BY <1>0
  <2> QED BY <1>1, <2>1, <2>2
<1>3. ASSUME NEW n \in Nat, n \in T
      PROVE  n + 1 \in T
  <2> DEFINE f == NumFilings + 1 - (n + 1)
  <2> SUFFICES ASSUME n + 1 <= NumFilings
               PROVE  SearchOK(from[f], S)
    OBVIOUS
  <2>1. f \in Filings /\ f + 1 = NumFilings + 1 - n /\ n <= NumFilings
    BY <1>0 DEF Filings
  <2>2. SearchOK(from[f + 1], S)
    BY <1>3, <2>1
  <2> HIDE DEF f
  <2>3. CASE f \in candidates
    <3>1. from[f] = Explore(from[f + 1], f, rows, failing)
      BY <1>1, <2>1, <2>3
    <3>2. Retrievable(f) => [filing |-> f, row |-> rows[f]] \in S
      BY <2>3
    <3> QED BY <2>2, <3>1, <3>2, ExploreKeeps
  <2>4. CASE f \notin candidates
    BY <1>1, <2>1, <2>2, <2>4
  <2> QED BY <2>3, <2>4
<1>4. NumFilings \in T
  <2> HIDE DEF T
  <2> QED BY <1>0, <1>2, <1>3, SetInduction
<1>5. SearchOK(from[1], S)
  <2>1. NumFilings + 1 - NumFilings = 1 /\ NumFilings <= NumFilings
    BY <1>0
  <2> QED BY <1>4, <2>1
<1> QED BY <1>1, <1>5 DEF SearchOK

-------------------------------------------------------------------------------
(* The whole invariant.                                                        *)

SourceInv == FilingInv /\ DocsOK(documents, Copies(seen, flags))

LEMMA CopiesGrow ==
  ASSUME NEW known \in SUBSET Filings, NEW marks, NEW known2, NEW marks2,
         known \subseteq known2,
         \A g \in Filings : marks[g] # "none" => marks2[g] # "none"
  PROVE  Copies(known, marks) \subseteq Copies(known2, marks2)
BY EvidenceGrows DEF Copies

LEMMA RowIsCopy ==
  ASSUME FilingInv'
  PROVE  \A f \in seen' : Retrievable(f) => [filing |-> f, row |-> row'[f]] \in Copies(seen', flags')
<1>1. ASSUME NEW f \in seen', f \notin NoDocument
      PROVE  [filing |-> f, row |-> row'[f]] \in Copies(seen', flags')
  <2>1. row'[f] \in Rows
    <3>1. f \in Filings
      BY SourceAssumption DEF FilingInv, FilingsTyped, Filings
    <3> QED BY <3>1 DEF FilingInv, FilingsTyped
  <2>2. row'[f].status = "linked" => Evidence(f, seen', flags')
    BY DEF FilingInv, LinksHaveEvidence, Evidence, SameReport
  <2> QED BY <1>1, <2>1, <2>2 DEF Copies
<1> QED BY <1>1 DEF Retrievable

LEMMA SeenAreFilings ==
  ASSUME FilingInv
  PROVE  seen \in SUBSET Filings
<1>1. filed \in Nat /\ filed <= NumFilings /\ seen \subseteq 1..filed
  BY SourceAssumption DEF FilingInv, FilingsTyped
<1>2. 1..filed \subseteq 1..NumFilings
  BY <1>1, SourceAssumption
<1> QED BY <1>1, <1>2 DEF Filings

(* What a listing of any length does to what is kept.                          *)
LEMMA ListingGrows ==
  ASSUME FilingInv, NEW found \in Found, Listed(found), UNCHANGED upstreamVars
  PROVE  Copies(seen, flags) \subseteq Copies(seen', flags')
<1>1. /\ seen' = seen \cup found /\ seen \in SUBSET Filings
      /\ \A f \in Filings : flags[f] # "none" => flags'[f] # "none"
  BY ListedFacts DEF FilingInv
<1> QED BY <1>1, CopiesGrow

LEMMA MetadataKeeps ==
  ASSUME FilingInv, NEW f \in Published, Metadata(f), UNCHANGED upstreamVars
  PROVE  FilingInv' /\ f \in seen' /\ Copies(seen, flags) \subseteq Copies(seen', flags')
<1>1. CASE f \in seen
  <2>1. UNCHANGED filingVars
    BY <1>1 DEF Metadata
  <2>2. FilingInv'
    BY <2>1, UpstreamKeeps DEF upstreamVars, FilingInv, FilingsTyped
  <2> QED BY <1>1, <2>1, <2>2 DEF filingVars
<1>2. CASE f \notin seen
  <2>1. Ingest({f}) /\ {f} \in Found
    BY <1>2 DEF Metadata, Found
  <2>2. Listed({f})
    BY <2>1 DEF Ingest
  <2> QED BY <2>1, <2>2, IngestKeeps, ListingGrows DEF Listed
<1> QED BY <1>1, <1>2

LEMMA SourceInvInit ==
  ASSUME Init
  PROVE  SourceInv
<1>1. documents = <<>>
  BY DEF Init
<1>2. DocsOK(documents, Copies(seen, flags))
  BY <1>1, SourceAssumption DEF DocsOK, NoTwice
<1> QED BY <1>2, FilingInvInit DEF SourceInv

LEMMA SourceInvNext ==
  ASSUME SourceInv, [Next]_vars
  PROVE  SourceInv'
<1> DEFINE C == Copies(seen, flags)
<1>0. FilingInv /\ DocsOK(documents, C)
  BY DEF SourceInv
<1>a. ASSUME FilingInv', DocsOK(documents', Copies(seen', flags'))
      PROVE  SourceInv'
  BY <1>a DEF SourceInv, DocsOK, NoTwice, Copies, Evidence, SameReport
<1>b. ASSUME FilingInv', C \subseteq Copies(seen', flags'), documents' = documents
      PROVE  SourceInv'
  <2>1. DocsOK(documents', Copies(seen', flags'))
    BY <1>0, <1>b, DocsOfMore
  <2> QED BY <1>a, <1>b, <2>1
<1> HIDE DEF C
<1>1. CASE Publish
  <2>1. /\ UNCHANGED filingVars /\ documents' = documents
        /\ filed' \in 0..NumFilings /\ filed <= filed'
        /\ rm' = rm /\ rm \in [Filings -> Marks]
    BY <1>0, <1>1, SourceAssumption DEF Publish, FilingInv, FilingsTyped
  <2>2. FilingInv'
    BY <1>0, <2>1, UpstreamKeeps
  <2>3. C = Copies(seen', flags')
    BY <2>1 DEF C, filingVars
  <2> QED BY <1>b, <2>1, <2>2, <2>3
<1>2. ASSUME NEW f \in Filings, MarkCorrected(f) \/ MarkWithdrawn(f)
      PROVE  SourceInv'
  <2>1. /\ UNCHANGED filingVars /\ documents' = documents /\ filed' = filed
        /\ rm \in [Filings -> Marks] /\ filed \in 0..NumFilings
    BY <1>0, <1>2 DEF MarkCorrected, MarkWithdrawn, FilingInv, FilingsTyped
  <2>2. rm' = [rm EXCEPT ![f] = "corrected"] \/ rm' = [rm EXCEPT ![f] = "withdrawn"]
    BY <1>2 DEF MarkCorrected, MarkWithdrawn
  <2>3. rm' \in [Filings -> Marks] /\ \A g \in Filings : rm[g] # "none" => rm'[g] # "none"
    BY <2>1, <2>2 DEF Marks
  <2>4. FilingInv'
    BY <1>0, <2>1, <2>3, SourceAssumption, UpstreamKeeps
  <2>5. C = Copies(seen', flags')
    BY <2>1 DEF C, filingVars
  <2> QED BY <1>b, <2>1, <2>4, <2>5
<1>3. ASSUME NEW found \in Found, ListFilings(found)
      PROVE  SourceInv'
  <2>1. Ingest(found) /\ Listed(found) /\ UNCHANGED upstreamVars /\ documents' = documents
    BY <1>3 DEF ListFilings, Ingest
  <2>2. FilingInv' /\ C \subseteq Copies(seen', flags')
    BY <1>0, <2>1, IngestKeeps, ListingGrows DEF C
  <2> QED BY <1>b, <2>1, <2>2
<1>4. ASSUME NEW found \in Found, ListingBreaks(found)
      PROVE  SourceInv'
  <2>1. Listed(found) /\ UNCHANGED upstreamVars /\ documents' = documents
    BY <1>4 DEF ListingBreaks
  <2>2. FilingInv' /\ C \subseteq Copies(seen', flags')
    BY <1>0, <1>4, <2>1, BreakKeeps, ListingGrows DEF C
  <2> QED BY <1>b, <2>1, <2>2
<1>5. ASSUME NEW found \in Found, SearchChunks(found)
      PROVE  SourceInv'
  <2>1. Ingest(found) /\ Listed(found) /\ UNCHANGED upstreamVars
    BY <1>5 DEF SearchChunks, Ingest
  <2>2. FilingInv' /\ C \subseteq Copies(seen', flags')
    BY <1>0, <2>1, IngestKeeps, ListingGrows DEF C
  <2>a. PICK candidates \in Candidates(found, row') :
          \E failing : documents' = DocumentsAfter(documents, candidates, row', failing)
    BY <1>5 DEF SearchChunks
  <2>3. PICK failing : documents' = DocumentsAfter(documents, candidates, row', failing)
    BY <2>a
  <2>4. candidates \subseteq found /\ found \subseteq seen'
    BY <2>1, <2>3 DEF Candidates, Listed
  <2>5. \A f \in candidates : Retrievable(f) => [filing |-> f, row |-> row'[f]] \in Copies(seen', flags')
    BY <2>2, <2>4, RowIsCopy
  <2>6. DocsOK(documents, Copies(seen', flags'))
    BY <1>0, <2>2, DocsOfMore
  <2>7. DocsOK(documents', Copies(seen', flags'))
    BY <2>3, <2>5, <2>6, SearchKeeps
  <2> QED BY <1>a, <2>2, <2>7
<1>6. ASSUME NEW f \in Published, ReadSection(f)
      PROVE  SourceInv'
  <2>1. Metadata(f) /\ UNCHANGED upstreamVars
    BY <1>6 DEF ReadSection
  <2>2. FilingInv' /\ f \in seen' /\ C \subseteq Copies(seen', flags')
    BY <1>0, <2>1, MetadataKeeps DEF C
  <2>3. DocsOK(documents, Copies(seen', flags'))
    BY <1>0, <2>2, DocsOfMore
  <2>4. CASE f \in Kept(documents) /\ documents' = Touch(documents, f)
    <3>1. DocsOK(documents', Copies(seen', flags'))
      BY <2>3, <2>4, TouchKeeps
    <3> QED BY <1>a, <2>2, <3>1
  <2>5. CASE f \notin Kept(documents) /\ Retrievable(f) /\ documents' = Keep(documents, f, row'[f])
    <3>1. [filing |-> f, row |-> row'[f]] \in Copies(seen', flags')
      BY <2>2, <2>5, RowIsCopy
    <3>2. DocsOK(documents', Copies(seen', flags'))
      BY <2>3, <2>5, <3>1, KeepKeeps
    <3> QED BY <1>a, <2>2, <3>2
  <2>6. CASE documents' = documents
    BY <1>b, <2>2, <2>6
  <2> QED BY <1>6, <2>4, <2>5, <2>6 DEF ReadSection
<1>7. ASSUME NEW f \in Published, GetHistory(f)
      PROVE  SourceInv'
  <2>1. Metadata(f) /\ UNCHANGED upstreamVars /\ documents' = documents
    BY <1>7 DEF GetHistory, upstreamVars
  <2>2. FilingInv' /\ C \subseteq Copies(seen', flags')
    BY <1>0, <2>1, MetadataKeeps DEF C
  <2> QED BY <1>b, <2>1, <2>2
<1>8. CASE UNCHANGED vars
  <2>1. UNCHANGED filingVars /\ UNCHANGED upstreamVars /\ documents' = documents
    BY <1>8 DEF vars
  <2>2. FilingInv'
    BY <1>0, <2>1, UpstreamKeeps, SourceAssumption DEF upstreamVars, FilingInv, FilingsTyped
  <2>3. C = Copies(seen', flags')
    BY <2>1 DEF C, filingVars
  <2> QED BY <1>b, <2>1, <2>2, <2>3
<1> QED BY <1>1, <1>2, <1>3, <1>4, <1>5, <1>6, <1>7, <1>8 DEF Next

(* Whatever was listed, broken off, looked up and read: the rows, the marks and *)
(* the watermark are those of filings seen, and the documents kept are few,     *)
(* each of another filing that has one (opendart.py:1231-1292, 1732-1737).      *)
THEOREM SourceTyped == Spec => []SourceTypeOK
<1>1. SourceInv => SourceTypeOK
  <2> SUFFICES ASSUME SourceInv
               PROVE  SourceTypeOK
    OBVIOUS
  <2>1. FilingInv /\ DocsOK(documents, Copies(seen, flags))
    BY DEF SourceInv
  <2>2. documents \in Seq(Copies(seen, flags)) /\ Len(documents) <= MaxDocuments /\ NoTwice(documents)
    BY <2>1 DEF DocsOK
  <2>3. \A i \in DOMAIN documents : documents[i] \in Copies(seen, flags)
    BY <2>2
  <2>4. \A i \in DOMAIN documents : documents[i].filing \in seen \ NoDocument /\ documents[i].row \in Rows
    BY <2>3 DEF Copies
  <2> QED BY <2>1, <2>2, <2>4 DEF SourceTypeOK, FilingInv, FilingsTyped, NoTwice
<1> QED BY <1>1, SourceInvInit, SourceInvNext, PTL DEF Spec

(* In whatever portions, order and repetition filings were listed, the rows of  *)
(* a report are those that its whole known history defines, once its last       *)
(* listing was processed to the end (opendart.py:1294-1369).                    *)
THEOREM LineageIsThatOfAllSeen == Spec => []LineageFollowsObservation
<1>1. SourceInv => LineageFollowsObservation
  BY DEF SourceInv, FilingInv
<1> QED BY <1>1, SourceInvInit, SourceInvNext, PTL DEF Spec

(* Not even between an interrupted listing and the next are there two latest    *)
(* filings of one chain (opendart.py:1362-1368).                                *)
THEOREM LatestIsUnique == Spec => []OneLatestPerChain
<1>1. SourceInv => OneLatestPerChain
  BY DEF SourceInv, FilingInv
<1> QED BY <1>1, SourceInvInit, SourceInvNext, PTL DEF Spec

-------------------------------------------------------------------------------
(* What the lineage tells of a link.                                           *)

LEMMA EvidenceLinks ==
  ASSUME NEW known \in SUBSET Filings, NEW marks \in [Filings -> Marks], NEW f \in known,
         Evidence(f, known, marks),
         \A g \in SameReport(known, f) : marks[g] # "withdrawn"
  PROVE  Links(f, known, marks)
<1>1. PICK p \in SameReport(known, f) : p < f /\ marks[p] # "none"
  BY DEF Evidence
<1>2. marks[p] = "corrected"
  <2>1. marks[p] \in Marks /\ marks[p] # "withdrawn"
    BY <1>1 DEF SameReport
  <2> QED BY <1>1, <2>1 DEF Marks
<1>3. p \in Predecessors(f, known, marks)
  BY <1>1, <1>2 DEF Predecessors
<1>4. f \in SameReport(known, f) /\ f \in Corrections
  BY DEF SameReport, Evidence
<1> QED BY <1>3, <1>4 DEF Links

LEMMA TwoAtLeast ==
  ASSUME NEW S \in SUBSET Filings, NEW x \in S, NEW y \in S, x # y
  PROVE  Cardinality(S) > 1
<1>1. IsFiniteSet(S) /\ Cardinality(S) \in Nat
  <2>1. IsFiniteSet(Filings)
    BY FS_Interval, SourceAssumption DEF Filings
  <2>2. IsFiniteSet(S)
    BY <2>1, FS_Subset
  <2> QED BY <2>2, FS_CardinalityType
<1>2. IsFiniteSet({x}) /\ Cardinality({x}) = 1
  BY FS_Singleton
<1>3. {x, y} = {x} \cup {y}
  OBVIOUS
<1>4. Cardinality({x, y}) = 2
  BY <1>2, <1>3, FS_AddElement
<1>5. Cardinality({x, y}) <= Cardinality(S)
  BY <1>1, FS_Subset
<1> QED BY <1>1, <1>4, <1>5

LEMMA HistoryFollows ==
  ASSUME SourceInv
  PROVE  HistoryAnswersLinks
<1>1. /\ FilingsTyped /\ RootsAreOfTheReport /\ LinksHaveEvidence
      /\ \A f \in seen : Report[f] \notin torn => row[f] = Derived(f, seen, flags)
      /\ documents \in Seq(Copies(seen, flags))
      /\ seen \in SUBSET Filings /\ flags \in [Filings -> Marks]
  BY FollowsIsDerived, SeenAreFilings DEF SourceInv, FilingInv, FilingsTyped, DocsOK
<1> SUFFICES ASSUME NEW f \in seen,
                    \E cited \in CitedAs(f) : cited.status = "linked",
                    Report[f] \notin torn,
                    \A g \in SameReport(seen, f) : flags[g] # "withdrawn"
             PROVE  /\ Verified(f)
                    /\ HistoryLatest(f) \in HistoryChain(f)
                    /\ {g \in HistoryChain(f) : row[g].isLatest} \subseteq {HistoryLatest(f)}
  BY DEF HistoryAnswersLinks
<1>2. Evidence(f, seen, flags)
  <2>1. CASE row[f].status = "linked"
    BY <1>1, <2>1 DEF LinksHaveEvidence
  <2>2. CASE f \in Kept(documents) /\ KeptRow(f).status = "linked"
    <3> DEFINE i == CHOOSE k \in DOMAIN documents : documents[k].filing = f
    <3>1. i \in DOMAIN documents /\ documents[i].filing = f
      BY <2>2 DEF Kept
    <3>2. documents[i].row.status = "linked"
      BY <2>2 DEF KeptRow
    <3> HIDE DEF i
    <3>3. documents[i] \in Copies(seen, flags)
      BY <1>1, <3>1
    <3> QED BY <3>1, <3>2, <3>3 DEF Copies
  <2> QED BY <2>1, <2>2 DEF CitedAs
<1>3. Links(f, seen, flags)
  BY <1>1, <1>2, EvidenceLinks
<1> DEFINE p == Pred(f, seen, flags)
           C == Chain(f, seen, flags)
           newest == Max(C)
<1>4. /\ p \in seen /\ p < f /\ f \in Filings
      /\ RootOf(seen, flags)[f] = RootOf(seen, flags)[p]
  BY <1>1, <1>3, PredecessorFacts, LinksAreRooted
<1>5. ASSUME NEW g \in seen, Report[g] = Report[f]
      PROVE  row[g] = Derived(g, seen, flags) /\ row[g].root = RootOf(seen, flags)[g]
  BY <1>1, <1>5, DerivedFacts
<1>6. HistoryChain(f) = C
  <2>1. ASSUME NEW g \in seen, row[g].root = row[f].root
        PROVE  g \in C
    <3>1. Report[g] = Report[f]
      BY <1>1, <2>1 DEF RootsAreOfTheReport
    <3> QED BY <1>5, <2>1, <3>1 DEF Chain
  <2>2. ASSUME NEW g \in seen, RootOf(seen, flags)[g] = RootOf(seen, flags)[f]
        PROVE  row[g].root = row[f].root
    <3>1. Report[g] = Report[f]
      BY <1>1, <2>2, RootOfFacts
    <3> QED BY <1>5, <2>2, <3>1
  <2> QED BY <2>1, <2>2 DEF HistoryChain, Chain
<1>7. /\ C \in SUBSET Filings /\ f \in C /\ p \in C /\ f # p
      /\ \A g \in C : g \in seen /\ Report[g] = Report[f] /\ Chain(g, seen, flags) = C
  <2>1. ASSUME NEW g \in C
        PROVE  g \in seen /\ Report[g] = Report[f] /\ Chain(g, seen, flags) = C
    <3>1. g \in seen /\ RootOf(seen, flags)[g] = RootOf(seen, flags)[f]
      BY DEF Chain
    <3>2. Report[g] = Report[f]
      BY <1>1, <3>1, RootOfFacts
    <3> QED BY <3>1, <3>2 DEF Chain
  <2>2. f # p
    BY <1>1, <1>4 DEF Filings
  <2>3. f \in C /\ p \in C /\ C \in SUBSET Filings
    BY <1>1, <1>4 DEF Chain
  <2> QED BY <2>1, <2>2, <2>3
<1>8. Verified(f)
  <2>1. Cardinality(C) > 1
    <3> HIDE DEF C, p
    <3> QED BY <1>7, TwoAtLeast
  <2>2. row[f].status = "linked"
    BY <1>1, <1>3, <1>5, DerivedFacts
  <2> QED BY <1>6, <1>7, <2>1, <2>2 DEF Verified
<1>9. newest \in C /\ newest \in Filings
  BY <1>1, <1>7, NewestOfChain DEF Greatest
<1>10. ASSUME NEW g \in C
       PROVE  row[g].latest = newest /\ (row[g].isLatest => g = newest)
  <2>1. row[g] = Derived(g, seen, flags) /\ Chain(g, seen, flags) = C
    BY <1>5, <1>7
  <2>2. row[g].latest = Max(Chain(g, seen, flags))
        /\ row[g].isLatest = (g = Max(Chain(g, seen, flags)) /\ flags[g] = "none")
    BY <2>1 DEF Derived
  <2> QED BY <2>1, <2>2
<1>11. HistoryLatest(f) = newest
  <2>1. {row[g].latest : g \in HistoryChain(f)} = {newest}
    BY <1>6, <1>7, <1>10
  <2>2. {newest} \in SUBSET (0..NumFilings) /\ {newest} # {}
    BY <1>9, SourceAssumption DEF Filings
  <2>3. Max({newest}) = newest
    <3> HIDE DEF newest
    <3> QED BY <2>2, GreatestOne, SourceAssumption
  <2> QED BY <2>1, <2>3 DEF HistoryLatest
<1> QED BY <1>6, <1>8, <1>9, <1>10, <1>11

(* A citation that says linked, taken from a row or from the copy of one kept   *)
(* with a document, has a verified history with one latest filing in it, unless *)
(* a filing of the report was withdrawn or its last listing was interrupted     *)
(* (opendart.py:2055-2121).                                                     *)
THEOREM HistoriesAnswerLinks == Spec => []HistoryAnswersLinks
<1> QED BY HistoryFollows, SourceInvInit, SourceInvNext, PTL DEF Spec

LEMMA StepGrows ==
  ASSUME SourceInv, [Next]_vars
  PROVE  seen \subseteq seen' /\ \A f \in Filings : flags[f] # "none" => flags'[f] # "none"
<1>1. FilingsTyped /\ MarksAreKept
  BY DEF SourceInv, FilingInv
<1>2. ASSUME NEW found \in Found, Listed(found), UNCHANGED upstreamVars
      PROVE  seen \subseteq seen' /\ \A f \in Filings : flags[f] # "none" => flags'[f] # "none"
  BY <1>1, <1>2, ListedFacts
<1>3. ASSUME UNCHANGED filingVars
      PROVE  seen \subseteq seen' /\ \A f \in Filings : flags[f] # "none" => flags'[f] # "none"
  BY <1>3 DEF filingVars
<1>4. ASSUME NEW f \in Published, Metadata(f), UNCHANGED upstreamVars
      PROVE  seen \subseteq seen' /\ \A g \in Filings : flags[g] # "none" => flags'[g] # "none"
  <2>1. CASE f \in seen
    BY <1>3, <1>4, <2>1 DEF Metadata
  <2>2. CASE f \notin seen
    <3>1. {f} \in Found /\ Listed({f})
      BY <1>4, <2>2 DEF Metadata, Ingest, Found
    <3> QED BY <1>2, <1>4, <3>1
  <2> QED BY <2>1, <2>2
<1> QED BY <1>2, <1>3, <1>4
        DEF Next, vars, Publish, MarkCorrected, MarkWithdrawn, ListFilings, ListingBreaks, SearchChunks,
            ReadSection, GetHistory, Ingest, upstreamVars

LEMMA LinksStay ==
  ASSUME SourceInv, SourceInv', [Next]_vars
  PROVE  [\A f \in seen :
            /\ row[f].status = "linked"
            /\ Report[f] \notin torn \cup torn'
            /\ \A g \in SameReport(seen', f) : flags'[g] # "withdrawn"
            => row'[f].status = "linked"]_vars
<1> SUFFICES ASSUME NEW f \in seen, row[f].status = "linked", Report[f] \notin torn',
                    \A g \in SameReport(seen', f) : flags'[g] # "withdrawn"
             PROVE  row'[f].status = "linked"
  OBVIOUS
<1>1. /\ FilingInv' /\ LinksHaveEvidence /\ seen \in SUBSET Filings
      /\ seen \subseteq seen' /\ \A g \in Filings : flags[g] # "none" => flags'[g] # "none"
  BY SeenAreFilings, StepGrows DEF SourceInv, FilingInv
<1>2. seen' \in SUBSET Filings /\ flags' \in [Filings -> Marks]
  <2>1. filed' \in Nat /\ filed' <= NumFilings /\ seen' \subseteq 1..filed' /\ flags' \in [Filings -> Marks]
    BY <1>1, SourceAssumption DEF FilingInv, FilingsTyped
  <2>2. 1..filed' \subseteq 1..NumFilings
    BY <2>1, SourceAssumption
  <2> QED BY <2>1, <2>2 DEF Filings
<1>3. Evidence(f, seen', flags')
  <2>1. Evidence(f, seen, flags)
    BY <1>1 DEF LinksHaveEvidence
  <2> QED BY <1>1, <2>1, EvidenceGrows
<1>4. Links(f, seen', flags')
  BY <1>1, <1>2, <1>3, EvidenceLinks
<1>5. row'[f] = Derived(f, seen', flags')
  BY <1>1, FollowsIsDerivedNext DEF FilingInv
<1> QED BY <1>1, <1>2, <1>4, <1>5, DerivedFacts

(* More knowledge never undoes a link: only a withdrawal or an interrupted      *)
(* listing of the report does (opendart.py:1330-1346).                          *)
THEOREM LinksOnceFoundPersist == Spec => LinksPersist
<1> QED BY LinksStay, SourceInvInit, SourceInvNext, PTL DEF Spec, LinksPersist
===============================================================================
