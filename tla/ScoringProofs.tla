--------------------------- MODULE ScoringProofs ---------------------------
(***************************************************************************)
(* Theorems about the score of Analysis: for any rules, severities and     *)
(* decay, a finding more never lowers it; and with a decay as steep as the *)
(* code's, no number of weak findings is enough for the highest level.     *)
(***************************************************************************)
EXTENDS AnalysisProofs

-----------------------------------------------------------------------------
(* What a finding leaves of more, and what a weaker one leaves.            *)

\* A share grows with the number, and by no more than the number does.
LEMMA ShareGrows ==
  ASSUME NEW a \in Nat, NEW b \in Nat, a <= b, NEW n \in Nat \ {0}, NEW w \in 0..n
  PROVE  /\ (a * w) \div n <= (b * w) \div n
         /\ (b * w) \div n - (a * w) \div n <= b - a
<1> DEFINE p == (a * w) \div n
           q == (b * w) \div n
<1>1. p \in Int /\ n * p <= a * w /\ a * w < n * p + n
  <2>1. a * w \in Nat
    OBVIOUS
  <2> QED
    BY <2>1
<1>2. q \in Int /\ n * q <= b * w /\ b * w < n * q + n
  <2>1. b * w \in Nat
    OBVIOUS
  <2> QED
    BY <2>1
<1>3. PICK c \in Nat : b = a + c
  <2>1. b - a \in Nat /\ b = a + (b - a)
    OBVIOUS
  <2> QED
    BY <2>1
<1>4. PICK v \in Nat : n = w + v
  <2>1. n - w \in Nat /\ n = w + (n - w)
    OBVIOUS
  <2> QED
    BY <2>1
<1>5. b * w = a * w + c * w /\ c * w \in Nat
  BY <1>3
<1>6. c * w <= n * c
  <2>1. n * c = c * w + c * v /\ c * v \in Nat
    BY <1>4
  <2> QED
    BY <1>5, <2>1
<1>7. n * p \in Int /\ n * q \in Int /\ n * c \in Int /\ a * w \in Nat /\ b * w \in Nat
  BY <1>1, <1>2
<1> HIDE DEF p, q
<1>8. p <= q
  <2> SUFFICES ASSUME q + 1 <= p PROVE FALSE
    BY <1>1, <1>2
  <2>1. n * q + n <= n * p
    <3>1. PICK e \in Nat : p = q + 1 + e
      <4>1. p - (q + 1) \in Nat /\ p = q + 1 + (p - (q + 1))
        BY <1>1, <1>2
      <4> QED
        BY <4>1
    <3>2. n * p = n * q + n + n * e /\ n * e \in Nat
      BY <1>2, <3>1
    <3> QED
      BY <1>7, <3>2
  <2> QED
    BY <1>1, <1>2, <1>5, <1>7, <2>1
<1>9. q <= p + c
  <2> SUFFICES ASSUME p + c + 1 <= q PROVE FALSE
    BY <1>1, <1>2
  <2>1. n * p + n * c + n <= n * q
    <3>1. PICK e \in Nat : q = p + c + 1 + e
      <4>1. q - (p + c + 1) \in Nat /\ q = p + c + 1 + (q - (p + c + 1))
        BY <1>1, <1>2
      <4> QED
        BY <4>1
    <3>2. n * q = n * p + n * c + n + n * e /\ n * e \in Nat
      BY <1>1, <3>1
    <3> QED
      BY <1>7, <3>2
  <2> QED
    BY <1>1, <1>2, <1>5, <1>6, <1>7, <2>1
<1>10. q - p <= b - a
  BY <1>1, <1>2, <1>3, <1>9
<1> QED
  BY <1>8, <1>10 DEF p, q

LEMMA FullIsNat == Full \in Nat
BY DEF Full

LEMMA PartsCompare ==
  /\ Full \in 0..Full
  /\ \A x, y \in 0..Full : x \in Int /\ y \in Int /\ x <= x /\ (x <= y => y \in x..Full)
<1>1. Full \in Nat
  BY FullIsNat
<1>2. Full \in 0..Full
  BY <1>1
<1>3. ASSUME NEW x \in 0..Full, NEW y \in 0..Full
      PROVE  x \in Int /\ y \in Int /\ x <= x /\ (x <= y => y \in x..Full)
  BY <1>1
<1> QED
  BY <1>2, <1>3

LEMMA LessIsTransitive ==
  ASSUME NEW x \in Int, NEW y \in Int, NEW z \in Int, x <= y, y <= z
  PROVE  x <= z
OBVIOUS

LEMMA DecayIsNat ==
  ASSUME NEW d \in 0..DecayUnit
  PROVE  d \in Nat
BY DEF DecayUnit

\* The more there was and the weaker the finding, the more it leaves.
LEMMA RemainsGrows ==
  ASSUME NEW x \in 0..Full, NEW y \in x..Full, NEW s \in 0..100, NEW t \in 0..s,
         NEW r \in 0..Cardinality(Findings)
  PROVE  Remains(x, s, r) <= Remains(y, t, r)
<1> DEFINE fx == (x * s) \div 100
           fm == (y * s) \div 100
           fy == (y * t) \div 100
<1>1. x \in Nat /\ y \in Nat /\ x <= y /\ s \in Nat /\ t \in Nat /\ t <= s /\ s <= 100
      /\ 100 \in Nat \ {0} /\ DecayUnit \in Nat \ {0}
  BY DEF Full, DecayUnit
<1>2. Decay[r] \in 0..DecayUnit /\ Decay[r] \in Nat
  <2>1. Decay[r] \in 0..DecayUnit
    BY DecayAssumption, Zenon
  <2> QED
    BY <2>1, DecayIsNat, Zenon
<1>3. fx \in Nat /\ fm \in Nat /\ fy \in Nat /\ fm - fx <= y - x
  <2>1. fx \in 0..x /\ fm \in 0..y
    BY <1>1, ShareWithin, Zenon
  <2>2. t \in 0..100
    BY <1>1
  <2>3. fy \in 0..y
    BY <1>1, <2>2, ShareWithin, Zenon
  <2>4. fm - fx <= y - x
    BY <1>1, ShareGrows, Zenon
  <2> QED
    BY <1>1, <2>1, <2>3, <2>4
<1>4. fx <= fm
  BY <1>1, ShareGrows, Zenon
<1>5. fy <= fm
  <2>1. y * t <= y * s
    <3>1. PICK e \in Nat : s = t + e
      <4>1. s - t \in Nat /\ s = t + (s - t)
        BY <1>1
      <4> QED
        BY <4>1
    <3>2. y * s = y * t + y * e /\ y * e \in Nat /\ y * t \in Nat
      BY <1>1, <3>1
    <3> QED
      BY <3>2
  <2>2. y * t \in Nat /\ y * s \in Nat
    BY <1>1
  <2> DEFINE yt == y * t
             ys == y * s
  <2>3. yt \in Nat /\ ys \in Nat /\ yt <= ys
    BY <2>1, <2>2
  <2> HIDE DEF yt, ys
  <2>4. yt \div 100 <= ys \div 100
    BY <2>3
  <2> QED
    BY <2>4 DEF yt, ys
<1> DEFINE px == (fx * Decay[r]) \div DecayUnit
           pm == (fm * Decay[r]) \div DecayUnit
           py == (fy * Decay[r]) \div DecayUnit
<1>6. Remains(x, s, r) = x - px /\ Remains(y, t, r) = y - py
  BY DEF Remains
<1> HIDE DEF fx, fm, fy
<1>7. px \in 0..fx /\ pm \in 0..fm /\ py \in 0..fy
  BY <1>1, <1>2, <1>3, ShareWithin, Zenon
<1>8. pm - px <= fm - fx
  BY <1>1, <1>2, <1>3, <1>4, ShareGrows, Zenon
<1>9. py <= pm
  BY <1>1, <1>2, <1>3, <1>5, ShareGrows, Zenon
<1>10. px \in Nat /\ pm \in Nat /\ py \in Nat
  BY <1>3, <1>7
<1> HIDE DEF px, pm, py
<1> QED
  BY <1>1, <1>3, <1>6, <1>8, <1>9, <1>10

-----------------------------------------------------------------------------
(* The order of the findings, and the recursion over it.                   *)

Last(S, f) == f \in S /\ \A g \in S : Before(g, f)

LEMMA BeforeIsOrder ==
  ASSUME NEW f \in Findings, NEW g \in Findings, NEW h \in Findings
  PROVE  /\ Before(f, f)
         /\ Before(f, g) \/ Before(g, f)
         /\ Before(f, g) /\ Before(g, f) => f = g
         /\ Before(f, g) /\ Before(g, h) => Before(f, h)
         /\ Before(f, g) => Severity[g] \in 0..Severity[f]
<1> DEFINE sf == Severity[f]
           sg == Severity[g]
           sh == Severity[h]
<1>1. f \in Nat /\ g \in Nat /\ h \in Nat /\ sf \in 0..100 /\ sg \in 0..100 /\ sh \in 0..100
  BY SeverityInRange, Zenon
<1>2. /\ Before(f, f) <=> (sf > sf \/ (sf = sf /\ f <= f))
      /\ Before(f, g) <=> (sf > sg \/ (sf = sg /\ f <= g))
      /\ Before(g, f) <=> (sg > sf \/ (sg = sf /\ g <= f))
      /\ Before(g, h) <=> (sg > sh \/ (sg = sh /\ g <= h))
      /\ Before(f, h) <=> (sf > sh \/ (sf = sh /\ f <= h))
  BY Zenon DEF Before
<1> HIDE DEF sf, sg, sh
<1>3. /\ Before(f, f)
      /\ Before(f, g) \/ Before(g, f)
      /\ Before(f, g) /\ Before(g, f) => f = g
      /\ Before(f, g) /\ Before(g, h) => Before(f, h)
      /\ Before(f, g) => sg \in 0..sf
  BY <1>1, <1>2
<1> QED
  BY <1>3 DEF sf, sg

LEMMA FindingsFinite ==
  ASSUME NEW S \in SUBSET Findings
  PROVE  IsFiniteSet(S) /\ Cardinality(S) \in Nat /\ Cardinality(S) <= Cardinality(Findings)
BY FindingsAssumption, FS_Subset, FS_CardinalityType

LEMMA LastExists == \A S \in SUBSET Findings : S # {} => \E f : Last(S, f)
<1> DEFINE Sizes == {n \in Nat : \E S \in SUBSET Findings :
                       /\ S # {} /\ Cardinality(S) = n /\ ~ \E f : Last(S, f)}
<1>1. ASSUME Sizes # {} PROVE FALSE
  <2>1. PICK n \in Sizes : \A m \in Sizes : n <= m
    <3>1. Sizes \in SUBSET Nat
      OBVIOUS
    <3> QED
      BY <1>1, <3>1, LeastMember
  <2>2. PICK S \in SUBSET Findings : S # {} /\ Cardinality(S) = n /\ ~ \E f : Last(S, f)
    BY <2>1
  <2>3. PICK x \in S : TRUE
    BY <2>2
  <2> DEFINE T == S \ {x}
  <2>4. T \in SUBSET Findings /\ Cardinality(T) = n - 1 /\ n - 1 \in Nat
    <3>1. IsFiniteSet(S) /\ Cardinality(S) = n /\ n \in Nat
      BY <2>2, FindingsFinite
    <3>2. Cardinality(T) = n - 1
      BY <2>3, <3>1, FS_RemoveElement
    <3>3. n # 0
      BY <2>2, <3>1, FS_EmptySet
    <3> QED
      BY <3>1, <3>2, <3>3
  <2>5. n - 1 \notin Sizes
    BY <2>1, <2>4
  <2>6. T # {} => \E f : Last(T, f)
    BY <2>4, <2>5
  <2>7. CASE T = {}
    <3>1. Last(S, x)
      BY <2>2, <2>3, <2>7, BeforeIsOrder DEF Last
    <3> QED
      BY <2>2, <3>1
  <2>8. CASE T # {}
    <3>1. PICK y : Last(T, y)
      BY <2>6, <2>8
    <3>2. y \in Findings /\ x \in Findings /\ y \in S /\ \A g \in T : g \in Findings /\ Before(g, y)
      BY <2>2, <2>3, <3>1 DEF Last
    <3>3. CASE Before(x, y)
      <4>1. Last(S, y)
        BY <3>2, <3>3 DEF Last
      <4> QED
        BY <2>2, <4>1
    <3>4. CASE Before(y, x)
      <4>1. \A g \in T : Before(g, x)
        BY <3>2, <3>4, BeforeIsOrder
      <4>2. Last(S, x)
        BY <2>3, <3>2, <4>1, BeforeIsOrder DEF Last
      <4> QED
        BY <2>2, <4>2
    <3> QED
      BY <3>2, <3>3, <3>4, BeforeIsOrder
  <2> QED
    BY <2>7, <2>8
<1>2. \A S \in SUBSET Findings : Cardinality(S) \in Nat
  BY FindingsFinite
<1> QED
  BY <1>1, <1>2

LEMMA LastIsLast ==
  ASSUME NEW S \in SUBSET Findings, S # {}
  PROVE  Last(S, LastOf(S)) /\ LastOf(S) \in S
<1>1. \E f \in S : \A g \in S : Before(g, f)
  BY LastExists DEF Last
<1>2. LastOf(S) \in S /\ \A g \in S : Before(g, LastOf(S))
  BY <1>1, Zenon DEF LastOf
<1> QED
  BY <1>2 DEF Last

LEMMA OneLast ==
  ASSUME NEW S \in SUBSET Findings, NEW f, Last(S, f)
  PROVE  LastOf(S) = f
<1>1. S # {} /\ f \in S
  BY DEF Last
<1>2. Last(S, LastOf(S)) /\ LastOf(S) \in S
  BY <1>1, LastIsLast
<1> QED
  BY <1>1, <1>2, BeforeIsOrder DEF Last

\* The recursion of LeftBy, over the sets of up to n findings.
WhatIsLeft(at, S) ==
  IF S = {} THEN Full
  ELSE Remains(at[S \ {LastOf(S)}], Severity[LastOf(S)], Cardinality(S) - 1)

UpTo(n) == {S \in SUBSET Findings : Cardinality(S) <= n}

Settles(at, n) == at = [S \in UpTo(n) |-> WhatIsLeft(at, S)]

LEMMA SmallerByOne ==
  ASSUME NEW n \in Nat, NEW S \in UpTo(n + 1), S # {}
  PROVE  S \ {LastOf(S)} \in UpTo(n) /\ n \in Nat
<1>1. S \in SUBSET Findings /\ Cardinality(S) <= n + 1
  BY DEF UpTo
<1>2. LastOf(S) \in S
  BY <1>1, LastIsLast
<1>3. IsFiniteSet(S) /\ Cardinality(S) \in Nat
  BY <1>1, FindingsFinite
<1>4. Cardinality(S \ {LastOf(S)}) = Cardinality(S) - 1
  BY <1>2, <1>3, FS_RemoveElement
<1> QED
  BY <1>1, <1>3, <1>4 DEF UpTo

LEMMA SettlingExtends ==
  ASSUME NEW n \in Nat, NEW at, Settles(at, n)
  PROVE  \E larger : Settles(larger, n + 1)
<1> DEFINE larger == [S \in UpTo(n + 1) |-> IF S \in UpTo(n) THEN at[S] ELSE WhatIsLeft(at, S)]
<1>1. \A S \in UpTo(n) : S \in UpTo(n + 1)
  BY FindingsFinite DEF UpTo
<1>2. \A S \in UpTo(n) : larger[S] = at[S] /\ at[S] = WhatIsLeft(at, S)
  BY <1>1 DEF Settles
<1>3. /\ \A S \in UpTo(n + 1) : larger[S] = WhatIsLeft(at, S)
      /\ larger = [S \in UpTo(n + 1) |-> larger[S]]
  BY <1>2
<1> HIDE DEF larger
<1>4. \A S \in UpTo(n + 1) : WhatIsLeft(larger, S) = WhatIsLeft(at, S)
  <2> SUFFICES ASSUME NEW S \in UpTo(n + 1)
               PROVE  WhatIsLeft(larger, S) = WhatIsLeft(at, S)
    OBVIOUS
  <2>1. CASE S = {}
    BY <2>1 DEF WhatIsLeft
  <2>2. CASE S # {}
    <3>1. S \ {LastOf(S)} \in UpTo(n)
      BY <2>2, SmallerByOne
    <3>2. larger[S \ {LastOf(S)}] = at[S \ {LastOf(S)}]
      BY <1>2, <3>1
    <3> QED
      BY <2>2, <3>2, Zenon DEF WhatIsLeft
  <2> QED
    BY <2>1, <2>2
<1>5. larger = [S \in UpTo(n + 1) |-> WhatIsLeft(larger, S)]
  BY <1>3, <1>4
<1> QED
  BY <1>5 DEF Settles

LEMMA SettlingExists == \A n \in Nat : \E at : Settles(at, n)
<1> DEFINE Unsettled == {n \in Nat : ~ \E at : Settles(at, n)}
<1> SUFFICES ASSUME Unsettled # {} PROVE FALSE
  OBVIOUS
<1>1. PICK n \in Unsettled : \A m \in Unsettled : n <= m
  BY LeastMember
<1>2. CASE n = 0
  <2>1. \A S \in UpTo(0) : S = {}
    BY FindingsFinite, FS_EmptySet DEF UpTo
  <2> DEFINE at == [S \in UpTo(0) |-> Full]
  <2>2. \A S \in UpTo(0) : WhatIsLeft(at, S) = Full
    BY <2>1 DEF WhatIsLeft
  <2>3. Settles(at, 0)
    BY <2>2 DEF Settles
  <2> QED
    BY <1>2, <2>3
<1>3. CASE n # 0
  <2>1. n - 1 \in Nat /\ n - 1 \notin Unsettled /\ (n - 1) + 1 = n
    BY <1>1, <1>3
  <2> QED
    BY <2>1, SettlingExtends
<1> QED
  BY <1>2, <1>3

LEMMA LeftByUnfolds == \A S \in SUBSET Findings : LeftBy[S] = WhatIsLeft(LeftBy, S)
<1>1. UpTo(Cardinality(Findings)) = SUBSET Findings /\ Cardinality(Findings) \in Nat
  BY FindingsFinite DEF UpTo
<1>2. \E at : at = [S \in SUBSET Findings |-> WhatIsLeft(at, S)]
  BY <1>1, SettlingExists DEF Settles
<1>3. LeftBy = CHOOSE at : at = [S \in SUBSET Findings |-> WhatIsLeft(at, S)]
  BY DEF LeftBy, WhatIsLeft
<1>4. LeftBy = [S \in SUBSET Findings |-> WhatIsLeft(LeftBy, S)]
  BY <1>2, <1>3, Zenon
<1> QED
  BY <1>4

LEMMA LeftByLast ==
  ASSUME NEW S \in SUBSET Findings, NEW f, Last(S, f)
  PROVE  /\ S \ {f} \in SUBSET Findings /\ f \in Findings
         /\ Cardinality(S \ {f}) = Cardinality(S) - 1 /\ Cardinality(S) \in Nat
         /\ Cardinality(S) - 1 \in 0..Cardinality(Findings)
         /\ LeftBy[S] = Remains(LeftBy[S \ {f}], Severity[f], Cardinality(S) - 1)
<1>1. f \in S /\ LastOf(S) = f
  BY OneLast DEF Last
<1>2. IsFiniteSet(S) /\ Cardinality(S) \in Nat /\ Cardinality(S) <= Cardinality(Findings)
      /\ Cardinality(Findings) \in Nat
  BY FindingsFinite
<1>3. Cardinality(S \ {f}) = Cardinality(S) - 1 /\ Cardinality(S) # 0
  BY <1>1, <1>2, FS_RemoveElement, FS_EmptySet
<1>4. LeftBy[S] = Remains(LeftBy[S \ {f}], Severity[f], Cardinality(S) - 1)
  <2>1. LeftBy[S] = WhatIsLeft(LeftBy, S)
    BY LeftByUnfolds
  <2>2. S # {}
    BY <1>1
  <2> QED
    BY <1>1, <2>1, <2>2, Zenon DEF WhatIsLeft
<1> QED
  BY <1>1, <1>2, <1>3, <1>4

LEMMA LeftByNone == LeftBy[{}] = Full
BY LeftByUnfolds DEF WhatIsLeft

LEMMA LeftByWithin == \A S \in SUBSET Findings : LeftBy[S] \in 0..Full
<1> DEFINE Sizes == {n \in Nat : \E S \in SUBSET Findings :
                       Cardinality(S) = n /\ LeftBy[S] \notin 0..Full}
<1>1. ASSUME Sizes # {} PROVE FALSE
  <2>1. PICK n \in Sizes : \A m \in Sizes : n <= m
    <3>1. Sizes \in SUBSET Nat
      OBVIOUS
    <3> QED
      BY <1>1, <3>1, LeastMember
  <2>2. PICK S \in SUBSET Findings : Cardinality(S) = n /\ LeftBy[S] \notin 0..Full
    BY <2>1
  <2>3. S # {}
    BY <2>2, LeftByNone, PartsCompare
  <2>4. PICK f : Last(S, f)
    BY <2>3, LastExists
  <2> DEFINE T == S \ {f}
  <2>5. /\ T \in SUBSET Findings /\ f \in Findings
        /\ Cardinality(T) = Cardinality(S) - 1 /\ Cardinality(S) \in Nat
        /\ Cardinality(S) - 1 \in 0..Cardinality(Findings)
        /\ LeftBy[S] = Remains(LeftBy[T], Severity[f], Cardinality(S) - 1)
    BY <2>4, LeftByLast
  <2> HIDE DEF T
  <2>6. LeftBy[T] \in 0..Full
    <3>1. Cardinality(T) = n - 1 /\ n - 1 \in Nat /\ n - 1 \notin Sizes
      BY <2>1, <2>2, <2>5
    <3> QED
      BY <2>5, <3>1
  <2>7. LeftBy[S] \in 0..LeftBy[T]
    <3>1. Severity[f] \in 0..100
      BY <2>5, SeverityInRange
    <3> QED
      BY <2>5, <2>6, <3>1, RemainsLess, Zenon
  <2>8. LeftBy[S] \in 0..Full
    BY <2>6, <2>7, WithinFull, Zenon
  <2> QED
    BY <2>2, <2>8
<1>2. \A S \in SUBSET Findings : Cardinality(S) \in Nat
  BY FindingsFinite
<1> QED
  BY <1>1, <1>2

-----------------------------------------------------------------------------
(* More evidence, less left.                                               *)

\* In the place of a finding, one that comes later in the order leaves no less.
LEMMA SwapLast ==
  ASSUME NEW A \in SUBSET Findings, NEW B \in SUBSET Findings, NEW a, NEW b,
         Last(A, a), Last(B, b), Cardinality(A) = Cardinality(B), Before(a, b),
         LeftBy[A \ {a}] <= LeftBy[B \ {b}]
  PROVE  LeftBy[A] <= LeftBy[B]
<1> DEFINE x == LeftBy[A \ {a}]
           y == LeftBy[B \ {b}]
           r == Cardinality(A) - 1
<1>1. /\ A \ {a} \in SUBSET Findings /\ B \ {b} \in SUBSET Findings
      /\ a \in Findings /\ b \in Findings /\ r \in 0..Cardinality(Findings)
      /\ LeftBy[A] = Remains(x, Severity[a], r) /\ LeftBy[B] = Remains(y, Severity[b], r)
  BY LeftByLast
<1>2. x \in 0..Full /\ y \in 0..Full
  BY <1>1, LeftByWithin
<1>3. x <= y
  OBVIOUS
<1> HIDE DEF x, y, r
<1>4. y \in x..Full
  BY <1>2, <1>3, PartsCompare, Zenon
<1>5. Severity[a] \in 0..100 /\ Severity[b] \in 0..Severity[a]
  BY <1>1, SeverityInRange, BeforeIsOrder
<1> QED
  BY <1>1, <1>2, <1>4, <1>5, RemainsGrows, Zenon

Swappable(U, f, g) ==
  /\ f \in Findings \ U /\ g \in Findings \ U /\ Before(f, g)
  /\ ~(LeftBy[U \cup {f}] <= LeftBy[U \cup {g}])

LEMMA SwapStep ==
  ASSUME NEW U \in SUBSET Findings, NEW f, NEW g, Swappable(U, f, g)
  PROVE  \E W \in SUBSET Findings : \E h \in U : W = U \ {h} /\ \E k : Swappable(W, f, k)
<1> DEFINE A == U \cup {f}
           B == U \cup {g}
<1>1. /\ f \in Findings /\ g \in Findings /\ f \notin U /\ g \notin U /\ Before(f, g)
      /\ A \in SUBSET Findings /\ B \in SUBSET Findings /\ ~(LeftBy[A] <= LeftBy[B])
  BY DEF Swappable
<1>2. Cardinality(A) = Cardinality(B)
  BY <1>1, FindingsFinite, FS_AddElement
<1>3. PICK a : Last(A, a)
  BY <1>1, LastExists
<1>4. PICK b : Last(B, b)
  BY <1>1, LastExists
<1>5. a \in A /\ b \in B /\ (\A h \in A : Before(h, a)) /\ (\A h \in B : Before(h, b))
  BY <1>3, <1>4 DEF Last
<1>6. Before(a, b)
  BY <1>1, <1>5, BeforeIsOrder
<1>7. ~(LeftBy[A \ {a}] <= LeftBy[B \ {b}])
  BY <1>1, <1>2, <1>3, <1>4, <1>6, SwapLast
<1>8. a # f
  <2> SUFFICES ASSUME a = f PROVE FALSE
    OBVIOUS
  <2>1. b = g
    <3>1. \A h \in U : Before(h, f) /\ h \in Findings
      BY <1>1, <1>5
    <3>2. b \in U => Before(g, b) /\ Before(b, f) /\ b \in Findings
      BY <1>1, <1>5, <3>1
    <3>3. b \in U => b = f
      BY <1>1, <3>2, BeforeIsOrder
    <3> QED
      BY <1>1, <1>5, <3>3
  <2>2. A \ {a} = U /\ B \ {b} = U
    BY <1>1, <2>1
  <2>3. LeftBy[U] \in 0..Full
    BY LeftByWithin
  <2> QED
    BY <1>7, <2>2, <2>3, PartsCompare, Zenon
<1>9. a \in U /\ a \in Findings
  BY <1>1, <1>5, <1>8
<1> DEFINE W == U \ {a}
<1>10. W \in SUBSET Findings /\ A \ {a} = W \cup {f} /\ f \notin W
  BY <1>1, <1>8, <1>9
<1>11. CASE b = g
  <2>1. B \ {b} = W \cup {a} /\ a \notin W
    BY <1>1, <1>9, <1>11
  <2>2. Swappable(W, f, a)
    BY <1>1, <1>5, <1>7, <1>9, <1>10, <2>1 DEF Swappable
  <2> QED
    BY <1>9, <1>10, <2>2
<1>12. CASE b # g
  <2>1. b \in U /\ b \in Findings
    BY <1>1, <1>5, <1>12
  <2>2. b = a
    <3>1. Before(b, a)
      BY <1>5, <2>1
    <3> QED
      BY <1>6, <1>9, <2>1, <3>1, BeforeIsOrder
  <2>3. B \ {b} = W \cup {g} /\ g \notin W
    BY <1>1, <1>12, <2>2
  <2>4. Swappable(W, f, g)
    BY <1>1, <1>7, <1>10, <2>3 DEF Swappable
  <2> QED
    BY <1>9, <1>10, <2>4
<1> QED
  BY <1>11, <1>12

LEMMA SwapLeavesNoLess ==
  \A U \in SUBSET Findings : \A f, g : ~Swappable(U, f, g)
<1> DEFINE Sizes == {n \in Nat : \E U \in SUBSET Findings :
                       Cardinality(U) = n /\ \E f, g : Swappable(U, f, g)}
<1>1. ASSUME Sizes # {} PROVE FALSE
  <2>1. PICK n \in Sizes : \A m \in Sizes : n <= m
    <3>1. Sizes \in SUBSET Nat
      OBVIOUS
    <3> QED
      BY <1>1, <3>1, LeastMember
  <2>2. PICK U \in SUBSET Findings : Cardinality(U) = n /\ \E f, g : Swappable(U, f, g)
    BY <2>1
  <2>3. PICK f, g : Swappable(U, f, g)
    BY <2>2
  <2>4. PICK W \in SUBSET Findings : \E h \in U : W = U \ {h} /\ \E k : Swappable(W, f, k)
    BY <2>3, SwapStep
  <2>5. PICK h \in U : W = U \ {h} /\ \E k : Swappable(W, f, k)
    BY <2>4
  <2>6. IsFiniteSet(U) /\ IsFiniteSet(W) /\ Cardinality(W) \in Nat /\ n \in Nat
    BY <2>2, FindingsFinite
  <2>7. Cardinality(W) = n - 1
    BY <2>2, <2>5, <2>6, FS_RemoveElement
  <2>8. n - 1 \in Nat /\ n - 1 \in Sizes
    BY <2>4, <2>5, <2>6, <2>7
  <2> QED
    BY <2>1, <2>6, <2>8
<1>2. \A U \in SUBSET Findings : Cardinality(U) \in Nat
  BY FindingsFinite
<1> QED
  BY <1>1, <1>2

\* The loop of score, on a set of findings: one finding fewer leaves no less.
LEMMA LeftByIsAntitone ==
  ASSUME NEW S \in SUBSET Findings, NEW f \in S
  PROVE  LeftBy[S] <= LeftBy[S \ {f}]
<1>1. PICK g : Last(S, g)
  BY LastExists
<1> DEFINE T == S \ {g}
           r == Cardinality(S) - 1
<1>2. /\ T \in SUBSET Findings /\ g \in Findings /\ r \in 0..Cardinality(Findings)
      /\ LeftBy[S] = Remains(LeftBy[T], Severity[g], r)
  BY <1>1, LeftByLast
<1>3. g \in S /\ Before(f, g) /\ f \in Findings /\ S \ {f} \in SUBSET Findings
  BY <1>1 DEF Last
<1>4. LeftBy[T] \in 0..Full /\ LeftBy[S \ {f}] \in 0..Full
  BY <1>2, <1>3, LeftByWithin
<1>5. LeftBy[S] <= LeftBy[T] /\ LeftBy[S] \in Int
  <2>1. Severity[g] \in 0..100
    BY <1>2, SeverityInRange
  <2> HIDE DEF T, r
  <2>2. LeftBy[S] \in 0..LeftBy[T]
    BY <1>2, <1>4, <2>1, RemainsLess, Zenon
  <2> QED
    BY <1>4, <2>2, WithinFull, Zenon
<1>6. CASE f = g
  BY <1>5, <1>6
<1>7. CASE f # g
  <2> DEFINE U == S \ {f, g}
  <2>1. /\ U \in SUBSET Findings /\ f \in Findings \ U /\ g \in Findings \ U
        /\ T = U \cup {f} /\ S \ {f} = U \cup {g}
    BY <1>3, <1>7
  <2>2. LeftBy[T] <= LeftBy[S \ {f}]
    BY <1>3, <2>1, SwapLeavesNoLess DEF Swappable
  <2> QED
    <3>1. LeftBy[T] \in Int /\ LeftBy[S \ {f}] \in Int
      BY <1>4, PartsCompare, Zenon
    <3> QED
      BY <1>5, <2>2, <3>1, LessIsTransitive, Zenon
<1> QED
  BY <1>6, <1>7

-----------------------------------------------------------------------------
(* The verdict.                                                            *)

\* What is left is what the findings weighed so far leave, and they come before the others.
WeighedInv ==
  /\ phase # "judged" => level = "none"
  /\ phase \in {"weights", "judged"} =>
       /\ remaining = LeftBy[fired \ left] /\ rank = Cardinality(fired \ left)
       /\ \A f \in fired \ left, g \in left : Before(f, g)

LEMMA WeighingSettles == VerdictInv /\ WeighedInv /\ Weighing => WeighedInv'
<1> SUFFICES ASSUME VerdictInv, WeighedInv, phase = "weights",
                    NEW f \in left, \A g \in left : Before(f, g),
                    remaining' = Remains(remaining, Severity[f], rank),
                    rank' = rank + 1, left' = left \ {f},
                    UNCHANGED <<fired, level, phase>>
             PROVE  WeighedInv'
  BY DEF Weighing, Weigh
<1> DEFINE done == fired \ left
           more == fired \ left'
<1>1. /\ fired \in SUBSET Findings /\ left \subseteq fired /\ f \in fired /\ f \notin done
      /\ done \in SUBSET Findings /\ more \in SUBSET Findings /\ more = done \cup {f}
      /\ more \ {f} = done
  BY DEF VerdictInv
<1>2. /\ remaining = LeftBy[done] /\ rank = Cardinality(done)
      /\ \A g \in done, h \in left : Before(g, h)
  BY DEF WeighedInv
<1>3. Last(more, f)
  BY <1>1, <1>2, BeforeIsOrder DEF Last
<1>4. /\ Cardinality(done) = Cardinality(more) - 1 /\ Cardinality(more) \in Nat
      /\ LeftBy[more] = Remains(LeftBy[done], Severity[f], Cardinality(more) - 1)
  BY <1>1, <1>3, LeftByLast
<1>5. remaining' = LeftBy[more] /\ rank' = Cardinality(more)
  BY <1>2, <1>4
<1>6. \A g \in more, h \in left' : Before(g, h)
  BY <1>1, <1>2
<1> QED
  BY <1>5, <1>6 DEF WeighedInv

LEMMA WeighedInductive == VerdictInv /\ WeighedInv /\ [Next]_vars => WeighedInv'
<1> SUFFICES ASSUME VerdictInv, WeighedInv, [Next]_vars PROVE WeighedInv'
  OBVIOUS
<1>1. CASE Working
  BY <1>1 DEF Working, scoreVars, verdictVars, WeighedInv
<1>2. CASE Collect
  BY <1>2 DEF Collect, scoreVars, WeighedInv
<1>3. CASE RuleFires \/ RuleRaises
  BY <1>3 DEF RuleFires, RuleRaises, NextToReport, scoreVars, WeighedInv
<1>4. CASE Evaluated
  <2>1. /\ phase = "rules" /\ phase' = "weights" /\ left' = fired
        /\ UNCHANGED <<rank, remaining, level, fired>> /\ rank = 0 /\ remaining = Full
    BY <1>4 DEF Evaluated, VerdictInv
  <2>2. fired' \ left' = {}
    BY <2>1
  <2>3. remaining' = LeftBy[fired' \ left'] /\ rank' = Cardinality(fired' \ left')
    BY <2>1, <2>2, LeftByNone, FS_EmptySet
  <2> QED
    BY <2>1, <2>2, <2>3 DEF WeighedInv
<1>5. CASE Weighing
  BY <1>5, WeighingSettles
<1>6. CASE Judging
  BY <1>6 DEF Judging, Judge, WeighedInv
<1>7. CASE UNCHANGED vars
  BY <1>7 DEF vars, scoreVars, verdictVars, WeighedInv
<1> QED
  BY <1>1, <1>2, <1>3, <1>4, <1>5, <1>6, <1>7 DEF Next, Verdict

LEMMA LessLeftMorePoints ==
  ASSUME NEW x \in 0..Full, NEW y \in 0..Full, x <= y
  PROVE  Points(x) \in Int /\ Points(y) \in Int /\ Points(x) >= Points(y)
<1> DEFINE u == Full - x + 500
           v == Full - y + 500
<1>1. u \in Nat /\ v \in Nat /\ v <= u
  <2>1. Full \in Nat
    BY FullIsNat
  <2> QED
    BY <2>1
<1>2. Points(x) = u \div 1000 /\ Points(y) = v \div 1000
  BY DEF Points
<1> HIDE DEF u, v
<1>3. u \div 1000 \in Int /\ v \div 1000 \in Int /\ v \div 1000 <= u \div 1000
  BY <1>1
<1> QED
  BY <1>2, <1>3

\* A finding more never lowers the score, although it pushes the weaker ones down the ranks,
\* where they count for less (score, signatures.py): for any rules and any decay, steep or not.
THEOREM EvidenceOnlyAdds == Spec => []MoreEvidenceNeverLowers
<1>1. Init => WeighedInv
  BY DEF Init, ScoreInit, WeighedInv
<1>2. VerdictInv /\ WeighedInv => MoreEvidenceNeverLowers
  <2> SUFFICES ASSUME VerdictInv, WeighedInv, level # "none", NEW f \in fired
               PROVE  Points(remaining) >= Points(LeftBy[fired \ {f}])
    BY DEF MoreEvidenceNeverLowers
  <2>1. phase = "judged" /\ left = {} /\ fired \in SUBSET Findings
    BY DEF VerdictInv, WeighedInv
  <2>2. remaining = LeftBy[fired]
    <3>1. fired \ left = fired
      BY <2>1
    <3> QED
      BY <2>1, <3>1 DEF WeighedInv
  <2>3. LeftBy[fired] <= LeftBy[fired \ {f}]
    BY <2>1, LeftByIsAntitone
  <2>4. LeftBy[fired] \in 0..Full /\ LeftBy[fired \ {f}] \in 0..Full
    BY <2>1, LeftByWithin
  <2> QED
    BY <2>2, <2>3, <2>4, LessLeftMorePoints, Zenon
<1> QED
  BY <1>1, <1>2, VerdictInit, VerdictNext, WeighedInductive, PTL DEF Spec

-----------------------------------------------------------------------------
(* A pile of weak findings.                                                *)

\* The recursion of Pile, for up to m findings.
Heap(at, n) == IF n = 0 THEN Full ELSE Remains(at[n - 1], 40, n - 1)

Piles(at, m) == at = [n \in 0..m |-> Heap(at, n)]

LEMMA HigherPile ==
  ASSUME NEW m \in Nat, NEW at, Piles(at, m)
  PROVE  \E higher : Piles(higher, m + 1)
<1> DEFINE higher == [n \in 0..(m + 1) |-> IF n = m + 1 THEN Heap(at, m + 1) ELSE at[n]]
<1>1. \A n \in 0..m : n \in 0..(m + 1) /\ n # m + 1 /\ higher[n] = at[n] /\ at[n] = Heap(at, n)
  BY DEF Piles
<1>2. /\ \A n \in 0..(m + 1) : higher[n] = Heap(at, n)
      /\ higher = [n \in 0..(m + 1) |-> higher[n]]
  <2>1. \A n \in 0..(m + 1) : n = m + 1 \/ n \in 0..m
    OBVIOUS
  <2> QED
    BY <1>1, <2>1
<1> HIDE DEF higher
<1>3. \A n \in 0..(m + 1) : Heap(higher, n) = Heap(at, n)
  <2> SUFFICES ASSUME NEW n \in 0..(m + 1) PROVE Heap(higher, n) = Heap(at, n)
    OBVIOUS
  <2>1. CASE n = 0
    BY <2>1 DEF Heap
  <2>2. CASE n # 0
    <3>1. n - 1 \in 0..m
      BY <2>2
    <3>2. higher[n - 1] = at[n - 1]
      BY <1>1, <3>1
    <3> QED
      BY <2>2, <3>2, Zenon DEF Heap
  <2> QED
    BY <2>1, <2>2
<1>4. higher = [n \in 0..(m + 1) |-> Heap(higher, n)]
  BY <1>2, <1>3
<1> QED
  BY <1>4 DEF Piles

LEMMA PileExists == \A m \in Nat : \E at : Piles(at, m)
<1> DEFINE Missing == {m \in Nat : ~ \E at : Piles(at, m)}
<1> SUFFICES ASSUME Missing # {} PROVE FALSE
  OBVIOUS
<1>1. PICK m \in Missing : \A n \in Missing : m <= n
  BY LeastMember
<1>2. CASE m = 0
  <2> DEFINE at == [n \in 0..0 |-> Full]
  <2>1. \A n \in 0..0 : Heap(at, n) = Full
    BY DEF Heap
  <2>2. Piles(at, 0)
    BY <2>1 DEF Piles
  <2> QED
    BY <1>2, <2>2
<1>3. CASE m # 0
  <2>1. m - 1 \in Nat /\ m - 1 \notin Missing /\ (m - 1) + 1 = m
    BY <1>1, <1>3
  <2> QED
    BY <2>1, HigherPile
<1> QED
  BY <1>2, <1>3

LEMMA PileUnfolds == \A n \in 0..Cardinality(Findings) : Pile[n] = Heap(Pile, n)
<1>1. \E at : at = [n \in 0..Cardinality(Findings) |-> Heap(at, n)]
  BY FindingsFinite, PileExists DEF Piles
<1>2. Pile = CHOOSE at : at = [n \in 0..Cardinality(Findings) |-> Heap(at, n)]
  BY DEF Pile, Heap
<1>3. Pile = [n \in 0..Cardinality(Findings) |-> Heap(Pile, n)]
  BY <1>1, <1>2, Zenon
<1> QED
  BY <1>3

LEMMA PileWithin == \A n \in 0..Cardinality(Findings) : Pile[n] \in 0..Full
<1> DEFINE Wrong == {n \in 0..Cardinality(Findings) : Pile[n] \notin 0..Full}
<1> SUFFICES ASSUME Wrong # {} PROVE FALSE
  OBVIOUS
<1>1. PICK n \in Wrong : \A m \in Wrong : n <= m
  <2>1. Wrong \in SUBSET Nat
    OBVIOUS
  <2> QED
    BY <2>1, LeastMember
<1>2. Cardinality(Findings) \in Nat
  BY FindingsFinite
<1>3. n # 0
  BY <1>1, PileUnfolds, PartsCompare DEF Heap
<1>4. n - 1 \in 0..Cardinality(Findings) /\ n - 1 \notin Wrong
  BY <1>1, <1>2, <1>3
<1>5. Pile[n - 1] \in 0..Full /\ Pile[n] = Remains(Pile[n - 1], 40, n - 1)
  BY <1>3, <1>4, PileUnfolds DEF Heap
<1>6. 40 \in 0..100
  OBVIOUS
<1>7. Pile[n] \in 0..Pile[n - 1]
  BY <1>4, <1>5, <1>6, RemainsLess, Zenon
<1>8. Pile[n] \in 0..Full
  BY <1>5, <1>7, WithinFull, Zenon
<1> QED
  BY <1>1, <1>8

\* Weak findings leave no less than as many of 40 points.
PileInv ==
  phase \in {"weights", "judged"} /\ (\A f \in fired : Severity[f] <= 40)
    => Pile[rank] <= remaining

LEMMA WeighingPiles == VerdictInv /\ PileInv /\ Weighing => PileInv'
<1> SUFFICES ASSUME VerdictInv, PileInv, phase = "weights",
                    NEW f \in left,
                    remaining' = Remains(remaining, Severity[f], rank),
                    rank' = rank + 1, left' = left \ {f}, UNCHANGED <<fired, phase>>,
                    \A g \in fired : Severity[g] <= 40
             PROVE  Pile[rank'] <= remaining'
  BY DEF Weighing, Weigh, PileInv
<1>1. /\ fired \in SUBSET Findings /\ left \in SUBSET Findings /\ f \in Findings
      /\ Severity[f] \in 0..100 /\ Severity[f] <= 40
      /\ rank \in Nat /\ rank + Cardinality(left) = Cardinality(fired)
      /\ remaining \in 0..Full /\ Pile[rank] <= remaining
  BY SeverityInRange DEF VerdictInv, PileInv
<1>2. /\ Cardinality(left) \in Nat /\ Cardinality(left) # 0
      /\ Cardinality(fired) <= Cardinality(Findings) /\ Cardinality(Findings) \in Nat
      /\ Cardinality(fired) \in Nat
  BY <1>1, FindingsFinite, FS_EmptySet
<1>3. /\ rank \in 0..Cardinality(Findings) /\ rank + 1 \in 0..Cardinality(Findings)
      /\ rank + 1 # 0 /\ (rank + 1) - 1 = rank
  BY <1>1, <1>2
<1>4. Pile[rank + 1] = Remains(Pile[rank], 40, rank)
  <2>1. Pile[rank + 1] = Heap(Pile, rank + 1)
    BY <1>3, PileUnfolds
  <2> QED
    BY <1>3, <2>1 DEF Heap
<1>5. Pile[rank] \in 0..Full
  BY <1>3, PileWithin
<1>6. remaining \in Pile[rank]..Full
  BY <1>1, <1>5, PartsCompare, Zenon
<1>7. 40 \in 0..100 /\ Severity[f] \in 0..40
  BY <1>1
<1>8. Remains(Pile[rank], 40, rank) <= Remains(remaining, Severity[f], rank)
  BY <1>3, <1>5, <1>6, <1>7, RemainsGrows, Zenon
<1> QED
  BY <1>4, <1>8

LEMMA PileInductive == VerdictInv /\ PileInv /\ [Next]_vars => PileInv'
<1> SUFFICES ASSUME VerdictInv, PileInv, [Next]_vars PROVE PileInv'
  OBVIOUS
<1>1. CASE Working
  BY <1>1 DEF Working, scoreVars, verdictVars, PileInv
<1>2. CASE Collect
  BY <1>2 DEF Collect, PileInv
<1>3. CASE RuleFires \/ RuleRaises
  BY <1>3 DEF RuleFires, RuleRaises, NextToReport, PileInv
<1>4. CASE Evaluated
  <2>1. rank' = 0 /\ remaining' = Full
    BY <1>4 DEF Evaluated, VerdictInv
  <2>2. Pile[0] = Full
    <3>1. 0 \in 0..Cardinality(Findings)
      BY FindingsFinite
    <3> QED
      BY <3>1, PileUnfolds DEF Heap
  <2> QED
    BY <2>1, <2>2, PartsCompare DEF PileInv
<1>5. CASE Weighing
  BY <1>5, WeighingPiles
<1>6. CASE Judging
  BY <1>6 DEF Judging, Judge, PileInv
<1>7. CASE UNCHANGED vars
  BY <1>7 DEF vars, scoreVars, verdictVars, PileInv
<1> QED
  BY <1>1, <1>2, <1>3, <1>4, <1>5, <1>6, <1>7 DEF Next, Verdict

LEMMA NotMaliciousEither ==
  ASSUME NEW x \in 0..Full, NEW y \in 0..Full, x <= y, LevelOf(Points(x)) # "malicious"
  PROVE  LevelOf(Points(y)) # "malicious"
<1>1. Points(x) \in Int /\ Points(y) \in Int /\ Points(x) >= Points(y)
  BY LessLeftMorePoints, Zenon
<1> DEFINE p == Points(x)
           q == Points(y)
<1>2. p \in Int /\ q \in Int /\ p >= q /\ LevelOf(p) # "malicious"
  BY <1>1
<1> HIDE DEF p, q
<1>3. LevelOf(q) # "malicious"
  BY <1>2 DEF LevelOf
<1> QED
  BY <1>3 DEF q

\* With a decay as steep as 0.6 ** r, however many rules there are and however many of them
\* fire, "malicious" takes a finding of more than 40 points (signatures.py:715).
THEOREM WeakPileIsNotEnough ==
  ASSUME FortyNeverEnough
  PROVE  Spec => []WeakPileNeverMalicious
<1>1. Init => PileInv
  BY DEF Init, PileInv
<1>2. VerdictInv /\ PileInv /\ WeighedInv => WeakPileNeverMalicious
  <2> SUFFICES ASSUME VerdictInv, PileInv, WeighedInv, level = "malicious",
                      \A f \in fired : ~(Severity[f] > 40)
               PROVE  FALSE
    BY DEF WeakPileNeverMalicious
  <2>1. /\ phase = "judged" /\ level = LevelOf(Points(remaining)) /\ fired \in SUBSET Findings
        /\ left = {} /\ rank \in Nat /\ rank + Cardinality(left) = Cardinality(fired)
        /\ remaining \in 0..Full
    BY DEF VerdictInv, WeighedInv
  <2>2. \A f \in fired : Severity[f] <= 40
    BY <2>1, SeverityInRange
  <2>3. Pile[rank] <= remaining
    BY <2>1, <2>2 DEF PileInv
  <2>4. rank \in 0..Cardinality(Findings)
    BY <2>1, FindingsFinite, FS_EmptySet
  <2>5. LevelOf(Points(Pile[rank])) # "malicious" /\ Pile[rank] \in 0..Full
    BY <2>4, PileWithin DEF FortyNeverEnough
  <2> QED
    BY <2>1, <2>3, <2>5, NotMaliciousEither, Zenon
<1>3. Init => WeighedInv
  BY DEF Init, ScoreInit, WeighedInv
<1> QED
  BY <1>1, <1>2, <1>3, VerdictInit, VerdictNext, WeighedInductive, PileInductive, PTL DEF Spec
=============================================================================
