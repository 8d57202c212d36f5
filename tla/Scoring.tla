------------------------------ MODULE Scoring ------------------------------
(***************************************************************************)
(* From the findings that fired to a score and a level (signatures.score). *)
(* The strongest finding counts in full, each later one 0.6 times as much  *)
(* as the one before it, and each takes its share of what is left of 100.  *)
(*                                                                         *)
(* What is left is kept in thousandths of a point, Full being 100 points,  *)
(* and rounded up at each step where the code keeps a double; half points  *)
(* go up where Python rounds half to even.  A score may differ by one      *)
(* point from the code's; WeakPileNeverMalicious has more to spare.        *)
(***************************************************************************)
EXTENDS Integers, FiniteSets

CONSTANTS Findings,   \* the rules that may fire, numbered in order of registration
          Severity,   \* the severity of each, in 0..100
          Decay       \* Decay[r] is 0.6 ** r in units of 1 / DecayUnit

Full      == 100000
DecayUnit == 10000

ASSUME FindingsAssumption == IsFiniteSet(Findings) /\ Findings \subseteq Nat \ {0}
ASSUME SeverityAssumption == Severity \in [Findings -> 0..100]
ASSUME DecayAssumption ==
  /\ Decay \in [0..Cardinality(Findings) -> 0..DecayUnit]
  /\ Decay[0] = DecayUnit

VARIABLES
  fired,      \* the findings that fired, rule errors left out
  left,       \* those not yet weighed
  rank,       \* how many are
  remaining,  \* what they left of Full
  level       \* "none" until the score is known

scoreVars == <<left, rank, remaining, level>>

\* Mutant: sorted the wrong way round, as without the minus in the sort key.
WeakerFirst(f, g) == Severity[f] < Severity[g] \/ (Severity[f] = Severity[g] /\ f <= g)

\* sorted(real, key=lambda s: -s["severity"]), which is stable.
Before(f, g) == Severity[f] > Severity[g] \/ (Severity[f] = Severity[g] /\ f <= g)

\* What the finding of that severity and rank leaves of rem.
Remains(rem, severity, r) ==
  rem - (((rem * severity) \div 100) * Decay[r]) \div DecayUnit

\* round(100 - remaining)
Points(rem) == (Full - rem + 500) \div 1000

LevelOf(points) == IF points >= 70 THEN "malicious"
                   ELSE IF points >= 35 THEN "suspicious" ELSE "benign"

ScoreTypeOK ==
  /\ fired \subseteq Findings
  /\ left \subseteq fired
  /\ rank \in 0..Cardinality(Findings)
  /\ remaining \in 0..Full
  /\ level \in {"none", "benign", "suspicious", "malicious"}

ScoreInit == left = {} /\ rank = 0 /\ remaining = Full /\ level = "none"

\* Mutant: the rank is never counted up, and every finding counts in full.
WeighInFull ==
  \E f \in left :
    /\ \A g \in left : Before(f, g)
    /\ remaining' = Remains(remaining, Severity[f], rank)
    /\ left' = left \ {f}
    /\ UNCHANGED <<fired, rank, level>>

\* The loop takes the next finding of the sorted list.
Weigh ==
  \E f \in left :
    /\ \A g \in left : Before(f, g)
    /\ remaining' = Remains(remaining, Severity[f], rank)
    /\ rank' = rank + 1
    /\ left' = left \ {f}
    /\ UNCHANGED <<fired, level>>

Judge ==
  /\ left = {}
  /\ level' = LevelOf(Points(remaining))
  /\ UNCHANGED <<fired, left, rank, remaining>>

-----------------------------------------------------------------------------
(* Properties.                                                             *)

\* What a set of findings leaves, its last one being weighed last.
LastOf(S) == CHOOSE f \in S : \A g \in S : Before(g, f)

LeftBy[S \in SUBSET Findings] ==
  IF S = {} THEN Full
  ELSE Remains(LeftBy[S \ {LastOf(S)}], Severity[LastOf(S)], Cardinality(S) - 1)

\* A finding more never lowers the score, although it may push others down the ranks.
MoreEvidenceNeverLowers ==
  level # "none" => \A f \in fired : Points(remaining) >= Points(LeftBy[fired \ {f}])

\* However many findings of up to 40 points there are, they are not enough for "malicious"
\* (signatures.py:715).
WeakPileNeverMalicious ==
  level = "malicious" => \E f \in fired : Severity[f] > 40

\* What n findings of 40 points leave, and what the decay must see to for the property above:
\* no number of them reaches 70 points.
Pile[n \in 0..Cardinality(Findings)] == IF n = 0 THEN Full ELSE Remains(Pile[n - 1], 40, n - 1)

FortyNeverEnough == \A n \in 0..Cardinality(Findings) : LevelOf(Points(Pile[n])) # "malicious"
=============================================================================
