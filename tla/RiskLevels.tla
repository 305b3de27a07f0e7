----------------------------- MODULE RiskLevels -----------------------------
(***************************************************************************)
(* Risk levels and the display scale (services/risk_levels.py).  A raw     *)
(* score is a natural number of units of which Cent make 0.01; a display   *)
(* score is a number of thousandths, rounded down.                         *)
(***************************************************************************)
EXTENDS Integers

CONSTANTS Threshold, Cent

ASSUME BandAssumption ==
    /\ Threshold \in Nat \ {0} /\ Threshold % 2 = 0
    /\ Cent \in Nat \ {0}

LowHigh == Threshold \div 2
MediumLow == Threshold
HighLow == Threshold + Cent
CriticalLow == Threshold + 2 * Cent

Levels == {"LOW", "MEDIUM", "HIGH", "CRITICAL"}
Rank == [LOW |-> 0, MEDIUM |-> 1, HIGH |-> 2, CRITICAL |-> 3]

\* Fault: the bands tested from the bottom up, so the first that fits wins.
ScoreToLevelBottomUp(score) ==
    IF score < MediumLow THEN "LOW"
    ELSE IF score <= HighLow THEN "MEDIUM"
    ELSE IF score <= CriticalLow THEN "HIGH"
    ELSE "CRITICAL"

ScoreToLevel(score) ==
    IF score >= CriticalLow THEN "CRITICAL"
    ELSE IF score >= HighLow THEN "HIGH"
    ELSE IF score >= MediumLow THEN "MEDIUM"
    ELSE "LOW"

AtMost(a, b) == IF a <= b THEN a ELSE b
AtLeast(a, b) == IF a >= b THEN a ELSE b

\* Lerp: the line from (x0, y0) to (x1, y1), cut off beyond its ends.
Lerp(x, x0, x1, y0, y1) ==
    IF x1 <= x0 THEN y0
    ELSE y0 + ((AtLeast(0, AtMost(x - x0, x1 - x0)) * (y1 - y0)) \div (x1 - x0))

ScoreToDisplay(score) ==
    LET s == AtLeast(score, 0)
    IN  CASE s < LowHigh -> Lerp(s, 0, LowHigh, 0, 300)
          [] LowHigh <= s /\ s < MediumLow -> Lerp(s, LowHigh, MediumLow, 300, 500)
          [] MediumLow <= s /\ s < HighLow -> Lerp(s, MediumLow, HighLow, 500, 700)
          [] HighLow <= s /\ s < CriticalLow -> Lerp(s, HighLow, CriticalLow, 700, 850)
          [] CriticalLow <= s ->
                AtMost(Lerp(s, CriticalLow, CriticalLow + 3 * Cent, 850, 1000), 1000)

\* The range of the gauge in which each level is drawn.
Gauge(level) ==
    CASE level = "LOW" -> 0..499 [] level = "MEDIUM" -> 500..699
      [] level = "HIGH" -> 700..849 [] level = "CRITICAL" -> 850..1000
=============================================================================
