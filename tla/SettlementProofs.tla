------------------------- MODULE SettlementProofs --------------------------
(***************************************************************************)
(* What the settlement rules guarantee for every line and every score.     *)
(***************************************************************************)
EXTENDS SettlementRules, TLAPS

\* The two half stakes of a quarter line lie half a goal apart, around a line
\* that is no multiple of it: they never come out as win and loss, so that the
\* branch of the settler for that pair is dead.
THEOREM HalvesAgree ==
    ASSUME NEW m \in Int, NEW r1, NEW r2, m % 2 = 1,
           r1 = HalfStep(m - 1), r2 = HalfStep(m + 1)
    PROVE  {r1, r2} # {"WIN", "LOSS"}
<1>1. r1 # "WIN" \/ r2 # "LOSS"
  BY DEF HalfStep
<1>2. r1 # "LOSS" \/ r2 # "WIN"
  <2>1. SUFFICES ASSUME m - 1 < 0, m + 1 > 0 PROVE FALSE
    BY DEF HalfStep
  <2>2. m = 0
    BY <2>1
  <2> QED
    BY <2>2
<1>3. {r1, r2} = {"WIN", "LOSS"} => (r1 = "WIN" /\ r2 = "LOSS") \/ (r1 = "LOSS" /\ r2 = "WIN")
  OBVIOUS
<1> QED
  BY <1>1, <1>2, <1>3

\* What Combine pays for two half stakes is what each of them pays.
LEMMA CombinePays ==
    ASSUME NEW m \in Int, NEW odds \in Int, m % 2 = 1
    PROVE  Profit(Combine(HalfStep(m - 1), HalfStep(m + 1)), odds)
             = Worth(m - 1, odds) + Worth(m + 1, odds)
<1>1. m # 0
  OBVIOUS
<1>2. CASE m - 1 > 0
  BY <1>2 DEF Profit, Combine, HalfStep, Worth
<1>3. CASE m - 1 = 0
  BY <1>3 DEF Profit, Combine, HalfStep, Worth
<1>4. CASE m + 1 = 0
  BY <1>4 DEF Profit, Combine, HalfStep, Worth
<1>5. CASE m + 1 < 0
  BY <1>5 DEF Profit, Combine, HalfStep, Worth
<1> QED
  BY <1>1, <1>2, <1>3, <1>4, <1>5

LEMMA SinglePays ==
    ASSUME NEW m \in Int, NEW odds \in Int
    PROVE  Profit(HalfStep(m), odds) = 2 * Worth(m, odds)
BY DEF Profit, HalfStep, Worth

\* On a quarter line the base of the settler is the line a quarter below.
LEMMA BaseOfQuarter ==
    ASSUME NEW line \in Int, IsQuarterLine(line)
    PROVE  Base(line) = line - 1
BY DEF Base, IsQuarterLine

\* QuarterLineSettler.settle pays, on any line and for any score, what half a
\* stake on each of the two neighbouring lines would pay.
THEOREM HandicapIsSplitStake ==
    ASSUME NEW side \in {"home", "away"}, NEW line \in Int, NEW h \in Nat, NEW a \in Nat,
           NEW odds \in Int
    PROVE  Profit(SettleHandicap(side, line, h, a), odds)
             = SplitStake(HandicapMargin(side, line, h, a), line, odds)
<1> DEFINE diff == 4 * (IF side = "home" THEN h - a ELSE a - h)
           m    == diff + line
<1>1. diff \in Int /\ m \in Int /\ ~ (h < 0 \/ a < 0)
  OBVIOUS
<1>2. HandicapMargin(side, line, h, a) = m
  BY DEF HandicapMargin
<1>3. CASE IsQuarterLine(line)
  <2>1. m % 2 = 1
    BY <1>3 DEF IsQuarterLine
  <2>2. diff + Base(line) = m - 1 /\ diff + Base(line) + 2 = m + 1
    BY <1>3, <1>1, BaseOfQuarter
  <2>3. SettleHandicap(side, line, h, a) = Combine(HalfStep(m - 1), HalfStep(m + 1))
    BY <1>3, <1>1, <2>2 DEF SettleHandicap
  <2> QED
    BY <1>1, <1>2, <1>3, <2>1, <2>3, CombinePays DEF SplitStake
<1>4. CASE ~ IsQuarterLine(line)
  <2>1. SettleHandicap(side, line, h, a) = HalfStep(m)
    BY <1>4, <1>1 DEF SettleHandicap
  <2> QED
    BY <1>1, <1>2, <1>4, <2>1, SinglePays DEF SplitStake
<1> QED
  BY <1>3, <1>4

\* The same for totals, whose settler looks at the lines next to it itself.
THEOREM OverUnderIsSplitStake ==
    ASSUME NEW over \in BOOLEAN, NEW line \in Int, NEW total \in Nat, NEW odds \in Int
    PROVE  Profit(SettleOverUnder(over, line, total), odds)
             = SplitStake(TotalMargin(over, line, total), line, odds)
<1> DEFINE m == TotalMargin(over, line, total)
<1>1. m \in Int /\ ~ (total < 0)
  BY DEF TotalMargin
<1>2. SettleOverUnderSingle(over, line, total) = HalfStep(m)
  BY DEF SettleOverUnderSingle, TotalMargin
<1>3. CASE IsQuarterLine(line)
  <2>1. m % 2 = 1
    BY <1>3 DEF IsQuarterLine, TotalMargin
  <2>2. CASE over
    <3>1. /\ SettleOverUnderSingle(over, line - 1, total) = HalfStep(m + 1)
          /\ SettleOverUnderSingle(over, line + 1, total) = HalfStep(m - 1)
      BY <2>2 DEF SettleOverUnderSingle, TotalMargin
    <3>2. Combine(HalfStep(m + 1), HalfStep(m - 1)) = Combine(HalfStep(m - 1), HalfStep(m + 1))
      BY DEF Combine
    <3> QED
      BY <1>1, <1>3, <2>1, <3>1, <3>2, CombinePays DEF SettleOverUnder, SplitStake
  <2>3. CASE ~ over
    <3>1. /\ SettleOverUnderSingle(over, line - 1, total) = HalfStep(m - 1)
          /\ SettleOverUnderSingle(over, line + 1, total) = HalfStep(m + 1)
      BY <2>3 DEF SettleOverUnderSingle, TotalMargin
    <3> QED
      BY <1>1, <1>3, <2>1, <3>1, CombinePays DEF SettleOverUnder, SplitStake
  <2> QED
    BY <2>2, <2>3
<1>4. CASE ~ IsQuarterLine(line)
  BY <1>1, <1>2, <1>4, SinglePays DEF SettleOverUnder, SplitStake
<1> QED
  BY <1>3, <1>4

LEMMA OppositeSteps ==
    ASSUME NEW m \in Int
    PROVE  /\ HalfStep(-m) = Opposite(HalfStep(m))
           /\ m % 2 = 1 => Combine(HalfStep(-m - 1), HalfStep(-m + 1))
                            = Opposite(Combine(HalfStep(m - 1), HalfStep(m + 1)))
<1>1. HalfStep(-m) = Opposite(HalfStep(m))
  BY DEF HalfStep, Opposite
<1>2. ASSUME m % 2 = 1
      PROVE  Combine(HalfStep(-m - 1), HalfStep(-m + 1))
               = Opposite(Combine(HalfStep(m - 1), HalfStep(m + 1)))
  <2>1. m # 0
    BY <1>2
  <2>2. CASE m > 1
    BY <2>2 DEF HalfStep, Combine, Opposite
  <2>3. CASE m = 1
    BY <2>3 DEF HalfStep, Combine, Opposite
  <2>4. CASE m = -1
    BY <2>4 DEF HalfStep, Combine, Opposite
  <2>5. CASE m < -1
    BY <2>5 DEF HalfStep, Combine, Opposite
  <2> QED
    BY <2>1, <2>2, <2>3, <2>4, <2>5
<1> QED
  BY <1>1, <1>2

\* The two sides of one handicap market are settled against each other, never
\* both paid and never both lost: home at a line, away at its negative.
THEOREM HandicapSidesOppose ==
    ASSUME NEW line \in Int, NEW h \in Nat, NEW a \in Nat
    PROVE  SettleHandicap("away", -line, h, a) = Opposite(SettleHandicap("home", line, h, a))
<1> DEFINE d == 4 * (h - a)
           m == d + line
<1>1. /\ d \in Int /\ m \in Int /\ -line \in Int /\ -m \in Int
      /\ ~ (h < 0 \/ a < 0)
      /\ 4 * (a - h) = -d
  OBVIOUS
<1>2. IsQuarterLine(-line) <=> IsQuarterLine(line)
  BY DEF IsQuarterLine
<1>3. CASE IsQuarterLine(line)
  <2>1. m % 2 = 1
    BY <1>3 DEF IsQuarterLine
  <2>2. Base(line) = line - 1 /\ Base(-line) = -line - 1
    BY <1>1, <1>2, <1>3, BaseOfQuarter
  <2>3. /\ d + Base(line) = m - 1 /\ d + Base(line) + 2 = m + 1
        /\ -d + Base(-line) = -m - 1 /\ -d + Base(-line) + 2 = -m + 1
    BY <1>1, <2>2
  <2>4. SettleHandicap("home", line, h, a) = Combine(HalfStep(m - 1), HalfStep(m + 1))
    BY <1>1, <1>3, <2>3 DEF SettleHandicap
  <2>5. SettleHandicap("away", -line, h, a) = Combine(HalfStep(-m - 1), HalfStep(-m + 1))
    BY <1>1, <1>2, <1>3, <2>3 DEF SettleHandicap
  <2> QED
    BY <1>1, <2>1, <2>4, <2>5, OppositeSteps
<1>4. CASE ~ IsQuarterLine(line)
  <2>1. SettleHandicap("home", line, h, a) = HalfStep(m)
    BY <1>1, <1>4 DEF SettleHandicap
  <2>2. SettleHandicap("away", -line, h, a) = HalfStep(-m)
    BY <1>1, <1>2, <1>4 DEF SettleHandicap
  <2> QED
    BY <1>1, <2>1, <2>2, OppositeSteps
<1> QED
  BY <1>3, <1>4

\* Over and under of one total line are settled against each other too.
THEOREM TotalSidesOppose ==
    ASSUME NEW line \in Int, NEW total \in Nat
    PROVE  SettleOverUnder(FALSE, line, total) = Opposite(SettleOverUnder(TRUE, line, total))
<1> DEFINE m == 4 * total - line
<1>1. m \in Int /\ ~ (total < 0) /\ line - 4 * total = -m
  OBVIOUS
<1>2. CASE IsQuarterLine(line)
  <2>1. m % 2 = 1
    BY <1>2 DEF IsQuarterLine
  <2>2. SettleOverUnder(TRUE, line, total) = Combine(HalfStep(m + 1), HalfStep(m - 1))
    <3>1. 4 * total - (line - 1) = m + 1 /\ 4 * total - (line + 1) = m - 1
      OBVIOUS
    <3> QED
      BY <1>1, <1>2, <3>1 DEF SettleOverUnder, SettleOverUnderSingle
  <2>3. SettleOverUnder(FALSE, line, total) = Combine(HalfStep(-m - 1), HalfStep(-m + 1))
    <3>1. line - 1 - 4 * total = -m - 1 /\ line + 1 - 4 * total = -m + 1
      OBVIOUS
    <3> QED
      BY <1>1, <1>2, <3>1 DEF SettleOverUnder, SettleOverUnderSingle
  <2>4. Combine(HalfStep(m + 1), HalfStep(m - 1)) = Combine(HalfStep(m - 1), HalfStep(m + 1))
    BY DEF Combine
  <2> QED
    BY <1>1, <2>1, <2>2, <2>3, <2>4, OppositeSteps
<1>3. CASE ~ IsQuarterLine(line)
  BY <1>1, <1>3, OppositeSteps DEF SettleOverUnder, SettleOverUnderSingle
<1> QED
  BY <1>2, <1>3
=============================================================================
