-------------------------- MODULE SettlementRules --------------------------
(***************************************************************************)
(* How a bet is settled: QuarterLineSettler, settleBttsMatch and the       *)
(* dispatch of SettlementEngine.settlePosition, as operators.              *)
(*                                                                         *)
(* Lines and margins are counted in quarter goals, so that -0.75 is -3 and *)
(* a goal is 4: lines are multiples of a quarter, which a binary float     *)
(* holds exactly, and the tolerance of 0.000001 plays no part.  Odds are   *)
(* counted in thousandths and profits of a unit stake in 1/2000, which     *)
(* makes every profit of a bet at three-decimal odds a whole number that   *)
(* toFixed(4) leaves alone.                                                *)
(***************************************************************************)
EXTENDS Integers

Outcomes == {"WIN", "HALF_WIN", "PUSH", "HALF_LOSS", "LOSS", "VOID"}

\* JavaScript takes the fraction of the absolute value; the parity is the same.
IsQuarterLine(line) == line % 2 = 1

HalfStep(margin) ==
    IF margin > 0 THEN "WIN" ELSE IF margin < 0 THEN "LOSS" ELSE "PUSH"

\* The two half stakes of a quarter line.
Combine(r1, r2) ==
    IF r1 = r2 THEN r1
    ELSE IF "PUSH" \notin {r1, r2} THEN "PUSH"
    ELSE IF "WIN" \in {r1, r2} THEN "HALF_WIN"
    ELSE "HALF_LOSS"

\* A mutant: Math.trunc where Math.floor belongs.
BaseTruncated(line) == IF line < 0 THEN -(2 * ((-line) \div 2)) ELSE 2 * (line \div 2)

\* Math.floor(line * 2) / 2
Base(line) == 2 * (line \div 2)

SettleHandicap(side, line, h, a) ==
    LET diff == 4 * (IF side = "home" THEN h - a ELSE a - h)
    IN  IF h < 0 \/ a < 0 THEN "VOID"
        ELSE IF IsQuarterLine(line)
        THEN Combine(HalfStep(diff + Base(line)), HalfStep(diff + Base(line) + 2))
        ELSE HalfStep(diff + line)

SettleOverUnderSingle(over, line, total) ==
    IF over THEN HalfStep(4 * total - line) ELSE HalfStep(line - 4 * total)

SettleOverUnder(over, line, total) ==
    IF total < 0 THEN "VOID"
    ELSE IF IsQuarterLine(line)
    THEN Combine(SettleOverUnderSingle(over, line - 1, total),
                 SettleOverUnderSingle(over, line + 1, total))
    ELSE SettleOverUnderSingle(over, line, total)

SettleBtts(yes, h, a) == IF (h >= 1 /\ a >= 1) = yes THEN "WIN" ELSE "LOSS"

\* Profit of one unit at the given odds, in 1/2000.
Profit(outcome, odds) ==
    IF outcome = "WIN" THEN 2 * (odds - 1000)
    ELSE IF outcome = "HALF_WIN" THEN odds - 1000
    ELSE IF outcome = "HALF_LOSS" THEN -1000
    ELSE IF outcome = "LOSS" THEN -2000
    ELSE 0

\* settlePosition for a finished match with goals.  For a handicap bet the side
\* is the away one only if the source's away team is spelled in the selection.
SettlePosition(market, side, line, spelled, h, a) ==
    IF h < 0 \/ a < 0 THEN "VOID"
    ELSE IF market = "AH"
    THEN SettleHandicap(IF side = "away" /\ spelled THEN "away" ELSE "home", line, h, a)
    ELSE IF market = "OU" THEN SettleOverUnder(side = "over", line, h + a)
    ELSE IF market = "BTTS" THEN SettleBtts(side = "yes", h, a)
    ELSE "VOID"

-----------------------------------------------------------------------------
(* What a bet is worth by definition, without any rule for quarter lines:  *)
(* a quarter line is half a stake on each of the lines next to it.         *)

Worth(margin, odds) ==
    IF margin > 0 THEN odds - 1000 ELSE IF margin < 0 THEN -1000 ELSE 0

\* Profit of two half stakes, one on each side of the line for a quarter line.
SplitStake(margin, line, odds) ==
    IF IsQuarterLine(line) THEN Worth(margin - 1, odds) + Worth(margin + 1, odds)
    ELSE 2 * Worth(margin, odds)

\* The margin by which a bet is won, in quarter goals.
HandicapMargin(side, line, h, a) ==
    4 * (IF side = "home" THEN h - a ELSE a - h) + line

TotalMargin(over, line, total) ==
    IF over THEN 4 * total - line ELSE line - 4 * total

Opposite(outcome) ==
    IF outcome = "WIN" THEN "LOSS"
    ELSE IF outcome = "LOSS" THEN "WIN"
    ELSE IF outcome = "HALF_WIN" THEN "HALF_LOSS"
    ELSE IF outcome = "HALF_LOSS" THEN "HALF_WIN"
    ELSE outcome
=============================================================================
