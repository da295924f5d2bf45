-------------------------- MODULE RetargetSchedule --------------------------
(***************************************************************************)
(* What the original retarget of calcNextRequiredDifficulty promises on a  *)
(* network without the minimum-difficulty rule, from its comments: a block *)
(* off a retarget interval keeps "the previous block's difficulty          *)
(* requirements"; at an interval "the amount of adjustment ... to the      *)
(* previous difficulty" is limited (the target moves by at most the        *)
(* adjustment factor either way, rounded down as the compact form rounds)  *)
(* and "the new value" is limited "to the proof of work limit".  Only the  *)
(* targets of the chain are seen, not its timestamps or its encoding.      *)
(***************************************************************************)
EXTENDS Integers, Sequences

CONSTANTS
  Interval,      \* blocks between retargets
  Timespan,      \* the target timespan of an interval
  MinTimespan,   \* the smallest timespan an interval is credited with
  MaxTimespan,   \* the largest
  Limit,         \* the proof of work limit, the easiest target
  Round(_)       \* what storing a target in compact form keeps of it

\* targets[i] is the target required of the block at height i - 1.
VARIABLE targets

CapAt(t) == IF t > Limit THEN Limit ELSE t

\* The easiest and the hardest target a retarget may choose after prev.
Easiest(prev) == Round(CapAt((prev * MaxTimespan) \div Timespan))
Hardest(prev) == Round(CapAt((prev * MinTimespan) \div Timespan))

SchedInit == Len(targets) = 1 /\ targets[1] \in 0..Limit

\* A block at height n = Len(targets) joins the chain.
Extend ==
  LET n == Len(targets)
      prev == targets[n]
      new == targets'[n + 1]
  IN  /\ Len(targets') = n + 1
      /\ \A i \in 1..n : targets'[i] = targets[i]
      /\ n % Interval # 0 => new = prev
      /\ n % Interval = 0 => /\ Hardest(prev) <= new
                             /\ new <= Easiest(prev)
                             /\ new <= Limit

SchedSpec == SchedInit /\ [][Extend]_targets
=============================================================================
