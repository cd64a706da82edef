------------------------ MODULE MovingAverageStrategy ------------------------
(***************************************************************************)
(* strategies/moving_average.py: the one strategy of the repository, a     *)
(* function of the bars gone by and of whether there is a position.        *)
(*                                                                         *)
(* Two averages are compared after cross-multiplication; they are          *)
(* quotients of 28 digits in the code, and which is larger does not depend *)
(* on the rounding at prices of any market.                                *)
(***************************************************************************)
EXTENDS Integers, Sequences, FiniteSetsExt

CONSTANTS ShortWindow, LongWindow

\* MovingAverageStrategy.__post_init__ accepts no others.
ASSUME WindowsAssumption ==
  ShortWindow \in Nat \ {0} /\ LongWindow \in Nat /\ ShortWindow < LongWindow

Signals == {"buy", "sell", "hold"}

\* The sum of the closes of the last bars; divided by window it is _average.
SumOfCloses(history, window) ==
  MapThenSumSet(LAMBDA i : history[i].close, (Len(history) - window + 1)..Len(history))

\* By how much the short average exceeds the long one, times both windows.
ShortOverLong(history) ==
  SumOfCloses(history, ShortWindow) * LongWindow - SumOfCloses(history, LongWindow) * ShortWindow

decide(history, has_position) ==
  IF Len(history) < LongWindow THEN "hold"
  ELSE IF ShortOverLong(history) > 0 /\ ~has_position THEN "buy"
  ELSE IF ShortOverLong(history) < 0 /\ has_position THEN "sell"
  ELSE "hold"
=============================================================================
