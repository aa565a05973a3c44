---------------------------- MODULE MCChanStats ----------------------------
(***************************************************************************)
(* A channel and an account in the summer of 2024: eleven o'clock of the   *)
(* evening of Sunday the 30th of June, and the midnight that begins a day, *)
(* a week and a month at once.                                             *)
(***************************************************************************)
EXTENDS ChanStats

Midnight(d) == d * Day - 1

FirstOfJuly == 19905

MCMonths   == {0, FirstOfJuly - 30, FirstOfJuly}
MCInstants == {Midnight(FirstOfJuly) - 1, Midnight(FirstOfJuly)}
MCSummer   == (FirstOfJuly - 90) * Day .. (FirstOfJuly + 90) * Day
MCMessages == {[action |-> FALSE, words |-> 2, smileys |-> 1], [action |-> TRUE, words |-> 1, smileys |-> 1]}

\* What the proof that the rows add up assumes.
ASSUME SummerAssumption == SummerSettled
=============================================================================
