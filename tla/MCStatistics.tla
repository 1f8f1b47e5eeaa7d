---------------------------- MODULE MCStatistics ----------------------------
(* Model-checking instance of Statistics: a second, a minute and an hour of *)
(* a tick, a day of two and a week of four: a span of three ticks is shown *)
(* by weeks when one bar is aimed at.                                      *)
EXTENDS Statistics

ScaledUnits == <<1, 1, 1, 2, 4>>
=============================================================================
