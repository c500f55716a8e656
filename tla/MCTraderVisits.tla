----------------------------- MODULE MCTraderVisits -----------------------------
(* A schedule in which a visit lasts half a slot and an elite visit a       *)
(* quarter, and the next visit is rolled a quarter of a slot ahead.         *)
EXTENDS TraderVisits

MCInterval == 8
MCDuration == 4
MCElite == 2
MCBefore == 2
================================================================================
