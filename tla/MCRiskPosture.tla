--------------------------- MODULE MCRiskPosture ---------------------------
(* Instance of RiskPosture for TLC: a day of six hours, three of them night, *)
(* vetoes that decay after one hour, postures that regress after a day.      *)
EXTENDS RiskPosture

MCNight == {0, 4, 5}
=============================================================================
