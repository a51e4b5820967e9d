------------------------------ MODULE MCScLink ------------------------------
(* Three sensor answers of different lengths, two of them longer than the  *)
(* FIFO.                                                                   *)
EXTENDS ScLink
Lengths == [k \in SensorKinds |-> CASE k = "volt" -> 5 [] k = "power" -> 6 [] OTHER -> 4]
=============================================================================
