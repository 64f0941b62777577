---------------------------- MODULE MCAlertPath ----------------------------
(* A worker and the MLEngine thread; two attacks, far enough apart or not. *)
EXTENDS AlertPath

MCCallers  == {"worker", "ml"}
MCLayerOf  == [c \in MCCallers |-> IF c = "ml" THEN "L2" ELSE "L1"]
MCKeys     == {"flood", "scan"}
MCThreatOf == [k \in MCKeys |-> IF k = "flood" THEN "DDOS_VOLUMETRIC" ELSE "PORT_SCAN"]
MCTimes    == [l \in {"L1", "L2"} |-> IF l = "L1" THEN {100, 105} ELSE {3}]
=============================================================================
