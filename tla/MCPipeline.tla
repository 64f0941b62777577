---------------------------- MODULE MCPipeline ----------------------------
(* Two flows hashed to different workers, or a single flow; a verdict of   *)
(* each action.                                                            *)
EXTENDS Pipeline

MCFlows   == {"a", "b"}
MCHash    == [f \in MCFlows |-> IF f = "a" THEN 4 ELSE 7]
MCVerdicts == {"NORMAL", "DDOS_VOLUMETRIC", "PORT_SCAN"}
MCOneFlow == {"a"}
MCOneHash == [f \in MCOneFlow |-> 7]
=============================================================================
