------------------------------ MODULE MCStage -------------------------------
(* Three plans, of which two publish the same ports.                       *)
EXTENDS Stage

ThreePorts == [p \in {"one", "two", "far"} |-> IF p = "far" THEN 9090 ELSE 8080]
=============================================================================
