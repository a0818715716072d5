----------------------------- MODULE MCPlanning -----------------------------
(* Instances of Planning for TLC.                                          *)
EXTENDS Planning

ServeAnswers == [i \in {"serve"} |-> {"web"}]

FullAnswers  == [i \in {"serve"} |-> {"web", "guess"}]
=============================================================================
