------------------------------- MODULE MCRace -------------------------------
(***************************************************************************)
(* Small races for TLC.  Candidate 1 is of a dearer band than the others,  *)
(* so that the order of the bands differs from the order of the numbers;   *)
(* MCStale has an earlier run leave a pass behind, MCClean does not;       *)
(* of MCPorted, candidate 1 declares a host port and candidate 2 none.     *)
(***************************************************************************)
EXTENDS Race

MCBand   == [c \in Cands |-> IF c = 1 THEN 2 ELSE 1]
MCStale  == {"pass"}
MCClean  == {"none"}
MCPorted == {1}
MCPortless == {}
=============================================================================
