------------------------------- MODULE Crown -------------------------------
(***************************************************************************)
(* What a race promises its caller, with no runner, marker, timer or VM in *)
(* it: some names pass verification, at most one candidate that passed is  *)
(* crowned, and the race reports success only when the canonical name      *)
(* itself passed after that.  Race.tla is shown to implement this module.  *)
(***************************************************************************)
CONSTANTS Cands,   \* the names of the candidates
          Base,    \* the canonical name the winner is promoted to
          Nobody   \* the value of crown before a candidate is crowned

VARIABLES passed,  \* the names whose verification ended in a pass
          crown,   \* the crowned candidate, or Nobody
          outcome  \* "racing", "promoting", "won", "lost" or "killed"

cvars == <<passed, crown, outcome>>

CrownTypeOK ==
    /\ passed \subseteq Cands \cup {Base}
    /\ crown \in Cands \cup {Nobody}
    /\ outcome \in {"racing", "promoting", "won", "lost", "killed"}

Init == /\ passed = {}
        /\ crown = Nobody
        /\ outcome = "racing"

(* A name's verification ends in a pass; it never stops having passed.     *)
Pass(n) == /\ passed' = passed \cup {n}
           /\ UNCHANGED <<crown, outcome>>

(* The crown goes to one candidate that passed, once.                      *)
Elect(c) == /\ outcome = "racing"
            /\ c \in passed
            /\ crown' = c
            /\ outcome' = "promoting"
            /\ UNCHANGED passed

(* Success is the canonical name's own pass, under a crown.                *)
Win == /\ outcome = "promoting"
       /\ Base \in passed
       /\ outcome' = "won"
       /\ UNCHANGED <<passed, crown>>

Lose == /\ outcome \in {"racing", "promoting"}
        /\ outcome' = "lost"
        /\ UNCHANGED <<passed, crown>>

Kill == /\ outcome \in {"racing", "promoting"}
        /\ outcome' = "killed"
        /\ UNCHANGED <<passed, crown>>

Next == \/ \E n \in Cands \cup {Base} : Pass(n)
        \/ \E c \in Cands : Elect(c)
        \/ Win
        \/ Lose
        \/ Kill

Spec == Init /\ [][Next]_cvars
=============================================================================
