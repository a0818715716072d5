------------------------------- MODULE Chain --------------------------------
(***************************************************************************)
(* What a race takes for granted of one name's runner, and what a runner   *)
(* gives: a run boots and verifies, at most Turns times over, and may leave *)
(* one word at its end.  No word of an earlier run outlives its start, and *)
(* a run that is cut short leaves none.  Race.tla (each of its names) and  *)
(* Stage.tla are shown to implement this module.                           *)
(***************************************************************************)
EXTENDS Naturals

CONSTANT Turns

VARIABLES phase,    \* "off", "boot" (planning and boot), "verify"
          turn,
          word      \* "none", "pass" or "fail"

chvars == <<phase, turn, word>>

Init == phase = "off" /\ turn = 1 /\ word \in {"none", "pass", "fail"}

(* A run starts, under no earlier run's word.                              *)
Start == phase' = "boot" /\ turn' = 1 /\ word' = "none"

Up == phase = "boot" /\ phase' = "verify" /\ UNCHANGED <<turn, word>>

(* The next turn: another boot, or another verification of the same VM.    *)
Again ==
    /\ phase = "verify" /\ turn < Turns
    /\ phase' \in {"boot", "verify"} /\ turn' = turn + 1
    /\ UNCHANGED word

(* A verification decides, and with that the run is over.                  *)
Decide ==
    /\ phase = "verify" /\ phase' = "off"
    /\ word' \in {"pass", "fail"}
    /\ UNCHANGED turn

(* The run fails or is stopped, or its word is removed.                    *)
Cut ==
    /\ phase' \in {phase, "off"} /\ word' \in {word, "none"}
    /\ UNCHANGED turn

Next == Start \/ Up \/ Again \/ Decide \/ Cut

Spec == Init /\ [][Next]_chvars
=============================================================================
