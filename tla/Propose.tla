------------------------------ MODULE Propose -------------------------------
(***************************************************************************)
(* How src/scripts/vmf_plan.py puts a plan before the user: intent_cmd for *)
(* an intent on a plain image, gapfill for a repository without a compose  *)
(* file.  The model drafts a plan, the gate shows it, and the user takes   *)
(* it, declines it, or asks for a change of it, Rounds times at most.      *)
(***************************************************************************)
EXTENDS RunPlans

CONSTANT Rounds     \* changes the gate lets through (3 in the code)

ASSUME RoundsAssumption == Rounds \in Nat

VARIABLES
    gpc,        \* "off", "ask" (finalize), "show", "approved", "refused",
                \* "failed" (no model, no JSON, no command)
    offer,      \* plan
    rounds,     \* turns
    shown       \* history: the plan the gate showed last

gateVars == <<gpc, offer, rounds, shown>>

GateOK ==
    /\ gpc \in {"off", "ask", "show", "approved", "refused", "failed"}
    /\ {offer, shown} \subseteq Plans \cup {NoPlan}
    /\ rounds \in 0..Rounds

GateOff == gpc = "off" /\ offer = NoPlan /\ rounds = 0 /\ shown = NoPlan

GateStart == gpc = "off" /\ gpc' = "ask" /\ UNCHANGED <<offer, rounds, shown>>

GateReset == gpc' = "off" /\ offer' = NoPlan /\ rounds' = 0 /\ shown' = NoPlan

Finalize ==
    /\ gpc = "ask"
    /\ \/ gpc' = "failed" /\ UNCHANGED <<offer, shown>>
       \/ gpc' = "show" /\ offer' \in Plans /\ shown' = offer'
    /\ UNCHANGED rounds

(* vmf_llm.accepted, or the user's "a".                                    *)
Approve ==
    /\ gpc = "show" /\ gpc' = "approved"
    /\ UNCHANGED <<offer, rounds, shown>>

Decline(yes) ==
    /\ gpc = "show" /\ ~yes
    /\ gpc' = "refused"
    /\ UNCHANGED <<offer, rounds, shown>>

(* The user types a change.  At the cap the proposal at hand is taken.     *)
ChangeAtCap ==
    /\ gpc' = "approved" /\ offer' \in Plans /\ UNCHANGED <<rounds, shown>>
TakeAtCap ==
    /\ gpc' = "approved" /\ UNCHANGED <<offer, rounds, shown>>

Change(yes) ==
    /\ gpc = "show" /\ ~yes
    /\ \/ rounds < Rounds /\ rounds' = rounds + 1 /\ gpc' = "ask" /\ UNCHANGED <<offer, shown>>
       \/ rounds = Rounds /\ TakeAtCap

GateStep(yes) == Finalize \/ Approve \/ Decline(yes) \/ Change(yes)

(* A step of the gate takes a change, or comes nearer to its end.          *)
GateRank == CASE gpc = "ask" -> 2 [] gpc = "show" -> 1 [] OTHER -> 0
GateSpends == \/ rounds' \in (rounds + 1)..Rounds
              \/ rounds' = rounds /\ GateRank' < GateRank
=============================================================================
