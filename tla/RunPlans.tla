------------------------------ MODULE RunPlans ------------------------------
(***************************************************************************)
(* The plans a single VM is booted with, as far as what follows the boot   *)
(* can tell them apart: by identity and by the guest ports they publish.   *)
(***************************************************************************)
EXTENDS Naturals

CONSTANTS Plans,      \* plans the models may write
          Ports       \* the published ports of each

NoPlan == "noplan"

ASSUME PlansAssumption ==
    /\ Plans \subseteq STRING /\ NoPlan \notin Plans
    /\ DOMAIN Ports = Plans
=============================================================================
