---------------------------- MODULE StageProofs -----------------------------
(***************************************************************************)
(* Stage for every set of plans, every bound of turns, rounds, plumbing    *)
(* and runs: what the gate lets through was seen, what a session hands     *)
(* over was proved unless it ran out, a plan that passed is the one the    *)
(* next run replays, and a reboot of an intent brings up the plan it was   *)
(* made for.                                                               *)
(***************************************************************************)
EXTENDS Stage, TLAPS

(* The gate: what it shows and what it has let through is what was shown.  *)
GateInv ==
    /\ gpc \in {"show", "approved"} => offer = shown /\ offer \in Plans
    /\ NothingUnseenIsKept

(* The session: it is under its cap of plumbing commands while it lasts,   *)
(* and at the gate it has a plan, proved unless the session ran out.       *)
AgentInv ==
    /\ apc # "ended" => streak < InfraCap
    /\ apc \in {"gate", "extra"} => spec \in Plans /\ (ranOut \/ proved)
    /\ apc = "ended" /\ arc = 0 => spec \in Plans
    /\ ProvedUnlessRanOut

(* The intent's cache: from the boot to the verdict it holds the plan of   *)
(* the VM, and until the run gives up there are fewer failures than make   *)
(* the next one turn that plan away.                                       *)
CacheInv ==
    /\ pc \in {"boot", "verify"} /\ kind = "intent" => icache = plan /\ failures < 2
    /\ pc \in {"failed", "repair", "revise"} /\ kind = "intent" => failures < 2
    /\ pc \in {"repair", "revise"} => turn < Turns
    /\ marker # "none" => pc = "idle"
    /\ PassIsReplayed

(* A reboot of an intent: until its child has planned, the plan it is made *)
(* for is the one that planning will find.                                 *)
RebootInv ==
    /\ pc \notin {"idle", "plan", "boot"} /\ kind = "intent" => due = NoPlan
    /\ pc = "plan" /\ kind = "intent" /\ due # NoPlan => due = Cached
    /\ RebootBootsIt

StageInv == TypeOK /\ GateInv /\ AgentInv /\ CacheInv /\ RebootInv

-----------------------------------------------------------------------------
(* A reply that is not done is a reply.                                    *)
LEMMA UndoneIsOne == Undone \in Dones
BY DEF Undone, Dones

(* A run starts inside the invariant.                                      *)
LEMMA StageInvInit == Init => StageInv
<1> SUFFICES ASSUME Init PROVE StageInv
    OBVIOUS
<1> USE StageAssumption, AgentAssumption, RoundsAssumption, PlansAssumption
        DEF Init, GateOff, AgentOff
<1>0. yes \in BOOLEAN /\ {seeding, cmd, proved, ranOut} \subseteq BOOLEAN
    OBVIOUS
<1>1. GateOK /\ AgentOK
    BY <1>0, UndoneIsOne DEF GateOK, AgentOK
<1>2. TypeOK
    BY <1>0, <1>1 DEF TypeOK, Maybe
<1>3. GateInv /\ AgentInv
    BY DEF GateInv, AgentInv, NothingUnseenIsKept, ProvedUnlessRanOut
<1>4. CacheInv
    BY DEF CacheInv, PassIsReplayed
<1>5. RebootInv
    BY DEF RebootInv, RebootBootsIt
<1>6. QED
    BY <1>2, <1>3, <1>4, <1>5 DEF StageInv

-----------------------------------------------------------------------------
(* Steps of the gate, whoever answers at it.                               *)
LEMMA GateSteps ==
    ASSUME GateOK, GateInv, NEW y \in BOOLEAN,
           GateStep(y) \/ GateStart \/ GateReset \/ UNCHANGED gateVars
    PROVE  GateOK' /\ GateInv'
<1> USE RoundsAssumption DEF GateOK, GateInv, NothingUnseenIsKept
<1>1. CASE Finalize
    BY <1>1 DEF Finalize
<1>2. CASE Approve
    BY <1>2 DEF Approve
<1>3. CASE Decline(y)
    BY <1>3 DEF Decline
<1>4. CASE Change(y)
    BY <1>4 DEF Change, TakeAtCap
<1>5. CASE GateStart
    BY <1>5 DEF GateStart
<1>6. CASE GateReset
    BY <1>6 DEF GateReset
<1>7. CASE UNCHANGED gateVars
    BY <1>7 DEF gateVars
<1>8. QED
    BY <1>1, <1>2, <1>3, <1>4, <1>5, <1>6, <1>7 DEF GateStep

(* Steps of the session, whoever answers at its gate.                      *)
LEMMA AgentSteps ==
    ASSUME AgentOK, AgentInv, NEW y \in BOOLEAN,
           AgentStep(y) \/ AgentStart \/ AgentReset \/ UNCHANGED agentVars
    PROVE  AgentOK' /\ AgentInv'
<1> USE AgentAssumption, PlansAssumption
        DEF AgentOK, AgentInv, ProvedUnlessRanOut, End
<1>1. CASE SeedDone
    BY <1>1 DEF SeedDone
<1>2. CASE Think
    BY <1>2 DEF Think
<1>3. CASE RunOut
    BY <1>3 DEF RunOut
<1>4. CASE Act
    BY <1>4 DEF Act
<1>5. CASE Judge
    <2>1. done.is \in {"flawed", "fit"} => done.plan \in Plans
        BY DEF Dones
    <2>2. QED
        BY <1>5, <2>1 DEF Judge, Try
<1>6. CASE Gate(y)
    BY <1>6 DEF Gate
<1>7. CASE Extra
    <2>1. CASE \E p \in Plans : Replace(p)
        <3>1. PICK p \in Plans : Replace(p)
            BY <2>1
        <3>2. proved' \in BOOLEAN
            BY <3>1 DEF Replace
        <3>3. QED
            BY <1>7, <3>1, <3>2 DEF Extra, Replace
    <2>2. CASE ~\E p \in Plans : Replace(p)
        BY <1>7, <2>2 DEF Extra
    <2>3. QED
        BY <2>1, <2>2
<1>8. CASE AgentStart
    BY <1>8 DEF AgentStart
<1>9. CASE AgentReset
    <2>1. {seeding, cmd, proved, ranOut}' \subseteq BOOLEAN
        BY <1>9 DEF AgentReset
    <2>2. QED
        BY <1>9, <2>1, UndoneIsOne DEF AgentReset
<1>10. CASE UNCHANGED agentVars
    BY <1>10 DEF agentVars
<1>11. QED
    BY <1>1, <1>2, <1>3, <1>4, <1>5, <1>6, <1>7, <1>8, <1>9, <1>10 DEF AgentStep

-----------------------------------------------------------------------------
(* Every step of the stage is a step of the gate or leaves it alone.       *)
LEMMA GateStepOfStage ==
    ASSUME StageInv, [Next]_vars
    PROVE  GateOK' /\ GateInv'
<1>1. GateOK /\ GateInv /\ yes \in BOOLEAN
    BY DEF StageInv, TypeOK
<1>2. GateStep(yes) \/ GateStart \/ GateReset \/ UNCHANGED gateVars
    BY DEF Next, Run, vars, Begin, NoPlanner, Replay, NoRoute, Compose, Stranded,
           ProposeStart, Proposed, Unproposed, SessionEnd, Boot, Pass, Verdict, ChecksFail,
           GiveUp, OomReboot, RepairStart, NoRepair, Repaired, Unrepaired, NoTarget, NotApplied, Revise,
           Gating, Working
<1>3. QED
    BY <1>1, <1>2, GateSteps

(* The session, likewise.                                                  *)
LEMMA AgentStepOfStage ==
    ASSUME StageInv, [Next]_vars
    PROVE  AgentOK' /\ AgentInv'
<1>1. AgentOK /\ AgentInv /\ yes \in BOOLEAN
    BY DEF StageInv, TypeOK
<1>2. AgentStep(yes) \/ AgentStart \/ AgentReset \/ UNCHANGED agentVars
    BY DEF Next, Run, vars, Begin, NoPlanner, Replay, NoRoute, Compose, Stranded,
           ProposeStart, Proposed, Unproposed, SessionEnd, Boot, Pass, Verdict, ChecksFail,
           GiveUp, OomReboot, RepairStart, NoRepair, Repaired, Unrepaired, NoTarget, NotApplied, Revise,
           Gating, Working
<1>3. QED
    BY <1>1, <1>2, AgentSteps

-----------------------------------------------------------------------------
(* The types.  A count of failures cannot pass two, for a plan that has    *)
(* failed twice is not booted.                                             *)
LEMMA StageTypeStep == StageInv /\ [Next]_vars => TypeOK'
<1> SUFFICES ASSUME StageInv, [Next]_vars PROVE TypeOK'
    OBVIOUS
<1> USE StageAssumption DEF Maybe
<1>a. GateOK' /\ AgentOK'
    BY GateStepOfStage, AgentStepOfStage
<1> DEFINE Rest ==
        /\ pc \in {"idle", "plan", "propose", "session", "boot", "verify", "failed",
                   "repair", "revise"}
        /\ kind \in {"intent", "gap", "route", "compose"}
        /\ mode \in {"auto", "plan", "agent"} /\ yes \in BOOLEAN
        /\ turn \in 1..Turns
        /\ {plan, icache, due} \subseteq Maybe
        /\ marker \in {"none", "pass", "fail", "unverified"}
        /\ evidence \in {"none", "fresh", "old"}
        /\ failures \in 0..2
        /\ runs \in 0..MaxRuns
<1>0. /\ Rest
      /\ pc = "failed" /\ kind = "intent" => failures < 2
      /\ pc \in {"repair", "revise"} => turn < Turns
      /\ gpc = "approved" => offer \in Plans
      /\ spec \in Plans \cup {NoPlan}
    BY DEF StageInv, TypeOK, GateInv, AgentOK, CacheInv
<1>b. Rest'
    <2>1. CASE Begin
        BY <1>0, <2>1 DEF Begin, stageVars
    <2>2. CASE NoPlanner
        BY <1>0, <2>2 DEF NoPlanner, stageVars
    <2>3. CASE Replay
        BY <1>0, <2>3 DEF Replay, Found, Cached, stageVars
    <2>4. CASE Compose
        BY <1>0, <2>4 DEF Compose, stageVars
    <2>5. CASE ProposeStart
        BY <1>0, <2>5 DEF ProposeStart, stageVars
    <2>6. CASE Proposed
        BY <1>0, <2>6 DEF Proposed, Keep, stageVars
    <2>7. CASE Unproposed
        BY <1>0, <2>7 DEF Unproposed, stageVars
    <2>8. CASE SessionEnd
        BY <1>0, <2>8 DEF SessionEnd, Keep, stageVars
    <2>9. CASE Boot
        BY <1>0, <2>9 DEF Boot, stageVars
    <2>10. CASE Pass
        BY <1>0, <2>10 DEF Pass, Verdict, stageVars
    <2>11. CASE Verdict("unverified")
        BY <1>0, <2>11 DEF Verdict, stageVars
    <2>12. CASE Verdict("fail")
        BY <1>0, <2>12 DEF Verdict, stageVars
    <2>13. CASE ChecksFail
        BY <1>0, <2>13 DEF ChecksFail, stageVars
    <2>14. CASE GiveUp
        BY <1>0, <2>14 DEF GiveUp, Failed, stageVars
    <2>15. CASE OomReboot
        BY <1>0, <2>15 DEF OomReboot, Reboot, stageVars
    <2>16. CASE RepairStart
        BY <1>0, <2>16 DEF RepairStart, stageVars
    <2>17. CASE NoRepair
        BY <1>0, <2>17 DEF NoRepair, stageVars
    <2>18. CASE Repaired
        <3>1. yes' \in BOOLEAN
            BY <1>0, <2>18 DEF Repaired, Recheck, Reboot
        <3>2. turn' \in 1..Turns /\ due' \in Maybe
            BY <1>0, <2>18 DEF Repaired, Recheck, Reboot
        <3>3. QED
            BY <1>0, <2>18, <3>1, <3>2 DEF Repaired, KeepRepair, Keep, Recheck, Reboot,
               stageVars
    <2>19. CASE Unrepaired
        BY <1>0, <2>19 DEF Unrepaired, stageVars
    <2>20. CASE NoTarget
        BY <1>0, <2>20 DEF NoTarget, stageVars
    <2>21. CASE NotApplied
        BY <1>0, <2>21 DEF NotApplied, stageVars
    <2>22. CASE Revise
        BY <1>0, <2>22 DEF Revise, ReviseCache, Reboot, stageVars
    <2>23. CASE Gating
        BY <1>0, <2>23 DEF Gating, stageVars
    <2>24. CASE Working
        BY <1>0, <2>24 DEF Working, stageVars
    <2>25. CASE UNCHANGED vars
        BY <1>0, <2>25 DEF vars, stageVars
    <2>26. CASE NoRoute
        BY <1>0, <2>26 DEF NoRoute, stageVars
    <2>27. CASE Stranded
        BY <1>0, <2>27 DEF Stranded, stageVars
    <2>28. QED
        BY <2>1, <2>2, <2>3, <2>4, <2>5, <2>6, <2>7, <2>8, <2>9, <2>10, <2>11,
           <2>12, <2>13, <2>14, <2>15, <2>16, <2>17, <2>18, <2>19, <2>20, <2>21,
           <2>22, <2>23, <2>24, <2>25, <2>26, <2>27 DEF Next, Run
<1>c. QED
    BY <1>a, <1>b DEF TypeOK

(* The cache.  A plan that boots is in the cache it came from or has just  *)
(* been put there, and it is turned away only after two failures.          *)
LEMMA CacheStep == StageInv /\ [Next]_vars => CacheInv'
<1> SUFFICES ASSUME StageInv, [Next]_vars PROVE CacheInv'
    OBVIOUS
<1> USE StageAssumption DEF CacheInv, PassIsReplayed, Rejected
<1>0. /\ CacheInv
      /\ failures \in 0..2 /\ turn \in 1..Turns
    BY DEF StageInv, TypeOK
<1>1. CASE Begin
    BY <1>0, <1>1 DEF Begin, stageVars
<1>2. CASE NoPlanner
    BY <1>0, <1>2 DEF NoPlanner, stageVars
<1>3. CASE Replay
    BY <1>0, <1>3 DEF Replay, Found, Cached, stageVars
<1>4. CASE Compose
    BY <1>0, <1>4 DEF Compose, stageVars
<1>5. CASE ProposeStart
    BY <1>0, <1>5 DEF ProposeStart, stageVars
<1>6. CASE Proposed
    BY <1>0, <1>6 DEF Proposed, Keep, stageVars
<1>7. CASE Unproposed
    BY <1>0, <1>7 DEF Unproposed, stageVars
<1>8. CASE SessionEnd
    BY <1>0, <1>8 DEF SessionEnd, Keep, stageVars
<1>9. CASE Boot
    BY <1>0, <1>9 DEF Boot, stageVars
<1>10. CASE Pass
    BY <1>0, <1>10 DEF Pass, Verdict, stageVars
<1>11. CASE Verdict("unverified")
    BY <1>0, <1>11 DEF Verdict, stageVars
<1>12. CASE Verdict("fail")
    BY <1>0, <1>12 DEF Verdict, stageVars
<1>13. CASE ChecksFail
    BY <1>0, <1>13 DEF ChecksFail, stageVars
<1>14. CASE GiveUp
    BY <1>0, <1>14 DEF GiveUp, Failed, stageVars
<1>15. CASE OomReboot
    BY <1>0, <1>15 DEF OomReboot, Reboot, stageVars
<1>16. CASE RepairStart
    BY <1>0, <1>16 DEF RepairStart, stageVars
<1>17. CASE NoRepair
    BY <1>0, <1>17 DEF NoRepair, stageVars
<1>18. CASE Repaired
    BY <1>0, <1>18 DEF Repaired, KeepRepair, Keep, Recheck, Reboot, stageVars
<1>19. CASE Unrepaired
    BY <1>0, <1>19 DEF Unrepaired, stageVars
<1>20. CASE NoTarget
    BY <1>0, <1>20 DEF NoTarget, stageVars
<1>21. CASE NotApplied
    BY <1>0, <1>21 DEF NotApplied, stageVars
<1>22. CASE Revise
    BY <1>0, <1>22 DEF Revise, ReviseCache, Reboot, stageVars
<1>23. CASE Gating
    BY <1>0, <1>23 DEF Gating, stageVars
<1>24. CASE Working
    BY <1>0, <1>24 DEF Working, stageVars
<1>25. CASE UNCHANGED vars
    BY <1>0, <1>25 DEF vars, stageVars
<1>26. CASE NoRoute
    BY <1>0, <1>26 DEF NoRoute, stageVars
<1>27. CASE Stranded
    BY <1>0, <1>27 DEF Stranded, stageVars
<1>28. QED
    BY <1>1, <1>2, <1>3, <1>4, <1>5, <1>6, <1>7, <1>8, <1>9, <1>10, <1>11,
       <1>12, <1>13, <1>14, <1>15, <1>16, <1>17, <1>18, <1>19, <1>20, <1>21,
       <1>22, <1>23, <1>24, <1>25, <1>26, <1>27 DEF Next, Run

(* A reboot.  What a revision, a repair or a shortage of memory leaves in  *)
(* the cache is what the child's planning finds.                           *)
LEMMA RebootStep == StageInv /\ [Next]_vars => RebootInv'
<1> SUFFICES ASSUME StageInv, [Next]_vars PROVE RebootInv'
    OBVIOUS
<1> USE StageAssumption DEF RebootInv, RebootBootsIt, Cached, Rejected
<1>0. /\ RebootInv
      /\ failures \in 0..2 /\ turn \in 1..Turns
      /\ kind \in {"intent", "gap", "route", "compose"}
      /\ pc \in {"failed", "repair", "revise"} /\ kind = "intent" => failures < 2
      /\ pc \in {"repair", "revise"} => turn < Turns
    BY DEF StageInv, TypeOK, CacheInv
<1>1. CASE Begin
    BY <1>0, <1>1 DEF Begin, stageVars
<1>2. CASE NoPlanner
    BY <1>0, <1>2 DEF NoPlanner, stageVars
<1>3. CASE Replay
    BY <1>0, <1>3 DEF Replay, Found, Cached, stageVars
<1>4. CASE Compose
    BY <1>0, <1>4 DEF Compose, stageVars
<1>5. CASE ProposeStart
    BY <1>0, <1>5 DEF ProposeStart, Planless, stageVars
<1>6. CASE Proposed
    BY <1>0, <1>6 DEF Proposed, Keep, stageVars
<1>7. CASE Unproposed
    BY <1>0, <1>7 DEF Unproposed, stageVars
<1>8. CASE SessionEnd
    BY <1>0, <1>8 DEF SessionEnd, Keep, stageVars
<1>9. CASE Boot
    BY <1>0, <1>9 DEF Boot, stageVars
<1>10. CASE Pass
    BY <1>0, <1>10 DEF Pass, Verdict, stageVars
<1>11. CASE Verdict("unverified")
    BY <1>0, <1>11 DEF Verdict, stageVars
<1>12. CASE Verdict("fail")
    BY <1>0, <1>12 DEF Verdict, stageVars
<1>13. CASE ChecksFail
    BY <1>0, <1>13 DEF ChecksFail, stageVars
<1>14. CASE GiveUp
    BY <1>0, <1>14 DEF GiveUp, Failed, stageVars
<1>15. CASE OomReboot
    BY <1>0, <1>15 DEF OomReboot, Reboot, stageVars
<1>16. CASE RepairStart
    BY <1>0, <1>16 DEF RepairStart, stageVars
<1>17. CASE NoRepair
    BY <1>0, <1>17 DEF NoRepair, stageVars
<1>18. CASE Repaired
    BY <1>0, <1>18 DEF Repaired, KeepRepair, Keep, Recheck, Reboot, stageVars
<1>19. CASE Unrepaired
    BY <1>0, <1>19 DEF Unrepaired, stageVars
<1>20. CASE NoTarget
    BY <1>0, <1>20 DEF NoTarget, stageVars
<1>21. CASE NotApplied
    BY <1>0, <1>21 DEF NotApplied, stageVars
<1>22. CASE Revise
    BY <1>0, <1>22 DEF Revise, ReviseCache, Reboot, stageVars
<1>23. CASE Gating
    BY <1>0, <1>23 DEF Gating, stageVars
<1>24. CASE Working
    BY <1>0, <1>24 DEF Working, stageVars
<1>25. CASE UNCHANGED vars
    BY <1>0, <1>25 DEF vars, stageVars
<1>26. CASE NoRoute
    BY <1>0, <1>26 DEF NoRoute, stageVars
<1>27. CASE Stranded
    BY <1>0, <1>27 DEF Stranded, stageVars
<1>28. QED
    BY <1>1, <1>2, <1>3, <1>4, <1>5, <1>6, <1>7, <1>8, <1>9, <1>10, <1>11,
       <1>12, <1>13, <1>14, <1>15, <1>16, <1>17, <1>18, <1>19, <1>20, <1>21,
       <1>22, <1>23, <1>24, <1>25, <1>26, <1>27 DEF Next, Run

(* The invariant holds throughout.                                         *)
THEOREM StageInvariance == Spec => []StageInv
<1>1. StageInv /\ [Next]_vars => StageInv'
    BY StageTypeStep, GateStepOfStage, AgentStepOfStage, CacheStep, RebootStep DEF
       StageInv
<1>2. QED
    BY StageInvInit, <1>1, PTL DEF Spec

-----------------------------------------------------------------------------
(* The state of the stage has its type (vmf_verify_stage).                 *)
THEOREM StageTypes == Spec => []TypeOK
BY StageInvariance, PTL DEF StageInv

(* What the gate of intent_cmd and gapfill lets through was seen.          *)
THEOREM SeenTheorem == Spec => []NothingUnseenIsKept
BY StageInvariance, PTL DEF StageInv, GateInv

(* What agent_cmd hands over passed in the guest, or the session ran out.  *)
THEOREM ProvedTheorem == Spec => []ProvedUnlessRanOut
BY StageInvariance, PTL DEF StageInv, AgentInv

(* An intent that passed is replayed with the plan that passed, however    *)
(* many turns, repairs, revisions and runs came before.                    *)
THEOREM ReplayedTheorem == Spec => []PassIsReplayed
BY StageInvariance, PTL DEF StageInv, CacheInv

(* The child of an intent's reboot brings up the plan it was made for, not *)
(* the one it replaces nor a fresh one (vmf_verify_stage, intent_cmd).     *)
THEOREM RebootTheorem == Spec => []RebootBootsIt
BY StageInvariance, PTL DEF StageInv, RebootInv

-----------------------------------------------------------------------------
(* The stage is a chain: a step of the stage, seen as phase, turn and      *)
(* word, is one the race takes for granted.                                *)
LEMMA ChainInit == Init => Contract!Init
BY StageAssumption DEF Init, Contract!Init, Phase, Word

LEMMA ChainStep == StageInv /\ [Next]_vars => [Contract!Next]_(Contract!chvars)
<1> SUFFICES ASSUME StageInv, [Next]_vars
             PROVE  Contract!Next \/ UNCHANGED <<Phase, turn, Word>>
    BY DEF Contract!chvars
<1> DEFINE Cut == /\ Phase' \in {Phase, "off"} /\ Word' \in {Word, "none"}
                  /\ turn' = turn
           Up == /\ Phase = "boot" /\ Phase' = "verify"
                 /\ turn' = turn /\ Word' = Word
           Again == /\ Phase = "verify" /\ turn < Turns
                    /\ Phase' \in {"boot", "verify"} /\ turn' = turn + 1
                    /\ Word' = Word
           Decide == /\ Phase = "verify" /\ Phase' = "off"
                     /\ Word' \in {"pass", "fail"} /\ turn' = turn
           Start == Phase' = "boot" /\ turn' = 1 /\ Word' = "none"
<1>0. /\ marker # "none" => pc = "idle"
      /\ pc \in {"repair", "revise"} => turn < Turns
    BY DEF StageInv, CacheInv
<1> USE DEF Phase, Word
<1>1. ASSUME Begin PROVE Start
    BY <1>0, <1>1 DEF Begin
<1>2. ASSUME NoPlanner PROVE Cut
    BY <1>0, <1>2 DEF NoPlanner, stageVars
<1>3. ASSUME Replay PROVE Cut
    BY <1>0, <1>3 DEF Replay
<1>4. ASSUME Compose PROVE Cut
    BY <1>0, <1>4 DEF Compose
<1>5. ASSUME ProposeStart PROVE Cut
    BY <1>0, <1>5 DEF ProposeStart, stageVars
<1>6. ASSUME Proposed PROVE Cut
    BY <1>0, <1>6 DEF Proposed
<1>7. ASSUME Unproposed PROVE Cut
    BY <1>0, <1>7 DEF Unproposed, stageVars
<1>8. ASSUME SessionEnd PROVE Cut
    BY <1>0, <1>8 DEF SessionEnd
<1>9. ASSUME Boot PROVE Up \/ Cut
    BY <1>0, <1>9 DEF Boot, stageVars
<1>10. ASSUME Pass PROVE Decide
    BY <1>0, <1>10 DEF Pass, Verdict
<1>11. ASSUME Verdict("unverified") PROVE Decide
    BY <1>0, <1>11 DEF Verdict
<1>12. ASSUME Verdict("fail") PROVE Decide
    BY <1>0, <1>12 DEF Verdict
<1>13. ASSUME ChecksFail PROVE Cut
    BY <1>0, <1>13 DEF ChecksFail
<1>14. ASSUME GiveUp PROVE Decide
    BY <1>0, <1>14 DEF GiveUp
<1>15. ASSUME OomReboot PROVE Again
    BY <1>0, <1>15 DEF OomReboot, Reboot
<1>16. ASSUME RepairStart PROVE Cut
    BY <1>0, <1>16 DEF RepairStart, stageVars
<1>17. ASSUME NoRepair PROVE Cut
    BY <1>0, <1>17 DEF NoRepair, stageVars
<1>18. ASSUME Repaired PROVE Again
    BY <1>0, <1>18 DEF Repaired, Recheck, Reboot
<1>19. ASSUME Unrepaired PROVE Cut
    BY <1>0, <1>19 DEF Unrepaired, stageVars
<1>20. ASSUME NoTarget PROVE Decide
    BY <1>0, <1>20 DEF NoTarget
<1>21. ASSUME NotApplied PROVE Cut
    BY <1>0, <1>21 DEF NotApplied, stageVars
<1>22. ASSUME Revise PROVE Again
    BY <1>0, <1>22 DEF Revise, Reboot
<1>23. ASSUME Gating PROVE Cut
    BY <1>0, <1>23 DEF Gating, stageVars
<1>24. ASSUME Working PROVE Cut
    BY <1>0, <1>24 DEF Working, stageVars
<1>25. ASSUME UNCHANGED vars PROVE Cut
    BY <1>0, <1>25 DEF vars, stageVars
<1>26. ASSUME NoRoute PROVE Cut
    BY <1>0, <1>26 DEF NoRoute, stageVars
<1>27. ASSUME Stranded PROVE Cut
    BY <1>0, <1>27 DEF Stranded, stageVars
<1>28. Start \/ Up \/ Again \/ Decide \/ Cut
    <2> HIDE DEF Start, Up, Again, Decide, Cut
    <2> QED
        BY <1>1, <1>2, <1>3, <1>4, <1>5, <1>6, <1>7, <1>8, <1>9, <1>10, <1>11, <1>12,
           <1>13, <1>14, <1>15, <1>16, <1>17, <1>18, <1>19, <1>20, <1>21, <1>22, <1>23,
           <1>24, <1>25, <1>26, <1>27 DEF Next, Run
<1>29. QED
    BY <1>28 DEF Contract!Next, Contract!Start, Contract!Up, Contract!Again,
                  Contract!Decide, Contract!Cut

(* vmf_verify_stage is the chain the race takes for granted.               *)
THEOREM ChainTheorem == Spec => ImplementsChain
BY ChainInit, ChainStep, StageInvariance, PTL DEF Spec, ImplementsChain, Contract!Spec

-----------------------------------------------------------------------------
(* A step of the gate spends, whoever answers at it.                       *)
LEMMA GateSpending ==
    ASSUME GateOK, NEW y \in BOOLEAN, GateStep(y)
    PROVE  GateSpends
<1> USE RoundsAssumption DEF GateOK, GateSpends, GateRank
<1>1. CASE Finalize
    BY <1>1 DEF Finalize
<1>2. CASE Approve
    BY <1>2 DEF Approve
<1>3. CASE Decline(y)
    BY <1>3 DEF Decline
<1>4. CASE Change(y)
    BY <1>4 DEF Change, TakeAtCap
<1>5. QED
    BY <1>1, <1>2, <1>3, <1>4 DEF GateStep

(* A step of the session, likewise.                                        *)
LEMMA AgentSpending ==
    ASSUME AgentOK, NEW y \in BOOLEAN, AgentStep(y)
    PROVE  AgentSpends
<1> USE AgentAssumption DEF AgentOK, AgentSpends, AgentRank, End
<1>1. CASE SeedDone
    BY <1>1 DEF SeedDone
<1>2. CASE Think
    BY <1>2 DEF Think
<1>3. CASE RunOut
    BY <1>3 DEF RunOut
<1>4. CASE Act
    BY <1>4 DEF Act
<1>5. CASE Judge
    BY <1>5 DEF Judge, Try
<1>6. CASE Gate(y)
    BY <1>6 DEF Gate
<1>7. CASE Extra
    BY <1>7 DEF Extra, Replace
<1>8. QED
    BY <1>1, <1>2, <1>3, <1>4, <1>5, <1>6, <1>7 DEF AgentStep

(* Each step of a run takes one of the turns there are, or goes down in    *)
(* the order of the places a turn passes through, or spends in one.        *)
LEMMA SpendingStep ==
    ASSUME StageInv, Run
    PROVE  \/ turn' \in (turn + 1)..Turns
           \/ turn' = turn /\ Rank' < Rank
           \/ /\ UNCHANGED <<turn, pc>>
              /\ \/ GateSpends /\ UNCHANGED agentVars
                 \/ AgentSpends /\ UNCHANGED gateVars
<1> DEFINE Turn == turn' \in (turn + 1)..Turns
           Nearer == turn' = turn /\ Rank' < Rank
<1>0. /\ turn \in 1..Turns /\ Turns \in Nat
      /\ pc \in {"repair", "revise"} => turn < Turns
      /\ GateOK /\ AgentOK /\ yes \in BOOLEAN
    BY StageAssumption DEF StageInv, TypeOK, CacheInv
<1>1. ASSUME NoPlanner PROVE Nearer
    BY <1>0, <1>1 DEF NoPlanner, stageVars, Rank
<1>2. ASSUME Replay PROVE Nearer
    BY <1>0, <1>2 DEF Replay, Rank
<1>3. ASSUME Compose PROVE Nearer
    BY <1>0, <1>3 DEF Compose, Rank
<1>4. ASSUME ProposeStart PROVE Nearer
    BY <1>0, <1>4 DEF ProposeStart, stageVars, Rank
<1>5. ASSUME Proposed PROVE Nearer
    BY <1>0, <1>5 DEF Proposed, Rank
<1>6. ASSUME Unproposed PROVE Nearer
    BY <1>0, <1>6 DEF Unproposed, stageVars, Rank
<1>7. ASSUME SessionEnd PROVE Nearer
    BY <1>0, <1>7 DEF SessionEnd, Rank
<1>8. ASSUME Boot PROVE Nearer
    BY <1>0, <1>8 DEF Boot, stageVars, Rank
<1>9. ASSUME Pass PROVE Nearer
    BY <1>0, <1>9 DEF Pass, Verdict, Rank
<1>10. ASSUME Verdict("unverified") PROVE Nearer
    BY <1>0, <1>10 DEF Verdict, Rank
<1>11. ASSUME Verdict("fail") PROVE Nearer
    BY <1>0, <1>11 DEF Verdict, Rank
<1>12. ASSUME ChecksFail PROVE Nearer
    BY <1>0, <1>12 DEF ChecksFail, Rank
<1>13. ASSUME GiveUp PROVE Nearer
    BY <1>0, <1>13 DEF GiveUp, Rank
<1>14. ASSUME OomReboot PROVE Turn
    BY <1>0, <1>14 DEF OomReboot, Reboot
<1>15. ASSUME RepairStart PROVE Nearer
    BY <1>0, <1>15 DEF RepairStart, stageVars, Rank
<1>16. ASSUME NoRepair PROVE Nearer
    BY <1>0, <1>16 DEF NoRepair, stageVars, Rank
<1>17. ASSUME Repaired PROVE Turn
    BY <1>0, <1>17 DEF Repaired, Recheck, Reboot
<1>18. ASSUME Unrepaired PROVE Nearer
    BY <1>0, <1>18 DEF Unrepaired, stageVars, Rank
<1>19. ASSUME NoTarget PROVE Nearer
    BY <1>0, <1>19 DEF NoTarget, Rank
<1>20. ASSUME NotApplied PROVE Nearer
    BY <1>0, <1>20 DEF NotApplied, stageVars, Rank
<1>21. ASSUME Revise PROVE Turn
    BY <1>0, <1>21 DEF Revise, Reboot
<1>22. ASSUME Gating PROVE UNCHANGED <<turn, pc>> /\ GateSpends /\ UNCHANGED agentVars
    BY <1>0, <1>22, GateSpending DEF Gating, stageVars
<1>23. ASSUME Working PROVE UNCHANGED <<turn, pc>> /\ AgentSpends /\ UNCHANGED gateVars
    BY <1>0, <1>23, AgentSpending DEF Working, stageVars
<1>24. ASSUME NoRoute PROVE Nearer
    BY <1>0, <1>24 DEF NoRoute, stageVars, Rank
<1>25. ASSUME Stranded PROVE Nearer
    BY <1>0, <1>25 DEF Stranded, stageVars, Rank
<1> HIDE DEF Turn, Nearer
<1>26. \/ Turn \/ Nearer
      \/ /\ UNCHANGED <<turn, pc>>
         /\ \/ GateSpends /\ UNCHANGED agentVars
            \/ AgentSpends /\ UNCHANGED gateVars
    BY <1>1, <1>2, <1>3, <1>4, <1>5, <1>6, <1>7, <1>8, <1>9, <1>10, <1>11, <1>12, <1>13,
       <1>14, <1>15, <1>16, <1>17, <1>18, <1>19, <1>20, <1>21, <1>22, <1>23, <1>24,
       <1>25 DEF Run
<1>27. QED
    BY <1>26 DEF Turn, Nearer

(* No run goes round for ever: its steps have a bound that no model, user  *)
(* or service can move (vmf_verify_stage, agent_cmd, gapfill).             *)
THEOREM SpendsTheorem == Spec => EachStepSpends
<1>1. StageInv /\ [Next]_vars => [runs' = runs =>
         \/ turn' \in (turn + 1)..Turns
         \/ turn' = turn /\ Rank' < Rank
         \/ /\ UNCHANGED <<turn, pc>>
            /\ \/ GateSpends /\ UNCHANGED agentVars
               \/ AgentSpends /\ UNCHANGED gateVars]_vars
    <2>1. StageInv /\ Begin => runs' # runs
        BY DEF StageInv, TypeOK, Begin
    <2>2. QED
        BY <2>1, SpendingStep DEF Next
<1>2. QED
    BY <1>1, StageInvariance, PTL DEF Spec, EachStepSpends
=============================================================================
