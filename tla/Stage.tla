------------------------------- MODULE Stage --------------------------------
(***************************************************************************)
(* One name's way from a plan to a verdict: the planning of an intent run  *)
(* or of a candidate of a repository, the boot, and the verify stage with  *)
(* its repairs and reboots (vmf_verify_stage and the intent section of     *)
(* src/scripts/oci-run.sh, revise_cmd of vmf_verify.py), over several runs *)
(* of the program that share the intent's plan cache.  The files under a   *)
(* repository's evidence, which siblings and scouts write and a revision   *)
(* need not reach, are PlanFiles' and Planning's: a repository finds any   *)
(* plan there, or none.  What one verify run does is Verify; here it is    *)
(* its exit code.  The detached boot with --ssh is meant throughout; the   *)
(* plan VM of an agent session and the transcript it resumes from are not  *)
(* followed.                                                               *)
(***************************************************************************)
EXTENDS Propose, Agent

CONSTANTS Stack,    \* the plan the repository's compose file translates to
          Turns,    \* VMF_VERIFY_TURNS
          MaxRuns   \* bound: runs of the program

ASSUME StageAssumption ==
    Stack \in Plans /\ Turns \in Nat \ {0} /\ MaxRuns \in Nat \ {0}

VARIABLES
    pc,         \* "idle", "plan", "propose", "session", "boot", "verify",
                \* "failed" (checks failed), "repair", "revise"
    kind,       \* what the run was given: "intent", or a candidate of a race
                \* that boots the shared gap-fill plan ("gap"), a scout route's
                \* own ("route", VMF_PLAN_DIRECT), a compose stack ("compose")
    mode,       \* VMF_INTENT_MODE
    yes,        \* vmf_llm.accepted
    turn,       \* VMF_VERIFY_TURN
    plan,       \* vplan: the plan the VM was booted with or repaired to
    marker,     \* the verdict marker: "none", "pass", "fail", "unverified"
    evidence,   \* the flat evidence file: "none", "fresh", "old" (another run's)
    icache,     \* direct.json under the image and the phrase
    failures,   \* meta["failed"] beside it
    due,        \* history: the plan a reboot is made for, NoPlan for none
    runs        \* runs begun

stageVars == <<kind, mode, turn, plan, marker, evidence, icache, failures>>
vars == <<pc, yes, due, runs, stageVars, gateVars, agentVars>>

Maybe == Plans \cup {NoPlan}

TypeOK ==
    /\ GateOK /\ AgentOK
    /\ pc \in {"idle", "plan", "propose", "session", "boot", "verify", "failed",
               "repair", "revise"}
    /\ kind \in {"intent", "gap", "route", "compose"}
    /\ mode \in {"auto", "plan", "agent"} /\ yes \in BOOLEAN
    /\ turn \in 1..Turns
    /\ {plan, icache, due} \subseteq Maybe
    /\ marker \in {"none", "pass", "fail", "unverified"}
    /\ evidence \in {"none", "fresh", "old"}
    /\ failures \in 0..2
    /\ runs \in 0..MaxRuns

Init ==
    /\ GateOff /\ AgentOff
    /\ pc = "idle" /\ kind = "intent" /\ mode = "auto" /\ yes = FALSE
    /\ turn = 1 /\ plan = NoPlan /\ marker = "none" /\ evidence = "none"
    /\ icache = NoPlan /\ failures = 0 /\ due = NoPlan /\ runs = 0

(* A candidate runs under --yes.                                           *)
Begin ==
    /\ pc = "idle" /\ runs < MaxRuns
    /\ runs' = runs + 1 /\ pc' = "plan"
    /\ kind' \in {"intent", "gap", "route", "compose"}
    /\ mode' \in {"auto", "plan", "agent"}
    /\ yes' \in BOOLEAN /\ (kind' # "intent" => yes')
    /\ turn' = 1 /\ plan' = NoPlan /\ marker' = "none" /\ due' = NoPlan
    /\ evidence' = IF evidence = "fresh" THEN "old" ELSE evidence
    /\ UNCHANGED <<icache, failures, gateVars, agentVars>>

-----------------------------------------------------------------------------
(* Planning.  The first process and every reboot's child come through it.  *)

RejectedLate == failures > 2
Rejected == failures >= 2

(* What an intent's planner replays, and what a planner may find.          *)
Cached == IF Rejected THEN NoPlan ELSE icache

Found == CASE kind = "intent"  -> IF mode = "agent" THEN {} ELSE {Cached} \ {NoPlan}
           [] kind = "compose" -> {}
           [] OTHER            -> Plans

Planless == \/ kind = "gap"
            \/ kind = "intent" /\ mode # "agent" /\ Cached = NoPlan

(* Mode "agent" passes the planner over, but the session starts only when  *)
(* the planner has failed: the run dies reading a plan nobody wrote.       *)
NoPlanner ==
    /\ pc = "plan" /\ kind = "intent" /\ mode = "agent"
    /\ pc' = "idle"
    /\ UNCHANGED <<yes, due, runs, stageVars, gateVars, agentVars>>

Replay ==
    /\ pc = "plan" /\ plan' \in Found /\ pc' = "boot"
    /\ UNCHANGED <<kind, mode, yes, turn, marker, evidence, icache, failures,
                   due, runs, gateVars, agentVars>>

(* The route's own file is gone: no other plan boots in its place.         *)
NoRoute ==
    /\ pc = "plan" /\ kind = "route"
    /\ pc' = "idle"
    /\ UNCHANGED <<yes, due, runs, stageVars, gateVars, agentVars>>

(* The repository's compose file, or the one the gap-filler made of an     *)
(* approved proposal in docker mode.                                       *)
Compose ==
    /\ pc = "plan" /\ kind = "compose" /\ turn = 1
    /\ plan' = Stack /\ pc' = "boot"
    /\ UNCHANGED <<kind, mode, yes, turn, marker, evidence, icache, failures,
                   due, runs, gateVars, agentVars>>

(* The reboot of a stack inherits VMF_MODE from the script that handed it  *)
(* over, so its child never comes to planning: it takes the repository for *)
(* an image, and dies.                                                     *)
Stranded ==
    /\ pc = "plan" /\ kind = "compose" /\ turn > 1
    /\ pc' = "idle"
    /\ UNCHANGED <<yes, due, runs, stageVars, gateVars, agentVars>>

ProposeStart ==
    /\ pc = "plan" /\ Planless
    /\ GateStart /\ pc' = "propose"
    /\ UNCHANGED <<yes, due, runs, stageVars, agentVars>>

(* A new plan of an intent is cached, and has no failures yet.             *)
Keep(p) == IF kind = "intent" THEN icache' = p /\ failures' = 0
                              ELSE UNCHANGED <<icache, failures>>

Proposed ==
    /\ pc = "propose" /\ gpc = "approved"
    /\ Keep(offer) /\ plan' = offer /\ pc' = "boot"
    /\ GateReset
    /\ UNCHANGED <<kind, mode, yes, turn, marker, evidence, due, runs, agentVars>>

(* Not approved, or nothing to approve: an intent run wakes the agent.     *)
Unproposed ==
    /\ pc = "propose" /\ gpc \in {"refused", "failed"}
    /\ GateReset
    /\ \/ kind = "intent" /\ mode = "auto" /\ AgentStart /\ pc' = "session"
       \/ ~(kind = "intent" /\ mode = "auto") /\ pc' = "idle" /\ UNCHANGED agentVars
    /\ UNCHANGED <<yes, due, runs, stageVars>>

AgentOver == apc = "ended" /\ ~seeding

SessionEnd ==
    /\ pc = "session" /\ AgentOver
    /\ \/ /\ arc = 0
          /\ Keep(spec) /\ plan' = spec /\ pc' = "boot"
       \/ /\ arc # 0 /\ pc' = "idle"
          /\ UNCHANGED <<icache, failures, plan>>
    /\ AgentReset
    /\ UNCHANGED <<kind, mode, yes, turn, marker, evidence, due, runs, gateVars>>

Boot ==
    /\ pc = "boot"
    /\ pc' \in {"verify", "idle"}           \* the boot may fail, under set -e
    /\ due' = NoPlan
    /\ UNCHANGED <<yes, runs, stageVars, gateVars, agentVars>>

-----------------------------------------------------------------------------
(* The verify run, and the markers of its exit codes: pass, nothing to     *)
(* verify, no ssh or an error of its own, failed checks.                   *)

Verdict(v) ==
    /\ pc = "verify" /\ pc' = "idle" /\ marker' = v
    /\ UNCHANGED <<kind, mode, yes, turn, plan, evidence, icache, failures,
                   due, runs, gateVars, agentVars>>

Pass == Verdict("pass")

Failed == IF kind = "intent" THEN failures + 1 ELSE failures

(* Failed checks have their evidence, unless the service was not swept.    *)
ChecksFailCounted ==
    /\ pc = "verify" /\ pc' = "failed"
    /\ evidence' \in {"fresh", evidence} /\ failures' = Failed
    /\ UNCHANGED <<kind, mode, yes, turn, plan, marker, icache,
                   due, runs, gateVars, agentVars>>
ChecksFail ==
    /\ pc = "verify" /\ pc' = "failed"
    /\ evidence' \in {"fresh", evidence}
    /\ UNCHANGED <<kind, mode, yes, turn, plan, marker, icache, failures,
                   due, runs, gateVars, agentVars>>

(* The marker, and then the failure an intent's cache remembers: only that *)
(* of a last turn.                                                         *)
GiveUp ==
    /\ pc = "failed" /\ turn >= Turns
    /\ pc' = "idle" /\ marker' = "fail" /\ failures' = Failed
    /\ UNCHANGED <<kind, mode, yes, turn, plan, evidence, icache,
                   due, runs, gateVars, agentVars>>

(* stop.sh, and a child that plans again from the first argv, under --yes. *)
Reboot(p) ==
    /\ pc' = "plan" /\ turn' = turn + 1 /\ yes' = TRUE /\ due' = p

(* A compose stack killed for memory is rebooted for more of it.  A        *)
(* repaired plan is none.                                                  *)
OomReboot ==
    /\ pc = "failed" /\ turn < Turns /\ kind = "compose" /\ evidence # "none"
    /\ plan = Stack /\ Reboot(Stack)
    /\ UNCHANGED <<kind, mode, plan, marker, evidence, icache, failures,
                   runs, gateVars, agentVars>>

RepairStart ==
    /\ pc = "failed" /\ turn < Turns /\ mode # "plan"
    /\ AgentStart /\ pc' = "repair"
    /\ UNCHANGED <<yes, due, runs, stageVars, gateVars>>

NoRepairAnyTurn ==
    /\ pc = "failed" /\ pc' = "revise"
    /\ UNCHANGED <<yes, due, runs, stageVars, gateVars, agentVars>>
NoRepair ==               \* the VM does not answer, or mode is "plan"
    /\ pc = "failed" /\ turn < Turns
    /\ pc' = "revise"
    /\ UNCHANGED <<yes, due, runs, stageVars, gateVars, agentVars>>

(* The agent has fixed the VM in place and cached its plan for the intent: *)
(* the same stage again, or a reboot when the published ports have moved.  *)
RecheckSameTurn == pc' = "verify" /\ UNCHANGED <<turn, yes, due>>
Recheck == pc' = "verify" /\ turn' = turn + 1 /\ UNCHANGED <<yes, due>>

KeepNoRepair == UNCHANGED <<icache, failures>>
KeepRepair == Keep(spec)

Repaired ==
    /\ pc = "repair" /\ AgentOver /\ arc = 0
    /\ KeepRepair
    /\ IF Ports[spec] = Ports[plan]
       THEN plan' = spec /\ Recheck
       ELSE Reboot(spec) /\ UNCHANGED plan
    /\ AgentReset
    /\ UNCHANGED <<kind, mode, marker, evidence, runs, gateVars>>

Unrepaired ==
    /\ pc = "repair" /\ AgentOver /\ arc # 0
    /\ pc' = "revise" /\ AgentReset
    /\ UNCHANGED <<yes, due, runs, stageVars, gateVars>>

(* revise_cmd.  A compose stack has no cache to revise.                    *)
NoTarget ==
    /\ pc = "revise" /\ kind = "compose"
    /\ pc' = "idle" /\ marker' = "fail"
    /\ UNCHANGED <<kind, mode, yes, turn, plan, evidence, icache, failures,
                   due, runs, gateVars, agentVars>>

NotApplied ==             \* no evidence, no model, no command; no marker either
    /\ pc = "revise" /\ kind # "compose"
    /\ pc' = "idle"
    /\ UNCHANGED <<yes, due, runs, stageVars, gateVars, agentVars>>

(* Of a repository only direct.json is revised (Planning).                 *)
ReviseCache(p) == icache' = IF kind = "intent" THEN p ELSE icache

Revise ==
    /\ pc = "revise" /\ kind # "compose" /\ evidence # "none"
    /\ \E p \in Plans : ReviseCache(p) /\ Reboot(p)
    /\ UNCHANGED <<kind, mode, plan, marker, evidence, failures,
                   runs, gateVars, agentVars>>

-----------------------------------------------------------------------------
Gating == /\ pc = "propose" /\ GateStep(yes)
          /\ UNCHANGED <<pc, yes, due, runs, stageVars, agentVars>>

Working == /\ pc \in {"session", "repair"} /\ AgentStep(yes)
           /\ UNCHANGED <<pc, yes, due, runs, stageVars, gateVars>>

Run == \/ NoPlanner \/ Replay \/ NoRoute \/ Compose \/ Stranded
       \/ ProposeStart \/ Proposed \/ Unproposed \/ SessionEnd \/ Boot
       \/ Pass \/ Verdict("unverified") \/ Verdict("fail") \/ ChecksFail
       \/ GiveUp \/ OomReboot \/ RepairStart \/ NoRepair \/ Repaired \/ Unrepaired
       \/ NoTarget \/ NotApplied \/ Revise
       \/ Gating \/ Working

Next == Begin \/ Run

Spec == Init /\ [][Next]_vars
FairSpec == Spec /\ WF_vars(Run)

-----------------------------------------------------------------------------
(* An intent run that passed leaves in the intent's cache the very plan    *)
(* that passed, whether it was replayed, proposed, demonstrated, repaired  *)
(* in place or revised on the way, and no failure of an earlier plan makes *)
(* the next run turn it away.                                              *)
PassIsReplayed == (marker = "pass" /\ kind = "intent") => icache = plan /\ ~Rejected

(* The VM an intent's reboot brings up runs the plan it was rebooted for,  *)
(* the one revised or repaired, never a fresh one nor the cached one it    *)
(* replaces, whatever failed before it in this run or an earlier one.  No  *)
(* such promise is kept to a candidate of a repository: a route reads its  *)
(* own file again, which no revision reaches; a repair is not cached; a    *)
(* stack is stranded.                                                      *)
RebootBootsIt == (pc = "boot" /\ kind = "intent" /\ due # NoPlan) => plan = due

(* What the gate let through is the proposal the user saw last.            *)
NothingUnseenIsKept == gpc = "approved" => offer = shown

(* The stage is the chain a race takes for granted: a bounded number of    *)
(* turns, one marker, written at the end of the run, by a verification.    *)
Phase == CASE pc = "idle" -> "off"
           [] pc \in {"plan", "propose", "session", "boot"} -> "boot"
           [] OTHER -> "verify"
Word == IF marker = "unverified" THEN "fail" ELSE marker
Contract == INSTANCE Chain WITH phase <- Phase, word <- Word
ImplementsChain == Contract!Spec

(* Every step of a run uses something up: it takes a turn, comes nearer to *)
(* the verdict of the turn it is at, or spends at the gate or in the       *)
(* session while the other rests.  Turns, changes and instructions are     *)
(* capped, so no answer of a model, a user or a service makes a run go     *)
(* round for ever (VMF_VERIFY_TURN and the caps of the two loops).         *)
Rank == CASE pc = "plan" -> 8 [] pc = "propose" -> 7 [] pc = "session" -> 6
          [] pc = "boot" -> 5 [] pc = "verify" -> 4 [] pc = "failed" -> 3
          [] pc = "repair" -> 2 [] pc = "revise" -> 1 [] OTHER -> 0
EachStepSpends ==
    [][runs' = runs =>
         \/ turn' \in (turn + 1)..Turns
         \/ turn' = turn /\ Rank' < Rank
         \/ /\ UNCHANGED <<turn, pc>>
            /\ \/ GateSpends /\ UNCHANGED agentVars
               \/ AgentSpends /\ UNCHANGED gateVars]_vars

(* Each run ends, whatever models and services do: turns, rounds and       *)
(* repairs all count towards a bound.                                      *)
RunEnds == pc # "idle" ~> pc = "idle"
=============================================================================
