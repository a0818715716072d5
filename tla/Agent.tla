------------------------------- MODULE Agent --------------------------------
(***************************************************************************)
(* agent_cmd of src/scripts/vmf_agent.py: a model drives a VM over ssh, a  *)
(* command a turn, until its plan passes in the guest, and the gate hands  *)
(* the plan over.  The deadline may fall at the head of any turn.  Host    *)
(* image supply runs in a thread that is joined before the next turn or    *)
(* command; the process ends when the thread has.                          *)
(***************************************************************************)
EXTENDS RunPlans

CONSTANTS AgentTurns,   \* VMF_AGENT_TURNS
          InfraCap,     \* plumbing commands in a row that end the session (3)
          ExtraCap      \* instructions taken at the gate (2)

ASSUME AgentAssumption ==
    AgentTurns \in Nat \ {0} /\ InfraCap \in Nat \ {0} /\ ExtraCap \in Nat

VARIABLES
    apc,        \* "off", "think", "act", "judge", "gate", "extra", "ended"
    aturn,      \* turn_no
    streak,     \* infra_streak
    seeding,    \* seed_state["thread"] is at work
    cmd,        \* the reply has a command
    done,       \* what the reply says is done
    spec,       \* spec
    extra,      \* extra
    arc,        \* the exit code
    proved,     \* history: spec passed guest_acceptance
    ranOut      \* history: the loop was left without its break

agentVars == <<apc, aturn, streak, seeding, cmd, done, spec, extra, arc, proved, ranOut>>

(* No done; a plan that is no object; one without a command; one that the  *)
(* replay or the acceptance cannot use as it is; one that can be tried.    *)
Dones == [is : {"no", "shapeless", "empty"}] \cup [is : {"flawed", "fit"}, plan : Plans]
Undone == [is |-> "no"]

AgentOK ==
    /\ apc \in {"off", "think", "act", "judge", "gate", "extra", "ended"}
    /\ aturn \in 0..AgentTurns /\ streak \in 0..InfraCap /\ extra \in 0..ExtraCap
    /\ {seeding, cmd, proved, ranOut} \subseteq BOOLEAN
    /\ done \in Dones
    /\ spec \in Plans \cup {NoPlan}
    /\ arc \in 0..3

AgentOff ==
    /\ apc = "off" /\ aturn = 0 /\ streak = 0 /\ seeding = FALSE /\ cmd = FALSE
    /\ done = Undone /\ spec = NoPlan /\ extra = 0 /\ arc = 0
    /\ proved = FALSE /\ ranOut = FALSE

AgentReset ==
    /\ apc' = "off" /\ aturn' = 0 /\ streak' = 0 /\ seeding' = FALSE /\ cmd' = FALSE
    /\ done' = Undone /\ spec' = NoPlan /\ extra' = 0 /\ arc' = 0
    /\ proved' = FALSE /\ ranOut' = FALSE

End(rc) == apc' = "ended" /\ arc' = rc

AgentStart ==
    /\ apc = "off"
    /\ \/ apc' = "think" /\ UNCHANGED arc
       \/ End(3)                            \* no model is configured
    /\ UNCHANGED <<aturn, streak, seeding, cmd, done, spec, extra, proved, ranOut>>

-----------------------------------------------------------------------------
SeedDone ==
    /\ seeding /\ seeding' = FALSE
    /\ UNCHANGED <<apc, aturn, streak, cmd, done, spec, extra, arc, proved, ranOut>>

Think ==
    /\ apc = "think" /\ aturn < AgentTurns /\ ~seeding
    /\ aturn' = aturn + 1
    /\ \/ /\ apc' = "act"
          /\ cmd' \in BOOLEAN /\ done' \in Dones /\ seeding' \in BOOLEAN
          /\ UNCHANGED arc
       \/ End(1) /\ UNCHANGED <<cmd, done, seeding>>
    /\ UNCHANGED <<streak, spec, extra, proved, ranOut>>

(* Turns or time are up.  A spec that was set aside for a flaw of its      *)
(* install list or its checks is still there.                              *)
RunOut ==
    /\ apc = "think"
    /\ ranOut' = TRUE
    /\ IF spec = NoPlan THEN End(1) ELSE apc' = "gate" /\ UNCHANGED arc
    /\ UNCHANGED <<aturn, streak, seeding, cmd, done, spec, extra, proved>>

(* The command.  Three plumbing commands in a row end the session, and so  *)
(* does a VM that is gone, unless the reply is done.                       *)
Act ==
    /\ apc = "act"
    /\ \/ ~cmd /\ apc' = "judge" /\ UNCHANGED <<streak, arc>>
       \/ /\ cmd /\ ~seeding
          /\ streak' \in {0, streak + 1}
          /\ \/ streak' < InfraCap /\ apc' = "judge" /\ UNCHANGED arc
             \/ (streak' = InfraCap \/ done.is = "no") /\ End(1)
    /\ UNCHANGED <<aturn, seeding, cmd, done, spec, extra, proved, ranOut>>

(* guest_acceptance: the plan's ports and checks, asked in the guest.      *)
Try(p) ==
    \/ apc' = "gate" /\ spec' = p /\ proved' = TRUE
    \/ apc' = "think" /\ spec' = NoPlan /\ proved' = FALSE

Judge ==
    /\ apc = "judge"
    /\ \/ done.is \in {"no", "shapeless"} /\ apc' = "think" /\ UNCHANGED <<spec, proved>>
       \/ done.is = "empty" /\ apc' = "think" /\ spec' = NoPlan /\ UNCHANGED proved
       \/ done.is = "flawed" /\ apc' = "think" /\ spec' = done.plan /\ proved' = FALSE
       \/ done.is = "fit" /\ Try(done.plan)
    /\ UNCHANGED <<aturn, streak, seeding, cmd, done, extra, arc, ranOut>>

-----------------------------------------------------------------------------
(* The gate: accepted or taken, declined, or one more instruction.         *)
Gate(yes) ==
    /\ apc = "gate"
    /\ \/ End(0) /\ UNCHANGED extra
       \/ ~yes /\ End(2) /\ UNCHANGED extra
       \/ ~yes /\ extra < ExtraCap /\ extra' = extra + 1 /\ apc' = "extra" /\ UNCHANGED arc
    /\ UNCHANGED <<aturn, streak, seeding, cmd, done, spec, proved, ranOut>>

(* A plan given on instruction replaces the last one when it passes; a     *)
(* round without a plan leaves that one.                                   *)
ReplaceUntried(p) == apc' = "gate" /\ spec' = p /\ proved' = FALSE /\ UNCHANGED arc
Replace(p) ==
    /\ apc' = "gate" /\ UNCHANGED arc
    /\ \/ spec' = p /\ proved' = TRUE
       \/ UNCHANGED <<spec, proved>>

Extra ==
    /\ apc = "extra"
    /\ \/ \E p \in Plans : Replace(p)
       \/ End(0) /\ UNCHANGED <<spec, proved>>
       \/ End(1) /\ UNCHANGED <<spec, proved>>
    /\ UNCHANGED <<aturn, streak, seeding, cmd, done, extra, ranOut>>

AgentStep(yes) == SeedDone \/ Think \/ RunOut \/ Act \/ Judge \/ Gate(yes) \/ Extra

(* A step of the session takes a turn or an instruction, comes nearer to   *)
(* the end of the one it is at, or is the end of a supply thread.          *)
AgentRank == CASE apc = "act" -> 5 [] apc = "judge" -> 4 [] apc = "think" -> 3
               [] apc = "extra" -> 2 [] apc = "gate" -> 1 [] OTHER -> 0
AgentSpends ==
    /\ aturn' \in aturn..AgentTurns /\ extra' \in extra..ExtraCap
    /\ \/ aturn' + extra' > aturn + extra
       \/ AgentRank' < AgentRank
       \/ AgentRank' = AgentRank /\ seeding /\ ~seeding'

(* What the session hands over passed in the guest, unless the session ran *)
(* out of turns or time on a plan it had turned back (agent_cmd,           *)
(* guest_acceptance).                                                      *)
ProvedUnlessRanOut == (apc = "ended" /\ arc = 0 /\ ~ranOut) => proved
=============================================================================
