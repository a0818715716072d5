------------------------------ MODULE Planning ------------------------------
(***************************************************************************)
(* What a run does around its race (main of src/scripts/vmf_race.py), over *)
(* several runs that share the files of PlanFiles: the replay of a winner, *)
(* the scout's stream, the fan-out's list, and the plan file each direct   *)
(* candidate's runner takes (runner_cmd, gapfill) or rewrites when its     *)
(* verify stage revises the plan (revise_cmd).  The race itself is Race;   *)
(* here it is its boots and its outcome.  One bound on what overlaps: a    *)
(* fan-out does not begin beside one that a killed race left at work.  The *)
(* candidates such a race leaves at work are not followed, nor is the      *)
(* enumeration a run falls back on.                                        *)
(***************************************************************************)
EXTENDS Fanout, Scout

CONSTANT MaxRuns    \* bound: runs of the program

ASSUME RunsAssumption == MaxRuns \in Nat \ {0}

VARIABLES
    phase,      \* "idle", "enter", "scout" (wait_first), "fan", "race"
    env,        \* VMF_PLAN_SPEC or VMF_RUN_INTENT of the run
    yes,        \* vmf_llm.accepted, of the fan-out: VMF_RUN_YES, or nobody to ask
    via,        \* where the field comes from: "none", "scout", "fanout", "winner"
    booted,     \* per direct method: the plan its runner took, Absent for none
    revised,    \* the candidates whose plan a verify stage has revised
    winner,     \* winner.json
    runs        \* runs begun

raceVars == <<phase, env, yes, via, booted, revised, winner, runs>>
vars == <<files, fanVars, scoutVars, raceVars>>

Boots   == (Slots \cup Scouted) \cap Direct
Refused == [is |-> "refused"]
Winners == [is : {"winner"}, slot : Slots \cup Scouted, method : {""} \cup Scouted]

TypeOK ==
    /\ FilesOK /\ FanOK /\ ScoutOK
    /\ phase \in {"idle", "enter", "scout", "fan", "race"}
    /\ env \in Envs /\ yes \in BOOLEAN
    /\ via \in {"none", "scout", "fanout", "winner"}
    /\ booted \in [Boots -> {Absent, Refused, Torn} \cup Plans]
    /\ revised \subseteq Boots
    /\ winner \in {Absent} \cup Winners
    /\ runs \in 0..MaxRuns

Nothing == [m \in Boots |-> Absent]

Init ==
    /\ NoFiles /\ FanIdle /\ ScoutIdle
    /\ phase = "idle" /\ env = NoSpec /\ yes = FALSE /\ via = "none"
    /\ booted = Nothing /\ revised = {} /\ winner = Absent /\ runs = 0

FansOut   == phase = "fan" \/ via = "fanout"
Streaming == Emitted \cup strayed

Field == CASE via = "scout"  -> Streaming
           [] via = "fanout" -> Listed
           [] via = "winner" -> {winner.slot}
           [] OTHER          -> {}

-----------------------------------------------------------------------------
(* The stages of a run.                                                    *)

Enter(p, v) == phase' = p /\ via' = v

Begin ==
    /\ phase = "idle" /\ runs < MaxRuns
    /\ runs' = runs + 1
    /\ env' \in Envs
    /\ booted' = Nothing /\ revised' = {}
    /\ \/ winner # Absent /\ Enter("race", "winner")
       \/ Enter("enter", "none")          \* no winner, or cache_allowed is false
    /\ UNCHANGED <<files, fanVars, scoutVars, yes, winner>>

Racing == <<env, booted, revised, winner, runs>>

(* The process ends, and what it remembers with it.  A planner that is     *)
(* still at work lives on.                                                 *)
Over ==
    /\ Enter("idle", "none") /\ env' = NoSpec
    /\ booted' = Nothing /\ revised' = {}
FanForget == FanGone /\ yes' = FALSE
Aftermath ==
    /\ IF ScoutAlive THEN UNCHANGED scoutVars ELSE ScoutForget
    /\ IF fpc = "listed" THEN FanForget ELSE UNCHANGED <<fanVars, yes>>

StartFan == FanStart(env) /\ yes' \in BOOLEAN

EnterScout ==
    /\ phase = "enter" /\ ScoutStart(env)
    /\ Enter("scout", "none")
    /\ UNCHANGED <<fanVars, yes, Racing>>

EnterFan ==               \* scout_enabled is false
    /\ phase = "enter" /\ StartFan
    /\ Enter("fan", "none")
    /\ UNCHANGED <<scoutVars, Racing>>

ScoutFirst ==
    /\ phase = "scout" /\ Streaming # {}
    /\ Enter("race", "scout")
    /\ UNCHANGED <<files, fanVars, scoutVars, yes, Racing>>

(* The scout ends, or is killed, without a route the filters let through.  *)
ScoutNone ==
    /\ phase = "scout" /\ ScoutForget /\ StartFan
    /\ Enter("fan", "none")
    /\ UNCHANGED Racing

Fallen ==
    /\ phase = "fan" /\ fpc = "listed"
    /\ IF Listed # {}
       THEN Enter("race", "fanout") /\ UNCHANGED <<fanVars, scoutVars, env, yes, booted, revised>>
       ELSE Over /\ Aftermath
    /\ UNCHANGED <<files, winner, runs>>

-----------------------------------------------------------------------------
(* The plan a direct candidate boots.  Only the entries of the scout and   *)
(* of its winners name a method.                                           *)

ReadsOwn(m) ==
    /\ m # "pkg"
    /\ via = "scout" \/ (via = "winner" /\ winner.method = m)
TakesAny(m) == IF ReadsOwn(m) /\ own[m] # Absent THEN own[m] ELSE shared
Takes(m) == IF ReadsOwn(m) THEN own[m] ELSE shared

Boot(m) ==
    /\ phase = "race" /\ m \in Field /\ booted[m] = Absent
    /\ \/ /\ Takes(m) # Absent
          /\ booted' = [booted EXCEPT ![m] = Takes(m)]
       \/ /\ Takes(m) = Absent
          /\ booted' = [booted EXCEPT ![m] = Refused]
    /\ UNCHANGED <<files, fanVars, scoutVars, phase, via, env, yes, revised, winner, runs>>

(* No shared plan: the model drafts one in the runner, under no spec.      *)
BootDraft(m) ==
    /\ phase = "race" /\ m \in Field /\ booted[m] = Absent
    /\ ~ReadsOwn(m) /\ shared = Absent
    /\ shared' = PlanOf("draft", NoSpec, "app")
    /\ booted' = [booted EXCEPT ![m] = shared']
    /\ UNCHANGED <<planF, blockF, own, scoutF, specF, fanVars, scoutVars,
                   phase, via, env, yes, revised, winner, runs>>

(* revise_cmd writes direct.json; the runner of the re-run chooses its     *)
(* file as the first did.                                                  *)
Revise(m) ==
    /\ phase = "race" /\ m \in Field \ revised /\ booted[m].is = "plan"
    /\ revised' = revised \cup {m}
    /\ shared' = [booted[m] EXCEPT !.kind = "fixed"]
    /\ booted' = [booted EXCEPT ![m] = IF ReadsOwn(m) THEN own[m] ELSE shared']
    /\ UNCHANGED <<planF, blockF, own, scoutF, specF, fanVars, scoutVars,
                   phase, via, env, yes, winner, runs>>

(* The candidate is promoted and saved.                                    *)
Win(m) ==
    /\ phase = "race" /\ m \in Field
    /\ m \in Boots => booted[m].is = "plan"
    /\ winner' = [is |-> "winner", slot |-> m,
                  method |-> CASE via = "scout"  -> m
                               [] via = "winner" -> winner.method
                               [] OTHER          -> ""]
    /\ Over /\ Aftermath
    /\ UNCHANGED <<files, runs>>

(* Nothing proves itself.  A winner that does not is forgotten, and the    *)
(* run goes on with the full field.                                        *)
Lose ==
    /\ phase = "race"
    /\ IF via = "winner"
       THEN /\ winner' = Absent
            /\ Enter("enter", "none")
            /\ booted' = Nothing /\ revised' = {}
            /\ UNCHANGED <<fanVars, scoutVars, env, yes>>
       ELSE Over /\ Aftermath /\ UNCHANGED winner
    /\ UNCHANGED <<files, runs>>

-----------------------------------------------------------------------------
(* The race is killed, with its children (Ctrl-C) or without.              *)
Kill ==
    /\ phase # "idle"
    /\ Over
    /\ (ScoutForget /\ FanForget) \/ Aftermath
    /\ UNCHANGED <<files, winner, runs>>

(* The generated files are removed, while no planner has one open.         *)
CleanCache ==
    /\ ~ScoutAlive /\ strays = {} /\ fpc \in {"off", "listed"}
    /\ files # <<[m \in Slots |-> Absent], [m \in Slots |-> Absent],
                 [m \in DirectRoutes |-> Absent], Absent, Absent, NoSpec>>
    /\ planF' = [m \in Slots |-> Absent] /\ blockF' = [m \in Slots |-> Absent]
    /\ own' = [m \in DirectRoutes |-> Absent]
    /\ shared' = Absent /\ scoutF' = Absent /\ specF' = NoSpec
    /\ winner' = IF via = "winner" THEN winner ELSE Absent
    /\ UNCHANGED <<fanVars, scoutVars, phase, env, yes, via, booted, revised, runs>>

ScoutProcess == ScoutStep /\ UNCHANGED <<strayVars, fanVars, raceVars>>

(* What a stray does between two runs, the second may find done as it      *)
(* begins: nobody reads in between.                                        *)
StrayProcess == /\ phase # "idle" /\ StrayStep
                /\ UNCHANGED <<processVars, fanVars, raceVars>>
FanProcess   == FanStep(yes) /\ UNCHANGED <<scoutVars, raceVars>>

Race == \/ Begin \/ EnterScout \/ EnterFan \/ ScoutFirst \/ ScoutNone \/ Fallen
        \/ \E m \in Boots : Boot(m) \/ BootDraft(m) \/ Revise(m)
        \/ \E m \in Slots \cup Scouted : Win(m)
        \/ Lose

Next == Race \/ ScoutProcess \/ StrayProcess \/ FanProcess \/ Kill \/ CleanCache

Spec == Init /\ [][Next]_vars

-----------------------------------------------------------------------------
(* Whatever earlier runs left behind, under whatever spec, torn or whole,  *)
(* the fan-out lists only plans made for this run's target, and no         *)
(* keep-alive where the target is web (fanout_cmd, clamp_method).          *)
PlansServeTarget ==
    \A m \in Listed : /\ plans[m].spec = fspec
                      /\ Serves(m, plans[m].kind, fspec)

(* No blocked verdict rests on a call that brought no answer: the next run *)
(* asks again (fanout_cmd, the comment on transport failures).             *)
SilenceBlocksNothing == \A m \in Slots : blockF[m].is = "block" => blockF[m].by # "nobody"

(* After the run's fan-out has planned pkg itself, and may write, the      *)
(* shared plan is never the source plan, neither of this run nor of an     *)
(* earlier one, revisions included (fanout_cmd).                           *)
PkgHasTheSharedPlan ==
    (fpc = "listed" /\ FansOut /\ yes /\ "pkg" \in runnable /\ shared.is = "plan")
        => shared.method # "source"

(* A scan that is put in the cache is over, not cut short, and has every   *)
(* route it streamed, so that a replay can stream them all (scout_cmd).    *)
CachedScanIsWhole ==
    [][spc = "cache" /\ spc' = "own" /\ scoutF' # scoutF =>
            /\ end = "word" /\ Exhausted
            /\ \A m \in Emitted : \E i \in DOMAIN scoutF'.routes :
                   Route(scoutF'.routes[i]) = lines[m]]_vars

(* Between two moves of the race, a planner's process can only use itself  *)
(* up, whatever the model answers, so that neither streams, asks or        *)
(* rewrites a plan without end: the race goes on for as long as its scout  *)
(* lives (scout_cmd's turns, fanout_cmd's one call a method).              *)
PlannersSpend ==
    [][UNCHANGED raceVars =>
         \/ ScoutSpends /\ UNCHANGED fanVars
         \/ FanSpends /\ UNCHANGED processVars]_<<processVars, fanVars>>

(* A scan replayed from the cache streams only routes that serve the       *)
(* target of the run that replays it (_clamp_route under the spec).        *)
ReplayServesTarget ==
    spc = "replay" => \A m \in Emitted : Serves(m, lines[m].kind, sspec)

(* A route that boots a plan of its own boots one of its method, whichever *)
(* files vanished, were revised or were torn meanwhile: never the shared   *)
(* plan under the wrong method (gapfill, VMF_PLAN_DIRECT).                 *)
OwnMethodOrNothing ==
    \A m \in Boots : (ReadsOwn(m) /\ booted[m].is = "plan") => booted[m].method = m

(* Once the scout has written its plan files, a route of its stream boots  *)
(* exactly the plan it was announced with, or fails.  The one thing that   *)
(* can come between is a scout that outlived an earlier race and was still *)
(* at work when this one started: then it may be that scout's plan of the  *)
(* same method, or one torn by the two, but never what an earlier run left *)
(* (_scout_cache_direct, gapfill).                                         *)
StrayPlans(m) == {Torn} \cup {PlanOf(m, s, k) : s \in strays, k \in {"app", "sleep"}}
SettledRouteBootsItsLine ==
    [][\A m \in Boots : (via = "scout" /\ m \in Emitted \ {"pkg"} /\ spc = "gone"
                          /\ booted[m] = Absent /\ booted'[m] # Absent)
            => \/ booted'[m] \in {lines[m], Refused}
               \/ strays # {} /\ booted'[m] \in StrayPlans(m)]_vars
=============================================================================
