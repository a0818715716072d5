------------------------------ MODULE PlanFiles ------------------------------
(***************************************************************************)
(* The files under ~/.vmf/generated through which the planners of          *)
(* src/scripts/vmf_plan.py speak to later runs and to the runners: the     *)
(* fan-out's plan-<method>.json and plan-<method>.json.blocked, the        *)
(* scout's direct-<method>.json and scout-v2.json, the gap-fill plan       *)
(* direct.json every direct runner shares, and spec.json.                  *)
(*                                                                         *)
(* A plan is known by the method it is for, the spec it was made under and *)
(* whether its command is the app, a keep-alive ("sleep") or the app as a  *)
(* failed verify stage revised it ("fixed").  A file that a writer opened  *)
(* and did not live to fill is Torn.  spec.json and scout-v2.json are read *)
(* as absent when torn, so they have no torn state of their own.           *)
(***************************************************************************)
EXTENDS Naturals, Sequences, FiniteSets

CONSTANTS Slots,     \* methods of the fan-out the repository has evidence for
          Scouted,   \* methods the scout's model may name
          Intents,   \* intent phrases (VMF_RUN_INTENT)
          Overrides, \* specs given outright (VMF_PLAN_SPEC)
          Answers,   \* per intent: the specs derive_spec may return
          Fallback,  \* the specs among them made without the model
          Web        \* the specs whose deliverable is web

NoSpec == "nospec"
Specs  == {NoSpec} \cup Overrides \cup UNION {Answers[i] : i \in Intents}
Envs   == {NoSpec} \cup Overrides \cup Intents
Direct == {"pkg", "source", "release"}   \* methods whose plan is a direct plan

ASSUME FilesAssumption ==
    /\ Slots \subseteq {"prebuilt", "compose", "build", "pkg", "source"}
    /\ Scouted \subseteq {"prebuilt", "compose", "build"} \cup Direct
    /\ Answers \in [Intents -> SUBSET STRING]
    /\ \A i \in Intents : Answers[i] # {} /\ NoSpec \notin Answers[i]
    /\ Intents \cap Overrides = {} /\ NoSpec \notin Intents \cup Overrides
    /\ Web \subseteq Specs

VARIABLES planF, blockF,   \* per slot: the fan-out's two verdict files
          own,             \* per direct method: direct-<method>.json
          shared,          \* direct.json
          scoutF,          \* scout-v2.json
          specF            \* spec.json, NoSpec when absent

files == <<planF, blockF, own, shared, scoutF, specF>>

Absent == [is |-> "absent"]
Torn   == [is |-> "torn"]

PlanOf(m, s, k) == [is |-> "plan", method |-> m, spec |-> s, kind |-> k]
Plans == {PlanOf(m, s, k) : m \in Slots \cup Scouted \cup {"draft"},
                            s \in Specs, k \in {"app", "sleep", "fixed"}}

(* A blocked verdict, and what it rests on: an answer of the model, which  *)
(* says so or which the clamp refuses, or no answer at all.                *)
BlockOf(s, by) == [is |-> "block", spec |-> s, by |-> by]
Blocks == {BlockOf(s, by) : s \in Specs, by \in {"answer", "nobody"}}

(* The routes of a scan as the model gave them, and the spec it ran under. *)
Routes == [method : Scouted, kind : {"app", "sleep"}]
ScanOf(s, rs) == [is |-> "scan", spec |-> s, routes |-> rs]

FilesOK ==
    /\ planF \in [Slots -> {Absent, Torn} \cup Plans]
    /\ blockF \in [Slots -> {Absent, Torn} \cup Blocks]
    /\ own \in [Scouted \cap Direct -> {Absent, Torn} \cup Plans]
    /\ shared \in {Absent, Torn} \cup Plans
    /\ \/ scoutF = Absent
       \/ /\ scoutF.spec \in Specs /\ scoutF.routes \in Seq(Routes)
          /\ scoutF = ScanOf(scoutF.spec, scoutF.routes)
    /\ specF \in Specs

NoFiles ==
    /\ planF = [m \in Slots |-> Absent]
    /\ blockF = [m \in Slots |-> Absent]
    /\ own = [m \in Scouted \cap Direct |-> Absent]
    /\ shared = Absent
    /\ scoutF = Absent
    /\ specF = NoSpec

(* load_or_derive_spec: an override stands; no intent means no spec; a     *)
(* spec of the same intent that the model made is reused, and one made     *)
(* without it is derived again.                                            *)
LoadSpec(e) ==
    IF e \notin Intents THEN {e}
    ELSE IF specF \in Answers[e] \ Fallback THEN {specF}
    ELSE Answers[e]

(* spec.json once s was loaded under e.  Loading is one step, though a     *)
(* model call lies between the reading of the file and its writing: of two *)
(* planners that derive at once, the last to begin is the last to write.   *)
SpecFile(e, s) == IF e \in Intents THEN s ELSE specF

(* A web target is not served by a keep-alive.                             *)
Serves(m, k, s) == ~(m \in Direct /\ k = "sleep" /\ s \in Web)
=============================================================================
