------------------------------- MODULE Fanout -------------------------------
(***************************************************************************)
(* fanout_cmd of src/scripts/vmf_plan.py: one planner call per method, in  *)
(* parallel, over the verdicts earlier runs have cached.  Each answer is   *)
(* clamped, written and announced as it lands; the pkg or source plan then *)
(* becomes direct.json; the approaches are listed last.  The variants      *)
(* placed before an operator are that operator with a bug.                 *)
(***************************************************************************)
EXTENDS PlanFiles

VARIABLES
    fpc,        \* "off", "ask" (calls in flight), "list", "listed"
    fspec,      \* spec, of this process
    plans,      \* plans: per slot, Absent for no key
    blocked,    \* the slots in blocked
    pending,    \* futs: the calls that have not landed
    runnable,   \* runnable: the slots planned by a call of this process
    writing     \* the file open for writing, and what will be in it

fanVars == <<fpc, fspec, plans, blocked, pending, runnable, writing>>

NoWrite == [file |-> "none"]
Write(f, m, what) == [file |-> f, method |-> m, what |-> what]

FanOK ==
    /\ fpc \in {"off", "ask", "list", "listed"}
    /\ fspec \in Specs
    /\ plans \in [Slots -> {Absent} \cup Plans]
    /\ blocked \subseteq Slots /\ pending \subseteq Slots /\ runnable \subseteq Slots
    /\ \/ writing = NoWrite
       \/ writing \in [file : {"plan", "shared"}, method : Slots, what : Plans]
       \/ writing \in [file : {"block"}, method : Slots, what : Blocks]

FanIdle ==
    /\ fpc = "off" /\ fspec = NoSpec /\ writing = NoWrite
    /\ plans = [m \in Slots |-> Absent]
    /\ blocked = {} /\ pending = {} /\ runnable = {}

-----------------------------------------------------------------------------
(* The cached verdicts.  The blocked file is looked at only where there is *)
(* no plan file, of whatever spec or shape.                                *)
PlannedAnySpec(m, s) == planF[m].is = "plan"
Planned(m, s) == planF[m].is = "plan" /\ planF[m].spec = s
BlockedNow(m, s) ==
    /\ planF[m] = Absent
    /\ \/ blockF[m] = Torn
       \/ blockF[m].is = "block" /\ blockF[m].spec = s

FanStart(e) ==
    /\ fpc \in {"off", "listed"}
    /\ \E s \in LoadSpec(e) :
          /\ fspec' = s
          /\ specF' = SpecFile(e, s)
          /\ plans' = [m \in Slots |-> IF Planned(m, s) THEN planF[m] ELSE Absent]
          /\ blocked' = {m \in Slots : BlockedNow(m, s)}
          /\ pending' = {m \in Slots : ~Planned(m, s) /\ ~BlockedNow(m, s)}
    /\ fpc' = "ask" /\ runnable' = {} /\ writing' = NoWrite
    /\ UNCHANGED <<planF, blockF, own, shared, scoutF>>

(* What a planner call may come back with: a plan, a refusal (a status of  *)
(* blocked, or a plan without its mandatory surface), or nothing that can  *)
(* be read.                                                                *)
Replies(m) == {"refusal", "silence", "app"}
              \cup (IF m \in Direct THEN {"sleep"} ELSE {})

(* clamp_method                                                            *)
Fits(m, r) == r \in {"app", "sleep"} /\ Serves(m, r, fspec)

LandPlan(m, r) ==
    /\ Fits(m, r)
    /\ LET p == PlanOf(m, fspec, r)
       IN  /\ plans' = [plans EXCEPT ![m] = p]
           /\ writing' = Write("plan", m, p)
    /\ runnable' = runnable \cup {m}
    /\ planF' = [planF EXCEPT ![m] = Torn]
    /\ UNCHANGED <<blocked, blockF>>

LandVerdict(m, r) ==
    /\ ~Fits(m, r) /\ r # "silence"
    /\ blocked' = blocked \cup {m}
    /\ writing' = Write("block", m, BlockOf(fspec, "answer"))
    /\ blockF' = [blockF EXCEPT ![m] = Torn]
    /\ UNCHANGED <<plans, runnable, planF>>

LandSilenceCached(m, r) ==
    /\ r = "silence"
    /\ blocked' = blocked \cup {m}
    /\ writing' = Write("block", m, BlockOf(fspec, "nobody"))
    /\ blockF' = [blockF EXCEPT ![m] = Torn]
    /\ UNCHANGED <<plans, runnable, planF>>
LandSilence(m, r) ==
    /\ r = "silence"
    /\ blocked' = blocked \cup {m}
    /\ UNCHANGED <<plans, runnable, planF, blockF, writing>>

(* One call lands; the loop takes the next when its file is written.       *)
Land(m) ==
    /\ fpc = "ask" /\ m \in pending /\ writing = NoWrite
    /\ pending' = pending \ {m}
    /\ \E r \in Replies(m) : LandPlan(m, r) \/ LandVerdict(m, r) \/ LandSilence(m, r)
    /\ UNCHANGED <<fpc, fspec, own, shared, scoutF, specF>>

(* json.dump into the file just truncated.                                 *)
FlushToPlan ==
    /\ writing # NoWrite
    /\ planF' = [planF EXCEPT ![writing.method] = writing.what]
    /\ writing' = NoWrite
    /\ UNCHANGED <<fpc, fspec, plans, blocked, pending, runnable,
                   blockF, own, shared, scoutF, specF>>
Flush ==
    /\ writing # NoWrite
    /\ LET m == writing.method
       IN  /\ planF' = IF writing.file = "plan"
                       THEN [planF EXCEPT ![m] = writing.what] ELSE planF
           /\ blockF' = IF writing.file = "block"
                        THEN [blockF EXCEPT ![m] = writing.what] ELSE blockF
           /\ shared' = IF writing.file = "shared" THEN writing.what ELSE shared
    /\ writing' = NoWrite
    /\ UNCHANGED <<fpc, fspec, plans, blocked, pending, runnable,
                   own, scoutF, specF>>

(* The pkg plan, or else the source plan, that this process made becomes   *)
(* the gap-fill plan, outside an interactive context (vmf_llm.accepted).   *)
SharerLast == IF "source" \in runnable THEN {"source"} ELSE runnable \cap {"pkg"}
Sharer == IF "pkg" \in runnable THEN {"pkg"} ELSE runnable \cap {"source"}

Share(accepted) ==
    /\ fpc = "ask" /\ pending = {} /\ writing = NoWrite
    /\ IF accepted /\ Sharer # {}
       THEN \E m \in Sharer : /\ writing' = Write("shared", m, plans[m])
                              /\ shared' = Torn
       ELSE UNCHANGED <<writing, shared>>
    /\ fpc' = "list"
    /\ UNCHANGED <<fspec, plans, blocked, pending, runnable,
                   planF, blockF, own, scoutF, specF>>

List ==
    /\ fpc = "list" /\ writing = NoWrite
    /\ fpc' = "listed"
    /\ UNCHANGED <<fspec, plans, blocked, pending, runnable, writing, files>>

Listed == {m \in Slots : fpc = "listed" /\ plans[m] # Absent}

(* The process is killed: its memory goes, the files stay.                 *)
FanGone ==
    /\ fpc' = "off" /\ fspec' = NoSpec /\ writing' = NoWrite
    /\ plans' = [m \in Slots |-> Absent]
    /\ blocked' = {} /\ pending' = {} /\ runnable' = {}

FanStep(accepted) ==
    \/ \E m \in Slots : Land(m)
    \/ Flush
    \/ Share(accepted)
    \/ List

(* A step of the fan-out brings it a stage on, takes the answer of a call, *)
(* or is done with a file.                                                 *)
FanRank == CASE fpc = "ask" -> 2 [] fpc = "list" -> 1 [] OTHER -> 0
FanSpends ==
    \/ FanRank' < FanRank
    \/ fpc' = fpc /\ pending' \subseteq pending /\ pending' # pending
    \/ UNCHANGED <<fpc, pending>> /\ writing # NoWrite /\ writing' = NoWrite
=============================================================================
