------------------------------- MODULE Verify -------------------------------
(***************************************************************************)
(* The verify runner of src/scripts/vmf_verify.py: run_cmd waits for ssh,  *)
(* then sweeps over the checks of a plan until all of them have passed and *)
(* have passed again in the hold that follows, or until the deadline.      *)
(* Beside it runs what the checks ask: the service in the guest, which may *)
(* come up, go down and come back at any moment.                           *)
(*                                                                         *)
(* The code compares time.time() with two instants, deadline and           *)
(* hold_until.  The model keeps the distance to each, which stops at zero: *)
(* only "not yet" and "reached" are ever told apart.  A probe takes        *)
(* between 0 and MaxCost units, the sleep between sweeps exactly Poll.     *)
(* An operator placed just before another one of the same shape is that    *)
(* one with a bug: the variant the properties must tell from the code.     *)
(***************************************************************************)
EXTENDS Integers

CONSTANTS MaxChecks, \* bound: checks derive_checks may return
          Deadline,  \* VMF_VERIFY_SECS
          Hold,      \* VMF_VERIFY_HOLD
          Grace,     \* the 10 seconds a hold leaves before the deadline
          Poll,      \* POLL
          MaxCost    \* bound: the longest one probe takes (its timeout)

ASSUME VerifyAssumption ==
    /\ MaxChecks \in Nat /\ Deadline \in Nat /\ Hold \in Nat /\ MaxCost \in Nat
    /\ Grace \in Nat \ {0}
    /\ Poll \in Nat \ {0}

VARIABLES
    n,          \* len(runnable), fixed for a run
    up,         \* the checks that would pass if asked now (the guest)
    pc,         \* where run_cmd is
    left,       \* deadline - now, at least 0
    armed,      \* hold_until is set
    holdLeft,   \* hold_until - now, at least 0 (0 while it is not set)
    at,         \* the check the sweep is at, n + 1 after the last one
    results,    \* the checks whose results[i] is True
    failed,     \* the keys of failed
    exit,       \* the exit code, None while the run goes on
    evidence,   \* what the run wrote to --evidence-out, {} for nothing
    fresh,      \* history: checks seen up since the hold was last armed
    elapsed,    \* history: time since then, at most Hold
    ignored,    \* history: since then a sweep passed over a check that was down
    swept       \* history: a sweep has begun

clocks  == <<left, holdLeft, elapsed>>
history == <<fresh, ignored, swept>>
vars == <<n, up, pc, clocks, armed, at, results, failed, exit, evidence, history>>

Checks   == 1..n
None     == -1
AppAlive == 0           \* the evidence entry of a crash found on the console
Max2(a, b) == IF a >= b THEN a ELSE b
Less(a, d) == IF a <= d THEN 0 ELSE a - d

Limit == Max2(Deadline, Hold + Grace)   \* no deadline is further off

TypeOK ==
    /\ n \in 0..MaxChecks
    /\ up \subseteq Checks
    /\ pc \in {"start", "ssh", "nossh", "loop", "sweep", "judge", "sleep", "close", "done"}
    /\ left \in 0..Limit
    /\ armed \in BOOLEAN
    /\ holdLeft \in 0..Hold
    /\ at \in 1..(n + 1)
    /\ results \subseteq Checks
    /\ failed \subseteq Checks
    /\ exit \in {None, 0, 1, 2, 3}
    /\ evidence \subseteq Checks \cup {AppAlive}
    /\ fresh \subseteq Checks
    /\ elapsed \in 0..Hold
    /\ ignored \in BOOLEAN
    /\ swept \in BOOLEAN

Init ==
    /\ n \in 0..MaxChecks
    /\ up \in SUBSET Checks
    /\ pc = "start"
    /\ left = Deadline
    /\ armed = FALSE  /\ holdLeft = 0
    /\ at = 1  /\ results = {}  /\ failed = {}
    /\ exit = None  /\ evidence = {}
    /\ fresh = {}  /\ elapsed = 0  /\ ignored = FALSE  /\ swept = FALSE

(* d units pass.                                                           *)
Pass(d) ==
    /\ left' = Less(left, d)
    /\ holdLeft' = Less(holdLeft, d)
    /\ elapsed' = IF elapsed + d >= Hold THEN Hold ELSE elapsed + d

-----------------------------------------------------------------------------
(* A plan that declares no check is unverified, never passed.              *)
Start ==
    /\ pc = "start"
    /\ IF n = 0 THEN pc' = "done" /\ exit' = 2
                ELSE pc' = "ssh" /\ exit' = exit
    /\ UNCHANGED <<n, up, clocks, armed, at, results, failed, evidence, history>>

(* wait_ssh asks before the deadline; the answer may come after it.  No    *)
(* answer: it sleeps and asks again.  "no running microVM": it gives up.   *)
SshUp ==
    /\ pc = "ssh" /\ left > 0
    /\ \E d \in 0..MaxCost : Pass(d)
    /\ pc' = "loop"
    /\ UNCHANGED <<n, up, armed, at, results, failed, exit, evidence, history>>
SshDown ==
    /\ pc = "ssh" /\ left > 0
    /\ \E d \in 0..MaxCost : Pass(d + Poll)
    /\ UNCHANGED <<n, up, pc, armed, at, results, failed, exit, evidence, history>>
SshLost ==
    /\ pc = "ssh"
    /\ \/ left = 0 /\ UNCHANGED clocks
       \/ left > 0 /\ \E d \in 0..MaxCost : Pass(d)
    /\ pc' = "nossh"
    /\ UNCHANGED <<n, up, armed, at, results, failed, exit, evidence, history>>

(* A crash on the console explains the wall; otherwise there is no verdict. *)
NoSsh ==
    /\ pc = "nossh"
    /\ \/ exit' = 1 /\ evidence' = {AppAlive}
       \/ exit' = 3 /\ UNCHANGED evidence
    /\ pc' = "done"
    /\ UNCHANGED <<n, up, clocks, armed, at, results, failed, history>>

(* while time.time() < deadline                                            *)
Loop ==
    /\ pc = "loop"
    /\ IF left > 0 THEN pc' = "sweep" /\ at' = 1 /\ swept' = TRUE
                   ELSE pc' = "close" /\ UNCHANGED <<at, swept>>
    /\ UNCHANGED <<n, up, clocks, armed, results, failed, exit, evidence, fresh, ignored>>

Onward == /\ at' = at + 1
          /\ pc' = IF at = n THEN "judge" ELSE "sweep"

(* A check asked once: whether the service does, now, what its kind wants  *)
(* of it.  Tcp: the guest holds the connection open; probe: the status, no *)
(* body that reports a crash, the text; exec: a zero exit.  A timeout or   *)
(* an error of the transport is a no like any other.                       *)
Answers(c) == c \in up

(* One check of the sweep is asked...                                      *)
AskQuietly ==
    /\ pc = "sweep" /\ at \notin results
    /\ \E d \in 0..MaxCost : Pass(d)
    /\ IF Answers(at)
       THEN /\ results' = results \cup {at} /\ fresh' = fresh \cup {at}
            /\ UNCHANGED failed
       ELSE /\ failed' = IF armed THEN failed ELSE failed \cup {at}
            /\ UNCHANGED <<results, fresh>>
    /\ Onward
    /\ UNCHANGED <<n, up, armed, exit, evidence, ignored, swept>>
Ask ==
    /\ pc = "sweep" /\ at \notin results
    /\ \E d \in 0..MaxCost : Pass(d)
    /\ IF Answers(at)
       THEN /\ results' = results \cup {at} /\ fresh' = fresh \cup {at}
            /\ UNCHANGED failed
       ELSE /\ failed' = failed \cup {at}
            /\ UNCHANGED <<results, fresh>>
    /\ Onward
    /\ UNCHANGED <<n, up, armed, exit, evidence, ignored, swept>>

(* ...unless it has passed already.                                        *)
Skip ==
    /\ pc = "sweep" /\ at \in results
    /\ ignored' = (ignored \/ (armed /\ at \notin up))
    /\ Onward
    /\ UNCHANGED <<n, up, clocks, armed, results, failed, exit, evidence, fresh, swept>>

-----------------------------------------------------------------------------
(* What a finished sweep leads to.                                         *)

(* Everything has passed: the hold begins and everything is asked again at *)
(* once...                                                                 *)
HoldFrom(deadline, kept) ==
    /\ pc = "judge" /\ results = Checks
    /\ armed' = TRUE  /\ holdLeft' = Hold
    /\ left' = deadline
    /\ results' = kept
    /\ fresh' = {}  /\ elapsed' = 0  /\ ignored' = FALSE
    /\ pc' = "loop"
    /\ UNCHANGED <<n, up, at, failed, exit, evidence, swept>>

(* ...before a deadline that has moved behind the hold.                    *)
ArmKeepingResults == ~armed /\ HoldFrom(Max2(left, Hold + Grace), results)
ArmInTime   == ~armed /\ HoldFrom(left, {})
ArmAdding   == ~armed /\ HoldFrom(left + Hold + Grace, {})
ArmEachTime == HoldFrom(Max2(left, Hold + Grace), {})
Arm         == ~armed /\ HoldFrom(Max2(left, Hold + Grace), {})

(* Everything has passed again: the run ends when the hold is over.        *)
Holding ==
    /\ pc = "judge" /\ results = Checks /\ armed
    /\ pc' = IF holdLeft = 0 THEN "close" ELSE "sleep"
    /\ UNCHANGED <<n, up, clocks, armed, at, results, failed, exit, evidence, history>>

(* Something failed.  A hold is called off; what passed stays passed.      *)
Lapse ==
    /\ pc = "judge" /\ results # Checks
    /\ armed' = FALSE  /\ holdLeft' = 0
    /\ pc' = "sleep"
    /\ UNCHANGED <<n, up, left, elapsed, at, results, failed, exit, evidence, history>>

Sleep ==
    /\ pc = "sleep"
    /\ Pass(Poll)
    /\ pc' = "loop"
    /\ UNCHANGED <<n, up, armed, at, results, failed, exit, evidence, history>>

(* The verdict counts results; the evidence is every check that ever       *)
(* failed, and a crash the console may show.                               *)
Close ==
    /\ pc = "close"
    /\ \E app \in SUBSET {AppAlive} : evidence' = failed \cup app
    /\ exit' = IF results = Checks THEN 0 ELSE 1
    /\ pc' = "done"
    /\ UNCHANGED <<n, up, clocks, armed, at, results, failed, history>>

Runner == \/ Start \/ SshUp \/ SshDown \/ SshLost \/ NoSsh \/ Loop \/ Ask \/ Skip
          \/ Arm \/ Holding \/ Lapse \/ Sleep \/ Close

(* One check of the guest comes up or goes down.                           *)
Change ==
    /\ pc # "done"
    /\ \E c \in Checks : up' = IF c \in up THEN up \ {c} ELSE up \cup {c}
    /\ UNCHANGED <<n, pc, clocks, armed, at, results, failed, exit, evidence, history>>

Next == Runner \/ Change
Spec == Init /\ [][Next]_vars
FairSpec == Spec /\ WF_vars(Runner)

-----------------------------------------------------------------------------
(* A pass rests on two answers: every check was seen up once more after    *)
(* the last hold began, the hold has run its whole length since, and there *)
(* was something to check (vmf_verify.py:564-581).                         *)
PassIsHeld == exit = 0 => n > 0 /\ armed /\ fresh = Checks /\ elapsed = Hold

(* A late pass does not fall off the deadline: a run never fails while it  *)
(* is holding, it must have seen a check down first (vmf_verify.py:567).   *)
LatePassSurvives == exit = 1 => ~armed

(* A run that has swept and fails has evidence for every check it counts   *)
(* as failed, the one that vanished in the hold included                   *)
(* (tests/test_verify.py:641).                                             *)
FailureHasEvidence == exit = 1 /\ swept => Checks \ results \subseteq evidence

(* From a sweep that finds everything up, and up to stay, the run passes:  *)
(* neither the deadline nor an earlier lapse takes the pass away.          *)
SteadyPasses == [](pc = "sweep" /\ at = 1 /\ [](up = Checks) => <>(exit = 0))

(* While the service stands still, a run uses something up: the one hold   *)
(* that may still begin, the time to the deadline, or what is left of the  *)
(* round it is in.  A hold may begin only when no check is down that has   *)
(* not passed, and once begun it lapses only if this sweep went by a check *)
(* before it came up: what moves the deadline for ever is the service      *)
(* alone (run_cmd, the hold and its grace).                                *)
Missed == pc \in {"sweep", "judge"} /\ \E c \in Checks \ results : c < at
MayArm == Checks \subseteq results \cup up /\ (armed => Missed)
Rank == CASE pc = "start" -> 9 [] pc = "ssh" -> 8 [] pc = "nossh" -> 7
          [] pc = "loop" -> IF left > 0 THEN 6 ELSE 2
          [] pc = "sweep" -> 5 [] pc = "judge" -> 4 [] pc = "sleep" -> 3
          [] pc = "close" -> 1 [] pc = "done" -> 0
SettledSpends ==
    [][up' = up =>
         \/ MayArm /\ ~MayArm'
         \/ /\ MayArm' = MayArm
            /\ \/ left' < left
               \/ left' = left /\ Rank' < Rank
               \/ UNCHANGED <<left, pc>> /\ at' \in (at + 1)..n]_vars

(* A run ends once its service stops coming and going.                     *)
SettledEnds == <>[][up' = up]_up => <>(pc = "done")

(* "A pass requires the full check set to hold for HOLD seconds after the  *)
(* first all-pass sweep" (vmf_verify.py:536): no sweep of the hold passed  *)
(* over a check that was down.                                             *)
HeldThroughout == exit = 0 => ~ignored

(* "Runs every runnable check until it passes or the deadline expires"     *)
(* (vmf_verify.py:9): every run ends.                                     *)
DeadlineEnds == <>(pc = "done")
=============================================================================
