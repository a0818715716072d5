-------------------------------- MODULE Race --------------------------------
(***************************************************************************)
(* The staggered boot race of src/scripts/vmf_race.py: the loop of race()  *)
(* that boots candidates, polls their verdict markers and crowns one;      *)
(* promote(), which boots the winner under the canonical name; and _die(), *)
(* the signal handler.  Beside it run one runner chain per name (the       *)
(* oci-run.sh process the race spawns, its VM and its verify stage), and   *)
(* the scout that streams further routes in.                               *)
(*                                                                         *)
(* Candidates are numbered as the code names them (base-c1, base-c2, ...)  *)
(* in the order they enter keep, so the queue, always ascending, is a set  *)
(* whose head is its least member.  There is no clock: wherever the code   *)
(* asks whether an interval has lapsed, both answers are open, so that the *)
(* properties hold for all durations (STAGGER, DEADLINE, BAND_SECS, the    *)
(* 30 s a finished runner has for its marker, the promotion wait).         *)
(* An operator placed just before another one of the same shape            *)
(* (TerminateForgotten before Terminate, ...) is that one with a bug: the  *)
(* variant the properties must tell from the code.                         *)
(***************************************************************************)
EXTENDS Integers, FiniteSets

CONSTANTS MaxCands,  \* bound: candidates a race may ever hold
          Parallel,  \* VMF_RACE_PARALLEL: runners booted at once
          Tries,     \* VMF_PROMOTION_TRIES: boots of the canonical name
          Turns,     \* VMF_VERIFY_TURNS: verify turns of one runner's chain
          Band,      \* the cost band (band_of) of each initial candidate
          Stale,     \* verdict markers an earlier run may have left behind
          Ported     \* candidates whose plans declare one same host port

Cands  == 1..MaxCands
Base   == 0            \* the canonical name
Nobody == -1
Names  == {Base} \cup Cands

ASSUME RaceAssumption ==
    /\ MaxCands \in Nat \ {0}
    /\ Parallel \in Nat \ {0}
    /\ Tries \in Nat \ {0}
    /\ Turns \in Nat \ {0}
    /\ Band \in [Cands -> 0..3]
    /\ Stale \subseteq {"none", "pass", "fail"}
    /\ Ported \subseteq Cands

VARIABLES
    pc,         \* where the coordinator is in race(), promote() or _die()
    tranches,   \* tranche_mode(), fixed for a run
    field,      \* candidates the race was entered with, fixed for a run
    nkeep,      \* len(keep): candidates 1..nkeep are known to the race
    queue,      \* candidates waiting to boot
    bandsLeft,  \* groups: the bands of the initial field not yet popped
    bandNo, bandClock,  \* band_no; band_start: "zero" before the first pop,
                \* then "ticking" until its deadline has been seen to lapse
    running,    \* running
    topoll,     \* what is left of this tick's list(running)
    watched,    \* running_state, all the signal handler knows of
    verdict,    \* verdicts, "none" for an absent key
    winner, attempt, rc, saved,   \* saved: promote() reached save_winner
    lapsed,     \* history: the wait for the winner's port ran out
    finished,   \* the running candidates with a done_at
    late,       \* history: the loop was left at the race deadline
    scout, unread,         \* the scout process; routes it wrote, undrained
    port,       \* the candidate whose VM holds the host port of Ported's plans
    proc, chain, turn, vm, marker, decided   \* per name: the environment

loopVars == <<queue, bandsLeft, bandNo, bandClock, running, topoll, watched,
              finished, verdict, winner>>
promoVars == <<attempt, rc, saved, lapsed>>
feedVars == <<scout, unread>>
envVars == <<proc, chain, turn, vm, marker, decided>>
vars == <<pc, tranches, field, nkeep, loopVars, promoVars, late, port, feedVars, envVars>>

(* The head of an ascending list: its least member, or none.               *)
HeadOf(S) == {x \in S : \A y \in S : x <= y}
InGroup(b) == {c \in 1..field : Band[c] = b}

TypeOK ==
    /\ pc \in {"enter", "top", "start", "poll", "judge", "flushed", "after",
               "reap", "settle", "promote", "free", "boot", "wait", "read", "done", "dead"}
    /\ tranches \in BOOLEAN
    /\ field \in Cands
    /\ nkeep \in field..MaxCands
    /\ queue \subseteq Cands
    /\ bandsLeft \subseteq 0..3
    /\ bandNo \in 0..3
    /\ bandClock \in {"zero", "ticking", "lapsed"}
    /\ running \subseteq Cands
    /\ topoll \subseteq Cands
    /\ watched \subseteq Cands
    /\ verdict \in [Cands -> {"none", "pass", "fail", "exit", "noverdict", "deadline", "band"}]
    /\ winner \in Cands \cup {Nobody}
    /\ attempt \in 0..Tries
    /\ rc \in {0, 1}
    /\ saved \in BOOLEAN
    /\ lapsed \in BOOLEAN
    /\ finished \subseteq Cands
    /\ late \in BOOLEAN
    /\ scout \in {"live", "dead"}
    /\ unread \in 0..(MaxCands - nkeep)
    /\ port \in Ported \cup {Nobody}
    /\ proc \in [Names -> {"none", "live", "ok", "err", "killed"}]
    /\ chain \in [Names -> {"idle", "build", "verify", "write", "exit"}]
    /\ turn \in [Names -> 1..Turns]
    /\ vm \in [Names -> BOOLEAN]
    /\ marker \in [Names -> {"none", "empty", "pass", "fail"}]
    /\ decided \in [Names -> {"none", "pass", "fail"}]

(* race() is entered with a non-empty keep: the scout's first routes with  *)
(* a live feed, or the fan-out's survivors with none (a dead scout).       *)
Init ==
    /\ pc = "enter"
    /\ tranches \in BOOLEAN
    /\ field \in Cands
    /\ nkeep = field
    /\ queue = {}  /\ bandsLeft = {}  /\ bandNo = 0  /\ bandClock = "zero"
    /\ running = {}  /\ topoll = {}  /\ watched = {}
    /\ verdict = [c \in Cands |-> "none"]
    /\ winner = Nobody  /\ attempt = 0  /\ rc = 1  /\ saved = FALSE  /\ lapsed = FALSE
    /\ finished = {}  /\ late = FALSE
    /\ scout \in {"live", "dead"}  /\ unread = 0  /\ port = Nobody
    /\ proc = [n \in Names |-> "none"]
    /\ chain = [n \in Names |-> "idle"]
    /\ turn = [n \in Names |-> 1]
    /\ vm = [n \in Names |-> FALSE]
    /\ \E s \in Stale : marker = [n \in Names |-> s]
    /\ decided = [n \in Names |-> "none"]

-----------------------------------------------------------------------------
(* What the coordinator does to runners and VMs.                           *)

(* A later turn is run by a child shell, which no signal of the race reaches. *)
Nested(n) == turn[n] > 1

(* Popen: a runner starts for name n.                                      *)
Spawn(n) ==
    /\ proc' = [proc EXCEPT ![n] = "live"]
    /\ chain' = [chain EXCEPT ![n] = "build"]
    /\ turn' = [turn EXCEPT ![n] = 1]
    /\ decided' = [decided EXCEPT ![n] = "none"]

(* proc.terminate() on the runners of S signals the top oci-run.sh shell   *)
(* alone.  The shell is gone; the boot it was waiting for, or the nested   *)
(* re-run of the revised plan, goes on without it.                         *)
TerminateForgotten(S) == UNCHANGED <<proc, chain>>
Terminate(S) ==
    LET hit == {n \in S : proc[n] = "live"}
    IN  /\ proc' = [n \in Names |-> IF n \in hit THEN "killed" ELSE proc[n]]
        /\ chain' = [n \in Names |->
                        IF n \in hit /\ ~Nested(n) /\ chain[n] # "build"
                        THEN "idle" ELSE chain[n]]

(* stop_vm on every name of S: stop.sh signals the VM, without waiting for *)
(* it, and removes the instance directory with its verdict marker; a name  *)
(* that holds no VM is left as it is.  From then on vm says the VM is not  *)
(* up; how long it still holds its host port is Gone's to say.             *)
StopWatchedOnly(S) ==
    /\ vm' = [n \in Names |-> vm[n] /\ n \notin (S \cap watched)]
    /\ marker' = [n \in Names |-> IF n \in S \cap watched /\ vm[n] THEN "none" ELSE marker[n]]
Stop(S) ==
    /\ vm' = [n \in Names |-> vm[n] /\ n \notin S]
    /\ marker' = [n \in Names |-> IF n \in S /\ vm[n] THEN "none" ELSE marker[n]]

-----------------------------------------------------------------------------
(* The loop of race(): top (drain), start, poll (once per runner), judge.   *)

AfterPoll(S) == IF S = {} THEN "judge" ELSE "poll"

KeepStale(S) == UNCHANGED marker
Unlink(S) == marker' = [n \in Names |-> IF n \in S THEN "none" ELSE marker[n]]

(* Before the loop: the queue or the bands, and the stale markers.         *)
Enter ==
    /\ pc = "enter"
    /\ queue' = IF tranches THEN {} ELSE 1..nkeep
    /\ bandsLeft' = IF tranches THEN {Band[c] : c \in 1..nkeep} ELSE {}
    /\ Unlink(1..nkeep)
    /\ pc' = "top"
    /\ UNCHANGED <<tranches, field, nkeep, bandNo, bandClock, running, topoll, watched, finished, verdict,
                   winner, promoVars, late, port, feedVars, proc, chain, turn, vm, decided>>

Looping == queue # {} \/ running # {} \/ bandsLeft # {} \/ scout = "live"

Leave ==
    /\ pc = "top" /\ ~Looping
    /\ pc' = "after"
    /\ UNCHANGED <<tranches, field, nkeep, loopVars, promoVars, late, port, feedVars, envVars>>

DrainAgain ==
    /\ pc = "top" /\ Looping
    /\ nkeep' = nkeep + unread
    /\ queue' = queue \cup (nkeep + 1 .. nkeep + unread)
    /\ Unlink(nkeep + 1 .. nkeep + unread)
    /\ pc' = "start"
    /\ UNCHANGED <<tranches, field, bandsLeft, bandNo, bandClock, running, topoll, watched, finished,
                   verdict, winner, promoVars, late, port, feedVars, proc, chain, turn, vm, decided>>
(* Every route the scout wrote since the last tick joins keep and queue,   *)
(* in either mode, its stale marker unlinked.                              *)
Drain ==
    /\ pc = "top" /\ Looping
    /\ nkeep' = nkeep + unread
    /\ queue' = queue \cup (nkeep + 1 .. nkeep + unread)
    /\ unread' = 0
    /\ Unlink(nkeep + 1 .. nkeep + unread)
    /\ pc' = "start"
    /\ UNCHANGED <<tranches, field, bandsLeft, bandNo, bandClock, running, topoll, watched,
                   finished, verdict, winner, promoVars, late, port, scout, proc, chain, turn, vm, decided>>

MayBoot == queue # {} /\ Cardinality(running) < Parallel

(* The stagger lapsed and a slot is free: the head of the queue boots.     *)
Boot ==
    /\ pc = "start" /\ MayBoot
    /\ \E c \in HeadOf(queue) :
          /\ queue' = queue \ {c}
          /\ running' = running \cup {c}
          /\ topoll' = running \cup {c}
          /\ watched' = watched \cup {c}
          /\ Spawn(c)
    /\ pc' = "poll"
    /\ UNCHANGED <<tranches, field, nkeep, bandsLeft, bandNo, bandClock, finished, verdict,
                   winner, promoVars, late, port, feedVars, vm, marker>>

(* Nothing to boot, no slot, or too soon after the last race event.        *)
NoBoot ==
    /\ pc = "start"
    /\ topoll' = running
    /\ pc' = AfterPoll(running)
    /\ UNCHANGED <<tranches, field, nkeep, queue, bandsLeft, bandNo, bandClock, running, watched,
                   finished, verdict, winner, promoVars, late, port, feedVars, envVars>>

(* The marker as race() reads it: an empty file is a failure.              *)
Status(c) == IF marker[c] = "pass" THEN "pass" ELSE "fail"
NeverProvisional(c) == FALSE
AlwaysProvisional(c) == Status(c) = "pass"
(* A pass counts once the runner has exited; the file may change until then. *)
Provisional(c) == Status(c) = "pass" /\ proc[c] = "live"

(* What one poll of runner c may conclude, "none" being nothing yet.  A    *)
(* clean exit without a marker is judged only after a grace of 30 s.       *)
Findings(c) ==
    IF marker[c] # "none" THEN {IF Provisional(c) THEN "none" ELSE Status(c)}
    ELSE IF proc[c] = "err" THEN {"exit"}
    ELSE IF c \in finished THEN {"none", "noverdict"}
    ELSE {"none"}

PollOpen(c) ==
    /\ pc = "poll" /\ c \in topoll /\ "none" \in Findings(c)
    /\ topoll' = topoll \ {c}
    /\ pc' = AfterPoll(topoll')
    /\ finished' = IF marker[c] = "none" /\ proc[c] = "ok"
                   THEN finished \cup {c} ELSE finished
    /\ UNCHANGED <<tranches, field, nkeep, queue, bandsLeft, bandNo, bandClock, running,
                   watched, verdict, winner, promoVars, late, port, feedVars, envVars>>

(* A verdict: the runner is terminated and forgotten by the loop and by    *)
(* the signal handler; a pass ends the tick.                               *)
PollVerdict(c) ==
    /\ pc = "poll" /\ c \in topoll
    /\ \E f \in Findings(c) \ {"none"} :
          /\ verdict' = [verdict EXCEPT ![c] = f]
          /\ winner' = IF f = "pass" THEN c ELSE winner
          /\ topoll' = IF f = "pass" THEN {} ELSE topoll \ {c}
    /\ pc' = AfterPoll(topoll')
    /\ running' = running \ {c}
    /\ watched' = watched \ {c}
    /\ finished' = finished \ {c}
    /\ Terminate({c})
    /\ UNCHANGED <<tranches, field, nkeep, queue, bandsLeft, bandNo, bandClock, promoVars, late, port,
                   feedVars, turn, vm, marker, decided>>

JudgeWinner ==
    /\ pc = "judge" /\ winner # Nobody
    /\ pc' = "after"
    /\ UNCHANGED <<tranches, field, nkeep, loopVars, promoVars, late, port, feedVars, envVars>>

(* The race deadline fails whatever still runs.  running_state keeps it.   *)
JudgeDeadline ==
    /\ pc = "judge" /\ winner = Nobody
    /\ late' = TRUE
    /\ verdict' = [c \in Cands |-> IF c \in running /\ verdict[c] = "none"
                                   THEN "deadline" ELSE verdict[c]]
    /\ Terminate(running)
    /\ pc' = "after"
    /\ UNCHANGED <<tranches, field, nkeep, queue, bandsLeft, bandNo, bandClock, running, topoll,
                   watched, finished, winner, promoVars, port, feedVars, turn, vm, marker, decided>>

(* BAND_SECS gives band 3 no deadline.  band_start is 0.0 until the first  *)
(* band is popped, and any deadline counted from there is long past.       *)
BandMayLapse == tranches /\ bandNo # 3 /\ (running # {} \/ queue # {})
BandHasLapsed == BandMayLapse /\ bandClock # "ticking"

(* A lapsed band gives up its runners and its queue alike.                 *)
FlushBand ==
    /\ pc = "judge" /\ winner = Nobody /\ BandMayLapse
    /\ verdict' = [c \in Cands |-> IF c \in running \cup queue /\ verdict[c] = "none"
                                   THEN "band" ELSE verdict[c]]
    /\ Terminate(running)
    /\ watched' = watched \ running
    /\ running' = {}
    /\ queue' = {}
    /\ finished' = {}
    /\ bandClock' = IF bandClock = "ticking" THEN "lapsed" ELSE bandClock
    /\ pc' = "flushed"
    /\ UNCHANGED <<tranches, field, nkeep, bandsLeft, bandNo, topoll, winner,
                   promoVars, late, port, feedVars, turn, vm, marker, decided>>

HighestBand == {b \in bandsLeft : \A a \in bandsLeft : a <= b}
NextBand == HeadOf(bandsLeft)
GiveUpEarly == queue = {} /\ running = {}
FieldSpent == queue = {} /\ running = {} /\ bandsLeft = {}

(* The queue and the runners are spent: the next band enters.              *)
PopBand ==
    /\ pc \in {"judge", "flushed"} /\ winner = Nobody
    /\ queue = {} /\ running = {} /\ bandsLeft # {}
    /\ \E b \in NextBand :
          /\ bandNo' = b
          /\ queue' = InGroup(b)
          /\ bandsLeft' = bandsLeft \ {b}
    /\ bandClock' = "ticking"
    /\ pc' = "top"
    /\ UNCHANGED <<tranches, field, nkeep, running, topoll, watched, finished, verdict, winner, promoVars,
                   late, port, feedVars, envVars>>

(* The tail of the tick: nothing left and no scout ends the race, anything *)
(* else sleeps and loops.                                                  *)
EndTick ==
    /\ pc \in {"judge", "flushed"} /\ winner = Nobody /\ ~BandHasLapsed
    /\ FieldSpent \/ queue # {} \/ running # {}
    /\ pc' = IF FieldSpent /\ scout = "dead" THEN "after" ELSE "top"
    /\ UNCHANGED <<tranches, field, nkeep, loopVars, promoVars, late, port, feedVars, envVars>>

-----------------------------------------------------------------------------
(* After the loop.                                                         *)

(* The loop's locals, which nothing reads any more.                        *)
DropLocals ==
    /\ queue' = {} /\ bandsLeft' = {} /\ running' = {} /\ topoll' = {}
    /\ bandNo' = 0 /\ bandClock' = "zero" /\ finished' = {}

(* Every loser's VM is stopped; without a winner that is the end.          *)
After ==
    /\ pc = "after"
    /\ Stop(1..nkeep \ {winner})
    /\ DropLocals
    /\ pc' = IF winner = Nobody THEN "done" ELSE "reap"
    /\ UNCHANGED <<tranches, field, nkeep, watched, verdict, winner, promoVars, late, port,
                   feedVars, proc, chain, turn, decided>>

(* The losers' runners still known to running_state are terminated.        *)
Reap ==
    /\ pc = "reap"
    /\ Terminate(watched \ {winner})
    /\ pc' = "settle"
    /\ UNCHANGED <<tranches, field, nkeep, loopVars, promoVars, late, port, feedVars,
                   turn, vm, marker, decided>>

(* The losers are stopped again, after 2 and 4 more seconds.  A step may   *)
(* fall before or after any boot that outlived its runner, so one step     *)
(* stands for both sweeps.                                                 *)
Settle ==
    /\ pc = "settle"
    /\ Stop(1..nkeep \ {winner})
    /\ pc' = "promote"
    /\ UNCHANGED <<tranches, field, nkeep, loopVars, promoVars, late, port, feedVars,
                   proc, chain, turn, decided>>

PromoteInPlace ==
    /\ pc = "promote"
    /\ pc' = "free"
    /\ UNCHANGED <<tranches, field, nkeep, loopVars, promoVars, late, port, feedVars, envVars>>
(* promote(): the winner's own VM is told to stop first.                   *)
Promote ==
    /\ pc = "promote"
    /\ Stop({winner})
    /\ pc' = "free"
    /\ UNCHANGED <<tranches, field, nkeep, loopVars, promoVars, late, port, feedVars,
                   proc, chain, turn, decided>>

PortUnseen ==
    /\ pc = "free"
    /\ attempt' = 1
    /\ pc' = "boot"
    /\ UNCHANGED <<tranches, field, nkeep, loopVars, rc, saved, lapsed, late, port, feedVars, envVars>>
(* The winner's port can be bound, or it has none to wait for (no port in  *)
(* its plan, or an address of its own): the canonical name may boot.       *)
PortFree ==
    /\ pc = "free" /\ port # winner
    /\ attempt' = 1
    /\ pc' = "boot"
    /\ UNCHANGED <<tranches, field, nkeep, loopVars, rc, saved, lapsed, late, port, feedVars, envVars>>

(* After 20 s the boot goes ahead, whoever holds the port.                 *)
PortLapse ==
    /\ pc = "free"
    /\ lapsed' = TRUE
    /\ attempt' = 1
    /\ pc' = "boot"
    /\ UNCHANGED <<tranches, field, nkeep, loopVars, rc, saved, late, port, feedVars, envVars>>

PromoteBootStale ==
    /\ pc = "boot"
    /\ Spawn(Base)
    /\ pc' = "wait"
    /\ UNCHANGED <<tranches, field, nkeep, loopVars, promoVars, late, port, feedVars, vm, marker>>
(* One boot of the canonical name, its marker unlinked first.              *)
PromoteBoot ==
    /\ pc = "boot"
    /\ Unlink({Base})
    /\ Spawn(Base)
    /\ pc' = "wait"
    /\ UNCHANGED <<tranches, field, nkeep, loopVars, promoVars, late, port, feedVars, vm>>

(* proc.wait() has no timeout; then the marker, or the promotion wait      *)
(* running out, which may happen at any moment.                            *)
PromoteWait ==
    /\ pc = "wait" /\ proc[Base] # "live"
    /\ pc' = "read"
    /\ UNCHANGED <<tranches, field, nkeep, loopVars, promoVars, late, port, feedVars, envVars>>

(* The marker as promote() reads it: an empty file is a pass.              *)
PromoteStatus == IF marker[Base] \in {"pass", "empty"} THEN "pass" ELSE "fail"

PromotePass ==
    /\ pc = "read" /\ PromoteStatus = "pass"
    /\ saved' = TRUE
    /\ rc' = 0
    /\ pc' = "done"
    /\ UNCHANGED <<tranches, field, nkeep, loopVars, attempt, lapsed, late, port, feedVars, envVars>>

PromoteForever ==
    /\ pc = "read" /\ PromoteStatus = "fail"
    /\ Stop({Base}) /\ pc' = "boot"
    /\ UNCHANGED <<tranches, field, nkeep, loopVars, promoVars, late, port, feedVars,
                   proc, chain, turn, decided>>
(* A failed attempt is stopped and retried; the last one is left running.  *)
PromoteFail ==
    /\ pc = "read" /\ PromoteStatus = "fail"
    /\ IF attempt < Tries
       THEN Stop({Base}) /\ attempt' = attempt + 1 /\ pc' = "boot"
       ELSE pc' = "done" /\ UNCHANGED <<attempt, vm, marker>>
    /\ UNCHANGED <<tranches, field, nkeep, loopVars, rc, saved, lapsed, late, port, feedVars,
                   proc, chain, turn, decided>>

(* SIGTERM or SIGINT: what running_state names is terminated and stopped,  *)
(* and the process exits with its memory.                                  *)
Die ==
    /\ pc \notin {"done", "dead"}
    /\ Terminate(watched)
    /\ Stop(watched)
    /\ pc' = "dead"
    /\ DropLocals
    /\ watched' = {}
    /\ UNCHANGED <<tranches, field, nkeep, verdict, winner, promoVars, late, port, feedVars,
                   turn, decided>>

-----------------------------------------------------------------------------
(* The environment: a runner chain per name (oci-run.sh with its boot and  *)
(* its verify stage) and the scout.                                        *)

chainRest == <<pc, tranches, field, nkeep, loopVars, promoVars, late, feedVars>>

(* A boot gets the port its plan declares only if its shell found it free  *)
(* (it may be the one its own old VM has just left), and otherwise another *)
(* one; with an address of its own it needs none.                          *)
PickPort(n) == n \in Ported /\ port \in {Nobody, n} /\ port' = n
OwnPort(n)  == port' = IF port = n THEN Nobody ELSE port

(* The VM is up, in place of an old one of the same name, which the boot   *)
(* kills first.  A boot whose shell was terminated ends here: its VM runs  *)
(* and nobody verifies.                                                    *)
BootUp(n) ==
    /\ chain[n] = "build"
    /\ vm' = [vm EXCEPT ![n] = TRUE]
    /\ PickPort(n) \/ OwnPort(n)
    /\ chain' = [chain EXCEPT ![n] = IF proc[n] = "live" \/ Nested(n) THEN "verify" ELSE "idle"]
    /\ UNCHANGED <<chainRest, proc, turn, marker, decided>>

(* The boot or the stage itself fails: a non-zero exit and no marker.  A   *)
(* boot may fail before or after it killed the old VM.                     *)
Abort(n) ==
    /\ chain[n] \in {"build", "verify"}
    /\ \E down \in {FALSE, chain[n] = "build"} : vm' = [vm EXCEPT ![n] = @ /\ ~down]
    /\ chain' = [chain EXCEPT ![n] = "idle"]
    /\ proc' = [proc EXCEPT ![n] = IF @ = "live" THEN "err" ELSE @]
    /\ UNCHANGED <<chainRest, port, turn, marker, decided>>

(* Turn 1 failed and was repaired or revised: a child shell boots again    *)
(* under the same name.  A repair stops the old VM first; a revision       *)
(* leaves it up until the new boot is about to start.                      *)
Rerun(n) ==
    /\ chain[n] = "verify" /\ turn[n] < Turns
    /\ chain' = [chain EXCEPT ![n] = "build"]
    /\ turn' = [turn EXCEPT ![n] = @ + 1]
    /\ \E down \in BOOLEAN : vm' = [vm EXCEPT ![n] = @ /\ ~down]
    /\ UNCHANGED <<chainRest, port, proc, marker, decided>>

(* _verdict opens the marker for writing, which truncates it...            *)
OpenMarker(n) ==
    /\ chain[n] = "verify"
    /\ \E d \in {"pass", "fail"} : decided' = [decided EXCEPT ![n] = d]
    /\ marker' = [marker EXCEPT ![n] = "empty"]
    /\ chain' = [chain EXCEPT ![n] = "write"]
    /\ UNCHANGED <<chainRest, port, proc, turn, vm>>

(* ...and the word lands later.                                            *)
WriteMarker(n) ==
    /\ chain[n] = "write"
    /\ marker' = [marker EXCEPT ![n] = decided[n]]
    /\ chain' = [chain EXCEPT ![n] = "exit"]
    /\ UNCHANGED <<chainRest, port, proc, turn, vm, decided>>

(* A revision that was not applied returns without writing any marker.     *)
NoMarker(n) ==
    /\ chain[n] = "verify"
    /\ chain' = [chain EXCEPT ![n] = "exit"]
    /\ UNCHANGED <<chainRest, port, proc, turn, vm, marker, decided>>

(* The shell ends, with an error if a step after the verdict fails (the    *)
(* target line it adds to the conf).                                       *)
Exit(n) ==
    /\ chain[n] = "exit"
    /\ chain' = [chain EXCEPT ![n] = "idle"]
    /\ \E e \in {"ok", "err"} : proc' = [proc EXCEPT ![n] = IF @ = "live" THEN e ELSE @]
    /\ UNCHANGED <<chainRest, port, turn, vm, marker, decided>>

RunnerStep(n) == \/ BootUp(n) \/ Abort(n) \/ Rerun(n) \/ OpenMarker(n)
                 \/ WriteMarker(n) \/ NoMarker(n) \/ Exit(n)

(* A VM told to stop is gone, and frees the port.                          *)
Gone ==
    /\ port # Nobody /\ ~vm[port]
    /\ port' = Nobody
    /\ UNCHANGED <<chainRest, envVars>>

InLoop == pc \in {"top", "start", "poll", "judge", "flushed"}

(* The scout appends one route to its file, or exits.  Nobody reads it, or *)
(* kills it, once the loop is left.                                        *)
ScoutRoute ==
    /\ scout = "live" /\ InLoop /\ nkeep + unread < MaxCands
    /\ unread' = unread + 1
    /\ UNCHANGED <<pc, tranches, field, nkeep, loopVars, promoVars, late, port, scout, envVars>>
ScoutExit ==
    /\ scout = "live" /\ InLoop
    /\ scout' = "dead"
    /\ UNCHANGED <<pc, tranches, field, nkeep, loopVars, promoVars, late, port, unread, envVars>>

(* The race has returned and the chains that outlived it are over.         *)
Returned ==
    /\ pc \in {"done", "dead"}
    /\ UNCHANGED vars

Coordinator ==
    \/ Enter \/ Leave \/ Drain \/ Boot \/ NoBoot
    \/ \E c \in Cands : PollOpen(c) \/ PollVerdict(c)
    \/ JudgeWinner \/ JudgeDeadline \/ FlushBand \/ PopBand \/ EndTick
    \/ After \/ Reap \/ Settle
    \/ Promote \/ PortFree \/ PortLapse \/ PromoteBoot \/ PromoteWait \/ PromotePass \/ PromoteFail

Next == \/ Coordinator
        \/ Die
        \/ \E n \in Names : RunnerStep(n)
        \/ Gone \/ ScoutRoute \/ ScoutExit
        \/ Returned

Spec == Init /\ [][Next]_vars

(* The coordinator's process runs, and a runner's chain is bounded: the    *)
(* boot ends and the verify stage has a deadline.                          *)
Fairness == /\ WF_vars(Coordinator)
            /\ \A n \in Names : WF_vars(RunnerStep(n))
FairSpec == Spec /\ Fairness

-----------------------------------------------------------------------------
(* Properties.                                                             *)

(* The crown is genuine: the winner's own verify stage of this run decided *)
(* a pass, wrote it whole, and its runner then exited by itself.  Neither  *)
(* a marker left by an earlier run nor a provisional pass may crown.       *)
CrownIsGenuine ==
    winner # Nobody => decided[winner] = "pass" /\ proc[winner] \in {"ok", "err"}

(* No runner is lost: as long as the loop is deciding, a candidate's runner*)
(* that is alive is one the loop polls and the signal handler would reap.  *)
LiveRunnersTracked ==
    InLoop => \A c \in Cands : proc[c] = "live" => c \in running \cap watched

(* A race that gives up before its deadline has a verdict on every         *)
(* candidate it ever took in, initial or scouted.                          *)
ExhaustiveOnFailure ==
    pc = "done" /\ winner = Nobody /\ ~late =>
        \A c \in 1..nkeep : verdict[c] # "none"

(* When race() returns, a loser's VM can only be up if its runner had to   *)
(* be terminated: whatever ended by itself has been stopped.               *)
LosersReaped ==
    pc = "done" => \A c \in 1..nkeep \ {winner} : vm[c] => proc[c] = "killed"

(* While the canonical name boots or runs, the winner's VM is not up again *)
(* (no chain of the winner's is left to boot it), and it still holds the   *)
(* host port they share only if promote()'s wait for that port ran out.    *)
WinnerReleased ==
    chain[Base] # "idle" \/ vm[Base] =>
        winner # Nobody /\ ~vm[winner] /\ (port = winner => lapsed)

(* The winner cache is written, and success returned, only when this       *)
(* promotion's own boot of the canonical name decided a pass and its VM    *)
(* is up: never from a marker of an earlier run or attempt.                *)
PromotionIsGenuine ==
    /\ saved <=> rc = 0
    /\ saved => decided[Base] = "pass" /\ vm[Base]

(* In tranche mode an initial candidate boots only when every cheaper      *)
(* initial candidate has its verdict: bands escalate in order of cost.     *)
CheaperBandsFirst ==
    [][tranches =>
         \A c \in (running' \ running) \cap (1..field) :
           \A d \in 1..field : Band[d] < Band[c] => verdict[d] # "none"]_vars

(* A pass whose runner has exited is there to be crowned until a crown, a  *)
(* deadline or a signal: nothing a runner, a child shell or a stop of      *)
(* another name does takes it back, and no poll passes over it.            *)
Ripe(c) == c \in running /\ marker[c] = "pass" /\ proc[c] \in {"ok", "err"}
PassStands ==
    [][\A c \in Cands : Ripe(c) =>
         \/ Ripe(c)' /\ (c \in topoll => c \in topoll')
         \/ winner' # Nobody
         \/ verdict'[c] \in {"deadline", "band"}
         \/ pc' = "dead"]_vars

(* All the coordinator ever does again is the tick of an undecided race    *)
(* and, at most Tries times, the boot of the canonical name: each tick     *)
(* polls each of its runners once, and behind the loop, or under a crown,  *)
(* there is no way back into it (race(), promote()).                       *)
Rank == CASE pc = "enter" -> 14 [] pc = "top" -> 13 [] pc = "start" -> 12
          [] pc = "poll" -> 11 [] pc = "judge" -> 10 [] pc = "flushed" -> 9
          [] pc = "after" -> 8 [] pc = "reap" -> 7 [] pc = "settle" -> 6
          [] pc = "promote" -> 5 [] pc = "free" -> 4 [] pc = "boot" -> 3 [] pc = "wait" -> 2
          [] pc = "read" -> 1 [] OTHER -> 0
OnlyTicksRepeat ==
    [][\/ pc \in {"judge", "flushed"} /\ pc' = "top" /\ winner = Nobody
       \/ attempt' \in (attempt + 1)..Tries
       \/ attempt' = attempt /\ Rank' < Rank
       \/ /\ UNCHANGED <<attempt, pc>>
          /\ topoll' \subseteq topoll /\ topoll' # topoll]_<<pc, topoll>>

(* Every race returns, by a crown, by exhaustion or by the deadline, and   *)
(* then by at most Tries boots of the canonical name, if the deadline that *)
(* every tick asks about is one day seen to have passed.                   *)
RaceReturns == SF_vars(JudgeDeadline) => <>(pc \in {"done", "dead"})

(* A pass whose runner has exited is not left standing until the deadline: *)
(* its candidate, or another, is crowned by the loop's own polling, unless *)
(* a deadline (or a signal) that strikes between two polls takes it first. *)
PassIsCrowned ==
    \A c \in Cands :
        Ripe(c) ~> (winner # Nobody \/ verdict[c] \in {"deadline", "band"} \/ pc = "dead")

(* The race implements its contract.                                       *)
Outcome == IF pc = "dead" THEN "killed"
           ELSE IF pc = "done" THEN IF rc = 0 THEN "won" ELSE "lost"
           ELSE IF winner # Nobody THEN "promoting" ELSE "racing"
Contract == INSTANCE Crown WITH passed <- {n \in Names : decided[n] = "pass"},
                                crown <- winner, outcome <- Outcome
ImplementsCrown == Contract!Spec

(* Each name's runner is the chain Stage implements, and no runner starts  *)
(* under a marker an earlier one left.                                     *)
RunnerOf(n) ==
    INSTANCE Chain WITH phase <- CASE chain[n] \in {"idle", "exit"} -> "off"
                                   [] chain[n] = "build" -> "boot"
                                   [] OTHER -> "verify",
                        turn <- turn[n],
                        word <- IF marker[n] = "empty" THEN "none" ELSE marker[n]
ImplementsChain ==
    /\ \A n \in Names : RunnerOf(n)!Init
    /\ [][\A n \in Names : RunnerOf(n)!Next \/ UNCHANGED RunnerOf(n)!chvars]_vars

(* What the comments of the source say and its behaviours do not.          *)

(* "the file's last write wins": a marker is judged a failure only when    *)
(* the verify stage decided a failure.                                     *)
LastWriteWins == \A c \in Cands : verdict[c] = "fail" => decided[c] # "pass"

(* "Killed races must not orphan candidate VMs: reap everything this race  *)
(* started": once the chains are quiet, no VM the killed race booted is up.*)
KilledRaceReapsAll ==
    pc = "dead" /\ (\A n \in Names : chain[n] = "idle") => \A n \in Names : ~vm[n]

(* "a route the scout finds at t+30s still boots": the race gives up       *)
(* before its deadline only when it has booted every route in the file.    *)
ScoutedRoutesBoot ==
    pc = "done" /\ winner = Nobody /\ ~late =>
        unread = 0 /\ \A c \in field + 1 .. nkeep : proc[c] # "none"
=============================================================================
