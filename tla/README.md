# vmfactory: TLA+ specifications

vmfactory turns a repository, an image or a phrase into a verified running
microVM.  This directory holds specifications of the parts of it whose
correctness depends on order: what runs beside what, what is read before what
is written, and what is left behind when something fails.  They are checked
with TLC on small instances; what matters most is proved with TLAPS for all.

## The system

| component | source | state | operations | what is hard | what makes it correct |
|---|---|---|---|---|---|
| race coordinator | `scripts/vmf_race.py` | `keep`, `queue`, `groups`, `running`, `running_state`, `verdicts`, `winner`; the winner cache | `race`, `promote`, `_die`, `ScoutFeed`, reattach, replay | runners, their markers, the scout, deadlines and signals all interleave with the poll loop | one crown, only for a verified candidate; nothing lost, nothing left running; it returns |
| runner chain | `scripts/oci-run.sh`, `qemu-boot.sh`, `firecracker-boot.sh` | instance directory (`conf`, `verdict`), rundir, the VM | boot, verify stage, repair, revision, re-run under the same name | child shells outlive the shell a signal reaches; turns share one marker | the marker says what the last verification decided |
| verify runner | `scripts/vmf_verify.py` | per-check results, hold, deadline, evidence | `run_cmd`, `revise_cmd` | services that come up late, lapse and come back | a pass rests on a full second sweep |
| instances and names | `scripts/oci-run.sh`, `vmf_lib.sh`, `stop.sh`, `vmf_clean.sh` | id directories, the name's symlink, `RUN=` ownership | create, replace, stop, clean, teardown | an old instance tears down while a new one holds its name | nobody removes another run's state |
| planner | `scripts/vmf_plan.py` | plan files, caches | scan, classify, fan-out, gap-fill, intent, scout | concurrent calls, cached verdicts, two writers and many readers of one set of files, the approval gate | a cached answer is used only for the target it was given for; nothing is kept that the user did not see |
| agent | `scripts/vmf_agent.py` | transcript, turn and budget counters | drive, repair | budgets, plumbing failures, a plan set aside | it ends, and only a plan that passed in the guest counts |
| port exposure | `scripts/expose-poller.sh`, `guest/expose.sh` | table of published ports | poll, publish | the guest changes under the poller | every listening port is published or reported |
| bridge network | `scripts/vmf_net.sh` | tap pool | init, claim | a claim reserves nothing | no tap serves two VMs |
| image supply | `scripts/image-supply.sh`, `pin.sh` | pin file | look up, record, compare | concurrent first uses | one digest per reference, for ever |
| compose runs | `scripts/compose-run.sh` | staging directory | plan, build, hand over | traps that do not exit | nothing leaks |
| Go planning core | `internal/generate`, `internal/model`, `internal/plan` | lane results, cache files | `Fanout`, `land` | one goroutine per lane | each lane answered once, cached under its spec hash |
| events | `internal/events` | sequence number, subscribers' queues | `Emit`, `Subscribe`, `Unsubscribe` | full queues drop | loss shows as a gap |
| run store | `internal/store` | SQLite tables | `RecordRun`, `RunProvenance` | partial writes | a run is recorded whole or not at all |
| targets and mirrors | `internal/target`, mirror code of `oci-run.sh` | mirror clone, lock file | refresh, copy, pin | refresh beside copy | a copy is of one commit |
| Go validation, rendering, specs | `internal/validate`, `render`, `spec`, `inspect`, `acceptance` | none | pure functions | bounds | |
| status, board, `ps` | `scripts/vmf_status.py`, `vmf_ui.py`, `vmf_ps.py` | status files | write, render | | presentation |
| spec generator | `scripts/generate.py`, `validate.py` | none | render packer and docker files | | batch |
| model transport | `scripts/vmf_llm.py`, `llm.sh`, `context7.sh` | none | call a model | | input and output |

How they meet: the user's command is `oci-run.sh`, which hands a repository to
`vmf_race.py`.  The race spawns one `oci-run.sh` per candidate (a *runner*, with
`VMF_RACE_CHILD=1`); the runner boots a VM that outlives it and runs its verify
stage, which calls `vmf_verify.py` and leaves one word in the instance's
`verdict` file, the *marker*.  Marker and exit status are all the race ever sees
of a runner.  A failed verification may repair the VM in place, or boot a revised
plan in a child shell under the same name.  The scout, a `vmf_plan.py` process,
appends routes to a file that the race drains every tick.  The winner's
candidate VM is stopped and its approach booted again under the canonical name
(the promotion).

Before a race, `vmf_plan.py` runs as the scout or as the fan-out.  Both leave
plan files under `~/.vmf/generated`, which the runners of this run and of later
ones read, and which the revision of a failed verify stage rewrites.  A run of an
intent, or of a repository without a compose file, needs no race: a planner drafts
one plan, a gate puts it before the user, and an agent session or a repair
(`vmf_agent.py`) may write another.

## The modules

| module | what it is |
|---|---|
| `Crown` | the contract of a race, with no runner, marker, timer or VM in it |
| `Chain` | what a race takes for granted of one runner: boots, turns, one word |
| `Race` | `race()`, `promote()`, `_die()`, and the runners and the scout beside them |
| `MCRace` | values for TLC |
| `RaceProofs` | the inductive invariant of `Race` and the theorems |
| `FieldProofs` | on top of it, what becomes of the whole field |
| `TickProofs` | on top of it, how a race gets on |
| `Verify` | `run_cmd` of the verify runner, and the service it asks |
| `VerifyProofs` | the inductive invariant of `Verify` and the theorems |
| `PlanFiles` | the files the planners, the runners and the runs share |
| `Fanout` | `fanout_cmd` over them |
| `Scout` | `scout_cmd` over them |
| `Planning` | `main` around the race, over several runs: composes the two |
| `MCPlanning` | values for TLC |
| `PlanningProofs` | the inductive invariant of `Planning` and the theorems |
| `RunPlans` | the plans of a single VM |
| `Propose` | the approval gate of `intent_cmd` and `gapfill` |
| `Agent` | `agent_cmd` |
| `Stage` | one name from a plan to a verdict, over several runs: composes the two |
| `MCStage` | values for TLC |
| `StageProofs` | the inductive invariant of `Stage` and the theorems |

### Race

`pc` is where the coordinator stands.  One tick of the loop is `Drain` (the
scout's new routes join `keep` and `queue`), `Boot` or `NoBoot`, one `PollOpen`
or `PollVerdict` per runner, and then one of `JudgeWinner`, `JudgeDeadline`,
`FlushBand` (a band deadline), `PopBand` and `EndTick`.  After the loop come
`After`, `Reap`, `Settle`, then `Promote` (the winner is told to stop), `PortFree`
or `PortLapse` (the wait for its host port ends, or runs out) and, per attempt,
`PromoteBoot`, `PromoteWait` and `PromotePass` or `PromoteFail`.  `Die` is the signal handler
and may strike between any two of them.

Per name (a candidate or the base) the environment has `proc` (the runner's top
shell, as `Popen` sees it), `chain` (what the chain of shells is doing), `turn`
(which verify turn; later turns run in child shells), `vm`, `marker`, and
`decided`, what the verify stage has concluded in this boot, known or not.
`proc` and `chain` are apart on purpose: `terminate()` signals the top shell
alone.  A boot it was waiting for goes on and raises a VM nobody verifies; a
child shell goes on to verify and to write.  The marker is written as the shell
writes it, in two steps: `OpenMarker` truncates, `WriteMarker` puts the word.

`stop.sh` signals a VM and removes its instance directory; it does not wait for
the VM to end.  So `vm` says which VMs have not been told to stop, and `port`
which candidate's VM, signalled or not, still holds the host port; `Gone` is the
end of one that was signalled, at any later time or never.  `promote()` tells the
winner to stop, tries for 20 s to bind the first port of its plan, and then boots
the canonical name whether or not it could: `PortFree`, `PortLapse`, and the
history variable `lapsed`.  `Ported` are the candidates whose plans declare the
one host port of the model.  A boot takes the port its plan declares if its shell
finds it free and another otherwise (`PickPort`, `OwnPort`; a VM with an address of
its own takes none).  A re-run may leave the old VM up until its child's boot is
about to start (`Rerun`, `BootUp`).

What is abstracted:

- *Time.*  Whenever the code compares a clock, both answers are open: stagger,
  race deadline, band deadline, the 30 s a finished runner is allowed for its
  marker, the promotion's wait.  The one exception is `bandClock`: `band_start`
  is 0.0 until the first band is popped, and a deadline counted from there has
  always lapsed; a deadline seen to lapse stays lapsed.  So the safety results
  hold for all settings of the durations, and no liveness rests on any of them.
- *Names and data.*  Candidates are numbers in the order they enter `keep`; a
  marker other than `pass` is `fail`; a candidate's kind is its band.  Filtered
  routes never enter `keep` and are left out, and so are logs and board.
- *Ports.*  One shared host port stands for all: of a plan's ports only the first
  is ever waited for.
- *The order of a tick's polls* is free (the code follows the dictionary).
- *The two settling sweeps* are one step: a VM that rises between them is
  stopped by the second, as one that rises before the step is.
- *A repair in place* is part of the step from `verify` to its marker.
- *A chain whose instance directory a stop removed* may still write its marker
  in the model; in the code that write fails.  The model allows more.
- *One call of `race()`.*  The replay of the winner cache, which precedes it in
  `main`, is an instance of it with one candidate and no scout.

An operator that stands immediately before another of the same shape
(`TerminateForgotten` before `Terminate`) is that operator with a bug in it.
Nothing uses these; they serve to show that the properties can tell.

### Crown

`passed` (the names whose verification ended in a pass), `crown`, `outcome`.
At most one candidate that passed is crowned, and the outcome is `won` only
when the base has passed too, under a crown.  `Race` implements it with
`passed` as the names whose `decided` is `pass` and `outcome` read from `pc`
and `rc`.

### Chain

`phase` (off, boot, verify), `turn`, `word`.  A run starts under no earlier run's
word, boots and verifies at most `Turns` times over, and leaves at most one word,
at its end, decided by a verification; a run cut short leaves none.  It is where
the two views of `oci-run.sh` meet: `Race` implements it for every name (its
marker empty or absent is no word) and `Stage` for the one it follows (planning
and boot are `boot`; an unverified run's word is a failure to the race).  So what
`Race` assumes of a runner's turns and marker, `Stage` keeps.

### Verify

`pc` is where `run_cmd` stands: `SshUp`, `SshDown` and `SshLost` are `wait_ssh`,
`Loop` is the test of the deadline, `Ask` and `Skip` are one round of the inner
`for` (a check that has passed is skipped), `Arm`, `Holding` and `Lapse` are the
three ways a sweep ends, `Close` is the verdict.  `results`, `failed`, `armed`
(`hold_until` is set) and `exit` are the code's own variables.  Beside it `Change`
turns one check of the guest on or off (`up`), between any two steps.

The code compares `time.time()` with two instants.  The model keeps the distance
to each (`left`, `holdLeft`), cut off at zero: the code tells apart only "not yet"
and "reached", and `max(deadline, now + hold + 10)` is the larger of two
distances.  So a run without end has finitely many states and liveness can be
checked.  Four variables are history: `fresh`, `elapsed`, `ignored`, `swept`.

Abstracted: what a probe sends (`Answers` is what it concludes: a check is up or
down at the moment it is asked, and asking takes between 0 and `MaxCost`); labels, which the model takes
for distinct; output, the console snapshot and the target file.  Whether the
console shows a crash or an out-of-memory kill (`AppAlive` in the evidence) is a
free choice when the run closes.

Two remarks on the code.  With `VMF_VERIFY_HOLD=0` there are still two sweeps
(`Arm` does not depend on the length of the hold), though line 538 speaks of the
old single sweep.  And when ssh answers at the edge of the deadline no sweep is
made: the verdict is a failure of every check, and no evidence is written.

### PlanFiles, Fanout, Scout, Planning

A plan in these modules is its method, the target spec it was made under and
whether its command is the app, a keep-alive, or the app as a revision left it.
`planF`, `blockF`, `own`, `shared`, `scoutF` and `specF` are
`plan-<method>.json`, the blocked file beside it, `direct-<method>.json`,
`direct.json`, `scout-v2.json` and `spec.json`.  A file is written in two steps,
as `open(..., "w")` and `json.dump` do; a process killed between them leaves it
`Torn`.  The readers treat that as the code does: a torn plan hides a blocked
verdict and is asked for again, a torn blocked verdict blocks, a torn scan or spec
is read as none.

`Fanout`: `fpc` is where `fanout_cmd` stands; calls in `pending` land in any
order (`Land`: a plan, a refusal or a plan the clamp refuses, or no answer), each
result is written before the next is taken (`Flush`), then one plan becomes
`direct.json` (`Share`) and the approaches are listed (`List`).  `Scout`: `spc`
is where `scout_cmd` stands: a replay, or turns of `Reply`, `Clamp` per route and
`NextTurn`, then `CacheScan` and a plan file per direct route (`OpenOwn`,
`FillOwn`).  `Choke` is the reply with a route that is no object.  `Planning`
lets runs begin, take the winner's record, the scout's stream or the fan-out's
list, boot direct candidates from the file their runner picks (`Takes`, `BootDraft`
where there is none), revise them, win, lose, or be killed with or without their
children.

Neither planner ends with its race.  No run waits for an earlier scout: the newest
one is followed in full, and one that still lives when the next starts joins the
*strays*, of which only the spec is known.  A stray may at any time do whatever its
code may still do: append a route to the feed, which is one path for all
(`StrayRoute`), cache its scan (`StrayScan`), write or tear a plan file
(`StrayOwn`), or nothing any more.  A race reads its own scout's lines and theirs
alike (`Streaming`).  A fan-out that outlives a killed race goes on with what it
was allowed (`Aftermath` keeps its `yes`) and may still share its plan.

Bounds and omissions: a stray's scan has at most `MaxRoutes` routes; no fan-out
begins beside one a killed race left at work; the candidates such a race left are
not followed.  `spec.json` is read and written in one step, though a model call
lies between: of two planners that derive at once, the last to begin is taken for
the last to write.

Abstracted: evidence, prompts, registry and release lookups (any route or plan
may be dropped); methods that are no direct plan have only their verdict; the
spec is derived by the model or by its fallback, one of `Answers`.

### RunPlans, Propose, Agent, Stage

Here a plan is its identity and the ports it publishes.  `Stage` follows one
name: `pc` is where the shell stands, `kind` what it was given (an intent, or a candidate of a
repository: on the shared gap-fill plan, on a route's own plan file, or on a
compose stack), `mode` is `VMF_INTENT_MODE`, `turn` is `VMF_VERIFY_TURN`.
`icache` is the intent's plan cache, which no other run touches, `failures` its
`meta["failed"]`.  The files under a repository's evidence are `Planning`'s:
siblings, scouts and earlier runs write them, a revision reaches `direct.json`
only, and here a candidate may find any plan or none (`Found`).  `Replay`,
`Compose`, `ProposeStart` (when there is no plan, `Planless`) or `NoRoute` (a route
whose file is gone) choose the plan, `Boot` boots it; `Pass`, `Verdict` and `ChecksFail` are the exit codes of the
verify run (which is `Verify`); then `GiveUp`, `OomReboot`, `RepairStart` with
`Repaired` or `Unrepaired`, and `Revise`, `NoTarget` or `NotApplied`.  A reboot's
child comes through planning again, under `--yes`, except that of a compose stack,
which takes the repository for an image and dies (`Stranded`).  A stack the
gap-filler made in docker mode counts as one of these.  The marker is written
before a failure is counted, and only an intent's last turn counts it (`Failed`).

`Propose` is the gate: `Finalize` drafts, `Approve`, `Decline` and `Change`
answer.  `Agent` is the session: `Think` (a model call), `Act` (its command),
`Judge` (its plan, tried in the guest), `Gate` and `Extra`; `RunOut` leaves the
loop at its deadline or turn limit; `SeedDone` ends the thread of the host image
supply, which the loop joins.  Three variables are history: `shown`, `proved`
with `ranOut`, and `due` (what a reboot was made for).

Abstracted: commands, transcripts and their resumption, the plan VM a session
drives, the budget that `AgentTurns` and the deadline stand for.  The boot is the
detached one.  What the model writes into a plan is any plan.

## The runs

| run | bounds | checks |
|---|---|---|
| `crown` | 2 candidates without ports, 2 slots, 2 tries, 2 turns, pass markers of an earlier run | types; `CrownIsGenuine`, `WinnerReleased`, `PromotionIsGenuine`; `ImplementsCrown`, `ImplementsChain`; `OnlyTicksRepeat` |
| `field` | 3 candidates, 2 slots, 1 try, 1 turn | `LiveRunnersTracked`, `ExhaustiveOnFailure`, `LosersReaped`, `CheaperBandsFirst`; `PassStands` |
| `race_live` | 2 candidates, one with a host port, 2 slots, 2 tries, 1 turn, `FairSpec` | `WinnerReleased`; `RaceReturns`, `PassIsCrowned` |
| `fanout` | methods pkg and source, no scout; an intent whose target is web or a guess, and none; 2 runs | types; `PlansServeTarget`, `SilenceBlocksNothing`, `PkgHasTheSharedPlan` |
| `scouting` | the scout's source route, the fan-out's pkg, 2 turns, 1 route a reply; 2 runs, strays beside the second | `CachedScanIsWhole`, `ReplayServesTarget`, `OwnMethodOrNothing`, `SettledRouteBootsItsLine`; `PlannersSpend` |
| `stage` | the four kinds, 3 plans (two with the same ports), 2 verify turns, 1 round, 1 instruction, 1 agent turn, 3 runs, `FairSpec` | types; `PassIsReplayed`, `RebootBootsIt`, `NothingUnseenIsKept`, `ProvedUnlessRanOut`; `ImplementsChain`, `EachStepSpends`, `RunEnds` |
| `torn_marker` | 2 candidates | finds `LastWriteWins` violated |
| `killed_race` | 2 candidates | finds `KilledRaceReapsAll` violated |
| `last_route` | 2 candidates | finds `ScoutedRoutesBoot` violated |
| `verify` | 0 to 3 checks, deadline 6, hold 4, grace 1, poll 1, probes of 0 to 3, `FairSpec` | types; `PassIsHeld`, `LatePassSurvives`, `FailureHasEvidence`; `SettledSpends`, `SteadyPasses`, `SettledEnds` |
| `late_crash` | 0 to 2 checks, deadline 4, hold 2, probes of 0 to 2 | finds `HeldThroughout` violated |
| `flapping` | the same, `FairSpec` | finds `DeadlineEnds` violated |

Why these bounds are enough.  A revision, a stale marker and a retried promotion
each concern one name, and a second candidate is there to run beside it: that is
`crown`.  The host port is in `race_live`, where candidate 1 declares it and
candidate 2 does not, so that the winner is one that is waited for or one that is
not; `crown`, without it, has the later turns a winner may have behind it.  Losing, skipping or misordering a candidate needs a queue behind full
slots, two bands and a scouted route: three candidates for two slots, in
`field`.  Both cover every size of the initial field up to the bound, with and
without a live scout, in both tranche modes.

In `verify` one sweep of slow probes outlasts the hold with its grace, one of
quick probes fits several times into it, and the hold is longer than what may be
left of the deadline when it begins; two checks are needed for one to pass while
another fails, a third for one skipped, one asked and one not reached.

In `fanout` and `scouting` the hazards lie between two runs, the first of which
leaves files the second reads: two runs, with a kill at any step of either, a
cleaned cache and one change of target between them.  Two methods are the fewest
that compete for `direct.json`; one scouted method suffices, since every
statement about a route is about its own file, its line and the shared one, and
pkg stands behind it as the fan-out's.  Two of the scout's turns let a second be
silent after the first was not.  In `stage` a first verify turn fails and a second decides, so each
way to reboot is taken and given up; three runs let a plan fail twice and be
turned away in the third; plans "one" and "two" publish the same ports and "far"
others, so a repair may stay in place or move.  The invariants of `stage` also
hold with 3 verify turns, 2 agent turns and 2 plumbing failures over 2 runs
(0.9 million states).

What they show: `CrownIsGenuine` fails if a provisional pass is taken, and
`ImplementsCrown` if one stale marker is left; `LiveRunnersTracked` says that
the loop's two records of its runners agree about every live one at every step;
`WinnerReleased` says what the promotion can rely on: no chain of the winner's is
left to raise its VM again, and the winner's VM still holds the shared port only
if the wait for it ran out; that it is gone is more than the code ensures.
`SettledRouteBootsItsLine` likewise: a route boots the plan it was announced with
or fails, unless a stray scout writes the same file, and then it boots that
scout's plan of the same method or a torn one, nothing older.  `RebootBootsIt`
holds for intents only, and is stated for them only (see below for the others).
`LosersReaped` is as strong as the code allows: when the race has returned, a
loser's VM can be up only if its runner had to be terminated, a boot that
outlived its shell.

Fairness.  `RaceReturns` needs the coordinator to run (it is a process that
sleeps two seconds at a time), every runner's chain to end (its boot ends and
`vmf_verify.py` has a deadline) and, as its own premise, that the race deadline
the loop asks about in every tick is one day seen to have passed.
`PassIsCrowned` does without that premise: the poll alone must find the pass.
The scout is not assumed to end.

`Verify`'s fairness is that of a process that runs.  The service owes nothing.
`SteadyPasses` says that from a sweep which finds everything up, and up to stay,
the run passes; `SettledEnds` that a run ends once its service stops changing.
The premise is needed (see `flapping`), so a runner's chain ends, as `RaceReturns`
takes for granted, only if its service settles.  The race has its own deadline
for candidates; the promotion has none while its runner lives.

`RunEnds` has the whole of `Run` under weak fairness: the program runs; model calls
have timeouts; boots end; a verify run ends, as it does when its service settles
(see `flapping`); and the user at the gate answers.  Nothing is assumed of what the
answers are: the caps alone end a run in which every plan fails.

Deadlock is not checked in the runs of `Verify`, `Planning` and `Stage`: a run
that is done stops, and the runs are bounded by `MaxRuns`.

### Where comments and code part

- `torn_marker`.  *"The crown waits for the runner to exit, then the file's last
  write wins"* (`vmf_race.py:992`).  Only a pass waits.  An empty file is a
  failure at once, and the shell's redirection empties the file before it writes.
- `killed_race`.  *"Killed races must not orphan candidate VMs"*
  (`vmf_race.py:578`).  A boot in flight outlives the shell that `_die`
  terminates and raises its VM after `_die` has stopped the name; judged
  candidates, the winner and the base are not in `running_state` at all.
- `last_route`.  *"a route the scout finds at t+30s still boots at t+35s"*
  (`vmf_race.py:795`).  What the scout writes between a tick's drain and its
  question whether the scout lives is lost if the scout has exited by then.  In
  tranche mode a route drained before the first band, or after the last band's
  deadline, is flushed in the tick that drained it.

- `late_crash`.  *"A pass requires the full check set to hold for HOLD seconds
  after the first all-pass sweep"* (`vmf_verify.py:536`).  When the hold begins
  every check is asked once more, at once.  Those that answer are not asked again:
  a service that dies in the remaining 25 seconds passes.
- `flapping`.  *"Runs every runnable check until it passes or the deadline
  expires"* (`vmf_verify.py:9`).  Every hold moves the deadline behind itself and
  a lapse lets the next one begin.  A service that keeps coming up and dropping a
  check keeps the run going for ever.

Smaller divergences, met while modelling and kept in the models as the code has
them, without a run of their own:

- *A scouted pkg route* gets a `direct-pkg.json` (`vmf_plan.py:266`), but the
  runner's command leaves pkg out (`vmf_race.py:554`): it boots the shared
  `direct.json`, or drafts anew.
- *The fan-out's entries name no method* (`vmf_race.py:755`): its pkg and its
  source candidate both boot the shared plan.
- *A crash between `plan-pkg.json` and `direct.json`* is not made up for: the
  rerun finds pkg cached and shares nothing.
- *A revision writes `direct.json`* (`vmf_verify.py:816`) also for a candidate that
  booted `direct-<method>.json`; its re-run reads the unrevised file again
  (`vmf_plan.py:269`), and a repair of a candidate is not cached at all.
- *The out-of-memory reboot of a compose stack* (`oci-run.sh:1132`) does not boot
  it: `compose-run.sh:526` has exported `VMF_MODE`, so the child skips the dispatch
  (`oci-run.sh:349`) and never plans the stack.
- *The promotion's wait for a port* is meant to be skipped when the winner has an
  address of its own; `stop.sh` has removed the `conf` by the time `TAP=` is looked
  for in it (`vmf_race.py:1152`), so every winner with ports is waited for.
- *A torn plan file* hides a valid blocked verdict; *a torn blocked file* blocks.
- *The fresh scan* is called without the spec (`vmf_plan.py:3391`), so a
  keep-alive gets through under a web target; a replay of the same scan drops it.
- *The plan files of a scan* are written when the scan is over; a race that boots
  a route earlier finds none, or that of an earlier run.
- *A route that is no object* kills the scout (`Choke`).
- *The winner's record* drops install list, checks and environment, and is keyed
  by neither intent nor spec.
- *A gap-filled plan* repaired in place is not written back to its cache; one whose
  ports move reboots the old plan.
- *An agent's plan set aside for a flaw* on the last turn is gated and kept without
  having been tried, against `vmf_agent.py:3`; `ProvedUnlessRanOut` says
  exactly when.
- *At the cap of changes* the proposal at hand is booted, though the user asked
  for another.
- *A revision that is not applied* leaves no marker (`oci-run.sh:1200`).
- *A plan whose VM never answers ssh* is not counted as failed.
- *Declining a proposal* in mode auto starts an agent session; *mode agent* skips the
  planner but starts no session either, and the run dies (`oci-run.sh:596`).
- *A revision* may rest on the evidence file of an earlier run: it is never removed.
- *Clamping the checks* drops `expect_status_max`: an app that answers 401, or 302
  in the guest, fails, against `vmf_verify.py:110`.
- *A race that ends* leaves its scout running.  It goes on to rewrite
  `direct-<method>.json` under a later race, and to append to the feed, which is one
  path for every race.

## What is proved

`RaceProofs` proves, for every number of candidates, slots, tries and turns,
every assignment of bands and every set of stale markers:

| theorem | |
|---|---|
| `RaceTypes` | the type invariant |
| `CrownTheorem` | a crown rests on a pass of the candidate's own stage, its runner ended |
| `TrackedTheorem` | no live runner is lost while the loop runs |
| `PromotionTheorem` | success and the winner cache rest on a pass of the canonical name's own boot |
| `ReleasedTheorem` | while the canonical name boots or runs, nothing raises the winner's VM again, and the port is still held only if the wait lapsed |
| `ContractTheorem` | `Race` implements `Crown` |
| `RunnerTheorem` | each of its names implements `Chain` |

From `RaceAssumption` alone (the constants are positive numbers, bands are
0..3).  The properties are not inductive: that a marker read by the poll is true
depends on how it came to be there.  `RaceInv` adds what they depend on, in four
parts.  `ChainInv`, per name: a marker is clean until the stage decides, a whole
marker says what was decided, an empty one is being written, and a runner that
ended by itself has no chain left.  `FieldInv`: what waits in the queue or in a
band has never booted, and its marker is clean once the race has taken it in.
`LoopInv`: the records of running candidates agree with the processes, and a
crown ends its tick.  `PromotionInv`: the base boots only under a crown, after
the winner, whose chain has ended, was told to stop and its port was seen free or
the wait lapsed; and a pass of a boot that has ended is in its marker.
Each part has one lemma, with one step per action; `ContractStep` maps every step
to a step of `Crown` or to none, `RunnerChainStep` every step to one of each name's
`Chain`.

`FieldProofs` and `TickProofs` extend it, under the same assumption:

| theorem | |
|---|---|
| `ExhaustiveTheorem` | a race that gives up before its deadline has judged everyone |
| `ReapedTheorem` | a loser's VM is left up only behind a terminated runner |
| `BandsTheorem` | no candidate boots before a cheaper one has its verdict |
| `StandsTheorem` | a finished pass stands until a crown, a deadline or a signal |
| `TicksTheorem` | only undecided ticks repeat, and a bounded number of promotions |

`FieldOutcome` says where a candidate can be: in the queue, running, in a band to
come, or judged (`FieldCounted`).  That the loop left with nobody means all have a
verdict then follows.  `QueueInOrder` carries the order of bands from the pop to
the boot, since a popped band waits in the queue for slots.  `Reaped` needs that
whoever lives after the loop is still in `running_state` (from `LoopInv`), so the
termination before the sweeps reaches it.  `TickProofs` adds that who waits or runs
has no verdict (`Undecided`): a deadline is then the only verdict that can take a
finished pass from the poll.

`VerifyProofs` proves, for every number of checks, every deadline, hold and
length of a probe, and a grace and a poll that are positive:

| theorem | |
|---|---|
| `VerifyTypes` | the type invariant, which bounds how far off a deadline can be |
| `PassIsHeldTheorem` | a pass rests on a whole hold and an answer of every check since it began |
| `LatePassTheorem` | a run never fails while it holds |
| `EvidenceTheorem` | what a failed run counts as failed is in its evidence |
| `SpendsTheorem` | while the service does not change, every step of a run spends something bounded |
| `SteadyTheorem` | from a sweep with everything up to stay, a run that ends has passed |

`VerifyInv` adds to them where the run is (`StageInv`), that the two clocks of a
hold agree and the hold ends no later than the deadline, with all results in
wherever the loop can be left under it (`HoldInv`), and that a sweep has a pass
or a failure for everything it has gone by (`SweepInv`).  `LatePassSurvives` needs
the grace to be positive: without it the deadline may lapse between the start of
a hold and its first sweep.

`PlanningProofs` proves, for every set of methods, intents, specs and answers,
and every number of runs, turns and routes:

| theorem | |
|---|---|
| `PlanningTypes` | the type invariant |
| `ServeTheorem` | the fan-out lists only plans of this run's spec, that serve it |
| `SilenceTheorem` | no blocked verdict without an answer |
| `SharedTheorem` | the shared plan is never the source plan once pkg was planned |
| `ScanTheorem` | only a scan that is over is cached, with all it streamed |
| `ReplayTheorem` | a replay streams only what serves its run's target |
| `MethodTheorem` | a route boots its own method's plan or none |
| `SettledTheorem` | once the scout has closed, a route boots its line, fails, or boots a stray scout's plan of its method, whole or torn |
| `SpendTheorem` | between two moves of the race, every step of a planner spends something bounded |

From the named assumptions of `PlanFiles`, `Scout` and `Planning`.  The files make
these hard: what a run reads, any earlier one wrote.  `PlanningInv` therefore speaks of
the files.  `FanInv`: a plan in its file, on its way there or in memory is of its
slot and serves the spec it names.  `ScoutInv`: lines, plan files and the scan
agree, and a scan is whole until silence ends it; a plan file that is neither the
line's nor absent is one a stray may have written (`StrayMoves`).  `RunInv`: nothing is booted
outside a race.  `Moves` reduces every step to what it is for the fan-out and for
the scout, so the three parts are kept by one lemma per process; `SharedInv`
follows `direct.json` from the fan-out through the race's boots and revisions.

`StageProofs` proves, for every set of plans and every bound:

| theorem | |
|---|---|
| `StageTypes` | the type invariant, with it that failures never pass two |
| `SeenTheorem` | what the gate lets through was shown last |
| `ProvedTheorem` | what a session hands over passed in the guest, or it ran out |
| `ReplayedTheorem` | an intent that passed is replayed with the plan that passed |
| `RebootTheorem` | the child of an intent's reboot boots what the reboot was made for |
| `ChainTheorem` | `Stage` implements `Chain` |
| `SpendsTheorem` | every step of a run spends something bounded |

`StageInv` adds that from boot to verdict the intent's cache holds the VM's plan
with less than two failures, that no failure is counted before the last turn (so a
revision's plan is never turned away by its own child), and that until the child of
an intent's reboot has planned, the plan due is the one planning will find.

### Liveness, and the half of it that is proved

Every safety property and every action property of the passing runs is proved.
Liveness (`RaceReturns`, `PassIsCrowned`, `SteadyPasses`, `SettledEnds`,
`RunEnds`) is model-checked only: the prover has no rule for fairness and cannot
reason about what is enabled.  What can be proved of it is stated as properties of
steps and states, so that for every value of the constants only "a step that can be
taken is taken" is left to TLC:

| liveness | the half that is proved | what is left |
|---|---|---|
| `RunEnds` | `EachStepSpends`: each step takes a turn, moves on within it, or uses up the gate or the session; no answer raises it | that some step is possible until the run ends |
| `SettledEnds` | `SettledSpends`: each step lowers the pair of what may still be armed and the distance to the deadline | the same |
| `SteadyPasses` | `SteadyTheorem`: the end, once reached, is a pass | that the end is reached |
| `PassIsCrowned` | `PassStands`: the pass stays in the loop's list and in its marker | that the poll comes by |
| `RaceReturns` | `OnlyTicksRepeat`: no way back from a decided race, and at most `Tries` promotions | that ticks end, by a crown, exhaustion or the deadline |

`PlannersSpend` has no counterpart among them: a run of `Planning` may be killed
or go on at any time, and what matters is that no planner can stream, ask or
rewrite files without end.

## Not modelled

- *Of the race*: reattaching to a running winner, the enumeration the race falls
  back on when neither scout nor fan-out gives a field, the prune of hopeless
  candidates, and the full field that follows a failed
  replay in one process, as far as the runners of the replay reach into it.
- *Of the planner*: the translation, refinement, variants and flattening of compose
  files, image profiles, the preview.  They are functions of text; nothing runs
  beside them.
- *Of the verify runner*: what a probe sends and parses, and how a plan's checks are
  clamped and derived.
- *Of the agent*: the transcript and its resumption, the plan VM, prompts.
- *Of the chain*: the instance directory, the name's symlink, teardown.
- Port exposure, the tap pool, image pins, compose runs, mirrors, the Go packages:
  each is small and beside the path from a target to a verdict.  What can go wrong in them
  is in the list of hazards.
- The daemon and API packages are empty; rendering, the board and the packer recipes are
  presentation or batch work.

## The plan

1. Done: `Race` and `Crown`, `Verify`, the planners (`Planning`), the verify stage
   (`Stage`), `Chain` between `Race` and `Stage`, and the proofs of all their safety properties.
2. To come: what an enabledness argument would add to `EachStepSpends` and
   `SettledSpends`, as far as "some guard holds" can be stated without `ENABLED`.
3. `Instance`: ids, the name's symlink, `RUN=` ownership, teardown beside a
   replacing run; `Clean` on top of it.
4. Two rounds of `Race` over one environment (a replay that fails, then the full
   field under the same names).
5. `TapPool`, `Pins`, `Expose`, `Mirror`, and of the Go packages `Lanes`, `Store` and
   `Emitter`: one small module each.

Not planned: prompts and parsing of model output, rendering, the board, the
packer recipes, and the daemon and API packages.
