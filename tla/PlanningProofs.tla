--------------------------- MODULE PlanningProofs ---------------------------
(***************************************************************************)
(* Planning for every set of methods, intents, specs and answers, and any  *)
(* number of runs: what the files of PlanFiles hold is fit for whoever     *)
(* reads them, whichever process wrote them or was killed as it did.       *)
(***************************************************************************)
EXTENDS Planning, TLAPS

(* The fan-out: a plan, in its file, on its way there or in hand, serves   *)
(* the spec it names, which is that of the process for one in hand; and no *)
(* blocked verdict comes of silence.                                       *)
FanInv ==
    /\ \A m \in Slots : planF[m].is = "plan" => /\ planF[m].method = m
                                                /\ Serves(m, planF[m].kind, planF[m].spec)
    /\ \A m \in Slots : plans[m] # Absent => /\ plans[m].method = m
                                             /\ plans[m].spec = fspec
                                             /\ Serves(m, plans[m].kind, fspec)
    /\ \A m \in runnable : plans[m] # Absent
    /\ writing.file = "plan" => /\ writing.what.method = writing.method
                                /\ Serves(writing.method, writing.what.kind,
                                          writing.what.spec)
    /\ writing.file = "block" => writing.what.by = "answer"
    /\ SilenceBlocksNothing

(* Every line of the scout is in the scan it came from.                    *)
Streamed == \A m \in Emitted : \E i \in DOMAIN raw : Route(raw[i]) = lines[m]

(* The scout: a line is of its method and of the process's spec, a plan    *)
(* file is of its method and, once written, is its line until it is        *)
(* removed or a stray writes it; a replay serves its spec; a scan is whole *)
(* until silence ends it.                                                  *)
ScoutInv ==
    /\ \A m \in Scouted : lines[m] # Absent => lines[m].method = m /\ lines[m].spec = sspec
    /\ \A m \in DirectRoutes : own[m].is = "plan" => own[m].method = m
    /\ ReplayServesTarget
    /\ spc \in {"own", "gone"} =>
            \A m \in (Emitted \cap Direct) \ unwritten :
                \/ own[m] \in {lines[m], Absent}
                \/ strays # {} /\ own[m] \in StrayPlans(m)
    /\ spc = "gone" => unwritten = {}
    /\ unwritten \subseteq Emitted
    /\ spc \in {"ask", "clamp", "cache"} => Streamed
    /\ spc = "cache" /\ end = "word" => Exhausted
    /\ spc \in {"ask", "clamp"} => end = "word"

(* The run: nothing is booted outside a race, and what a candidate has     *)
(* booted from a file of its own is of its method.                         *)
RunInv ==
    /\ phase # "race" => booted = Nothing
    /\ via = "winner" => winner # Absent
    /\ OwnMethodOrNothing

RunOK ==
    /\ phase \in {"idle", "enter", "scout", "fan", "race"}
    /\ env \in Envs /\ yes \in BOOLEAN
    /\ via \in {"none", "scout", "fanout", "winner"}
    /\ booted \in [Boots -> {Absent, Refused, Torn} \cup Plans]
    /\ revised \subseteq Boots
    /\ winner \in {Absent} \cup Winners
    /\ runs \in 0..MaxRuns

PlanningInv == TypeOK /\ FanInv /\ ScoutInv /\ RunInv

-----------------------------------------------------------------------------
(* What a step is to the fan-out, and what it is to the scout.             *)
FanMove ==
    \/ FanStep(yes)
    \/ \E e \in Envs : FanStart(e)
    \/ (FanGone \/ UNCHANGED fanVars) /\ UNCHANGED <<planF, blockF>>
    \/ /\ UNCHANGED fanVars
       /\ planF' = [m \in Slots |-> Absent] /\ blockF' = [m \in Slots |-> Absent]

ScoutMove ==
    \/ ScoutStep /\ UNCHANGED strayVars
    \/ StrayStep /\ UNCHANGED processVars
    \/ \E e \in Envs : ScoutStart(e)
    \/ (ScoutForget \/ UNCHANGED scoutVars) /\ UNCHANGED <<own, scoutF>>
    \/ /\ ~ScoutAlive /\ UNCHANGED scoutVars
       /\ own' = [m \in DirectRoutes |-> Absent] /\ scoutF' = Absent

(* Every step is one of them for the fan-out, and one for the scout.       *)
LEMMA Moves ==
    ASSUME RunOK, [Next]_vars
    PROVE  FanMove /\ ScoutMove
<1>1. env \in Envs
    BY DEF RunOK
<1>2. CASE Race
    <2>1. FanMove
        BY <1>1, <1>2 DEF FanMove, Race, Begin, EnterScout, EnterFan, StartFan, ScoutFirst,
               ScoutNone, Fallen, Over, Aftermath, FanForget, Boot, BootDraft, Revise, Win, Lose,
               files, ScoutStart
    <2>2. ScoutMove
        BY <1>1, <1>2 DEF ScoutMove, Race, Begin, EnterScout, EnterFan, StartFan, ScoutFirst,
               ScoutNone, Fallen, Over, Aftermath, FanForget, Boot, BootDraft, Revise, Win, Lose,
               files, FanStart
    <2>3. QED
        BY <2>1, <2>2
<1>3. CASE ScoutProcess
    <2>1. UNCHANGED fanVars /\ UNCHANGED <<planF, blockF>>
        BY <1>3 DEF ScoutProcess, ScoutStep, Clamp, Reply, NextTurn, Choke, CacheScan,
               ReplayDone, OpenOwn, FillOwn, Close, files
    <2>2. QED
        BY <1>3, <2>1 DEF ScoutProcess, FanMove, ScoutMove
<1>4. CASE FanProcess
    <2>1. UNCHANGED scoutVars /\ UNCHANGED <<own, scoutF>>
        BY <1>4 DEF FanProcess, FanStep, Land, Flush, Share, List, files
    <2>2. QED
        BY <1>4, <2>1 DEF FanProcess, FanMove, ScoutMove
<1>5. CASE Kill
    BY <1>5 DEF Kill, Aftermath, FanForget, files, FanMove, ScoutMove
<1>6. CASE CleanCache
    BY <1>6 DEF CleanCache, FanMove, ScoutMove
<1>7. CASE StrayProcess
    <2>1. UNCHANGED fanVars /\ UNCHANGED <<planF, blockF>>
        BY <1>7 DEF StrayProcess, StrayStep, StrayRoute, StrayScan, StrayOwn, files
    <2>2. QED
        BY <1>7, <2>1 DEF StrayProcess, FanMove, ScoutMove
<1>8. CASE UNCHANGED vars
    BY <1>8 DEF vars, files, FanMove, ScoutMove
<1>9. QED
    BY <1>2, <1>3, <1>4, <1>5, <1>6, <1>7, <1>8 DEF Next

(* Loading a spec yields one.                                              *)
LEMMA LoadedSpec ==
    ASSUME NEW e \in Envs, specF \in Specs
    PROVE  /\ LoadSpec(e) \subseteq Specs
           /\ \A s \in LoadSpec(e) : SpecFile(e, s) \in Specs
BY FilesAssumption DEF Envs, Specs, LoadSpec, SpecFile

-----------------------------------------------------------------------------
(* A plan, a verdict and a scan are told from an absent or torn file.      *)
LEMMA Kinds ==
    /\ \A p \in Plans : p.is = "plan" /\ p # Absent /\ p # Torn /\ p # Refused
    /\ \A b \in Blocks : b.is = "block" /\ b # Absent /\ b # Torn
    /\ Absent.is = "absent" /\ Torn.is = "torn" /\ Refused.is = "refused"
    /\ Absent # Torn
BY DEF Plans, PlanOf, Blocks, BlockOf, Absent, Torn, Refused

(* The parts of a plan.                                                    *)
LEMMA PlanParts ==
    ASSUME NEW m \in Slots \cup Scouted \cup {"draft"}, NEW s \in Specs,
           NEW k \in {"app", "sleep", "fixed"}
    PROVE  /\ PlanOf(m, s, k) \in Plans
           /\ PlanOf(m, s, k).method = m /\ PlanOf(m, s, k).spec = s
           /\ PlanOf(m, s, k).kind = k
BY DEF Plans, PlanOf

(* What the fan-out holds and what it has written.                         *)
FanFiles ==
    /\ planF \in [Slots -> {Absent, Torn} \cup Plans]
    /\ blockF \in [Slots -> {Absent, Torn} \cup Blocks]

FanGood == FanFiles /\ FanOK /\ FanInv

(* Cached verdicts taken up by a process of another run.                   *)
LEMMA FanStarts ==
    ASSUME FanGood, specF \in Specs, NEW e \in Envs, FanStart(e)
    PROVE  FanGood'
<1> USE DEF FanGood, FanFiles, FanOK, FanInv, SilenceBlocksNothing
<1>1. PICK s \in LoadSpec(e) :
          /\ fspec' = s
          /\ plans' = [m \in Slots |-> IF Planned(m, s) THEN planF[m] ELSE Absent]
          /\ blocked' = {m \in Slots : BlockedNow(m, s)}
          /\ pending' = {m \in Slots : ~Planned(m, s) /\ ~BlockedNow(m, s)}
    BY DEF FanStart
<1>2. s \in Specs
    BY <1>1, LoadedSpec
<1>3. UNCHANGED <<planF, blockF>> /\ fpc' = "ask" /\ runnable' = {} /\ writing' = NoWrite
    BY DEF FanStart
<1>4. \A m \in Slots : Planned(m, s) => planF[m] \in Plans
    BY Kinds DEF Planned
<1>5. plans' \in [Slots -> {Absent} \cup Plans]
    BY <1>1, <1>4
<1>6. \A m \in Slots : plans'[m] # Absent => /\ plans'[m].method = m
                                             /\ plans'[m].spec = s
                                             /\ Serves(m, plans'[m].kind, s)
    BY <1>1 DEF Planned
<1>7. QED
    BY <1>1, <1>2, <1>3, <1>5, <1>6 DEF NoWrite

(* A call lands: what it brings is clamped under the process's spec.       *)
LEMMA FanLands ==
    ASSUME FanGood, NEW m \in Slots, Land(m)
    PROVE  FanGood'
<1> USE DEF FanGood, FanFiles, FanOK, FanInv, SilenceBlocksNothing
<1>1. PICK r \in Replies(m) : LandPlan(m, r) \/ LandVerdict(m, r) \/ LandSilence(m, r)
    BY DEF Land
<1>2. /\ fpc = "ask" /\ UNCHANGED <<fpc, fspec>> /\ pending' \subseteq Slots
      /\ writing = NoWrite
    BY DEF Land
<1>3. CASE LandPlan(m, r)
    <2>1. Serves(m, r, fspec) /\ r \in {"app", "sleep", "fixed"}
        BY <1>3 DEF LandPlan, Fits
    <2> DEFINE p == PlanOf(m, fspec, r)
    <2>2. p \in Plans /\ p.method = m /\ p.spec = fspec /\ p.kind = r
        BY <2>1, PlanParts
    <2> HIDE DEF p
    <2>3. /\ plans' = [plans EXCEPT ![m] = p] /\ writing' = Write("plan", m, p)
          /\ planF' = [planF EXCEPT ![m] = Torn] /\ runnable' = runnable \cup {m}
          /\ UNCHANGED <<blocked, blockF>>
        BY <1>3 DEF LandPlan, p
    <2>4. /\ writing' \in [file : {"plan", "shared"}, method : Slots, what : Plans]
          /\ writing'.file = "plan" /\ writing'.method = m /\ writing'.what = p
        BY <2>2, <2>3 DEF Write
    <2>5. QED
        BY <1>2, <2>1, <2>2, <2>3, <2>4, Kinds
<1>4. CASE LandVerdict(m, r)
    <2> DEFINE b == BlockOf(fspec, "answer")
    <2>1. b \in Blocks /\ b.by = "answer"
        BY DEF Blocks, BlockOf
    <2> HIDE DEF b
    <2>2. /\ blocked' = blocked \cup {m} /\ writing' = Write("block", m, b)
          /\ blockF' = [blockF EXCEPT ![m] = Torn]
          /\ UNCHANGED <<plans, runnable, planF>>
        BY <1>4 DEF LandVerdict, b
    <2>3. /\ writing' \in [file : {"block"}, method : Slots, what : Blocks]
          /\ writing'.file = "block" /\ writing'.what = b
        BY <2>1, <2>2 DEF Write
    <2>4. QED
        BY <1>2, <2>1, <2>2, <2>3, Kinds
<1>5. CASE LandSilence(m, r)
    BY <1>2, <1>5 DEF LandSilence
<1>6. QED
    BY <1>1, <1>3, <1>4, <1>5

(* What was begun is what is written.                                      *)
LEMMA FanFlushes ==
    ASSUME FanGood, Flush
    PROVE  FanGood'
<1> USE DEF FanGood, FanFiles, FanOK, FanInv, SilenceBlocksNothing
<1>1. /\ writing # NoWrite /\ writing' = NoWrite
      /\ UNCHANGED <<fpc, fspec, plans, blocked, pending, runnable>>
      /\ planF' = IF writing.file = "plan"
                  THEN [planF EXCEPT ![writing.method] = writing.what] ELSE planF
      /\ blockF' = IF writing.file = "block"
                   THEN [blockF EXCEPT ![writing.method] = writing.what] ELSE blockF
    BY DEF Flush
<1>2. writing.file = "plan" => /\ writing.method \in Slots /\ writing.what \in Plans
                               /\ planF' = [planF EXCEPT ![writing.method] = writing.what]
                               /\ UNCHANGED blockF
    BY <1>1
<1>3. writing.file = "block" => /\ writing.method \in Slots /\ writing.what \in Blocks
                                /\ blockF' = [blockF EXCEPT ![writing.method] = writing.what]
                                /\ UNCHANGED planF
    BY <1>1
<1>4. writing.file \notin {"plan", "block"} => UNCHANGED <<planF, blockF>>
    BY <1>1
<1>5. FanFiles'
    BY <1>2, <1>3, <1>4
<1>6. \A m \in Slots : planF'[m].is = "plan" => /\ planF'[m].method = m
                                                /\ Serves(m, planF'[m].kind, planF'[m].spec)
    BY <1>2, <1>3, <1>4
<1>7. SilenceBlocksNothing'
    BY <1>2, <1>3, <1>4
<1>8. NoWrite.file = "none"
    BY DEF NoWrite
<1>9. QED
    BY <1>1, <1>5, <1>6, <1>7, <1>8

(* The shared plan comes from a slot this process planned.                 *)
LEMMA FanShares ==
    ASSUME FanGood, yes \in BOOLEAN, Share(yes)
    PROVE  FanGood'
<1> USE DEF FanGood, FanFiles, FanOK, FanInv, SilenceBlocksNothing
<1>1. fpc' = "list" /\ UNCHANGED <<fspec, plans, blocked, pending, runnable, planF, blockF>>
    BY DEF Share
<1>2. CASE yes /\ Sharer # {}
    <2>1. PICK m \in Sharer : writing' = Write("shared", m, plans[m])
        BY <1>2 DEF Share
    <2>2. m \in runnable
        BY DEF Sharer
    <2>3. m \in Slots /\ plans[m] \in Plans
        BY <2>2
    <2>4. /\ writing' \in [file : {"plan", "shared"}, method : Slots, what : Plans]
          /\ writing'.file = "shared"
        BY <2>1, <2>3 DEF Write
    <2>5. QED
        BY <1>1, <2>4
<1>3. CASE ~(yes /\ Sharer # {})
    BY <1>1, <1>3 DEF Share
<1>4. QED
    BY <1>2, <1>3

(* The fan-out's part is kept by whatever happens to it, a kill included.  *)
LEMMA FanSteps ==
    ASSUME FanGood, RunOK, specF \in Specs, FanMove
    PROVE  FanGood'
<1>1. CASE \E e \in Envs : FanStart(e)
    BY <1>1, FanStarts
<1>2. CASE FanStep(yes)
    <2>1. CASE List
        BY <2>1 DEF List, files, FanGood, FanFiles, FanOK, FanInv, SilenceBlocksNothing
    <2>2. QED
        BY <1>2, <2>1, FanLands, FanFlushes, FanShares DEF FanStep, RunOK
<1>3. CASE FanGone /\ UNCHANGED <<planF, blockF>>
    BY <1>3 DEF FanGone, FanGood, FanFiles, FanOK, FanInv, SilenceBlocksNothing, Specs, NoWrite
<1>4. CASE UNCHANGED fanVars /\ UNCHANGED <<planF, blockF>>
    BY <1>4 DEF fanVars, FanGood, FanFiles, FanOK, FanInv, SilenceBlocksNothing
<1>5. CASE /\ UNCHANGED fanVars
           /\ planF' = [m \in Slots |-> Absent] /\ blockF' = [m \in Slots |-> Absent]
    BY <1>5, Kinds DEF fanVars, FanGood, FanFiles, FanOK, FanInv, SilenceBlocksNothing
<1>6. QED
    BY <1>1, <1>2, <1>3, <1>4, <1>5 DEF FanMove

-----------------------------------------------------------------------------
(* What the scout holds and what it has written.                           *)
ScoutFiles ==
    /\ own \in [Scouted \cap Direct -> {Absent, Torn} \cup Plans]
    /\ \/ scoutF = Absent
       \/ /\ scoutF.spec \in Specs /\ scoutF.routes \in Seq(Routes)
          /\ scoutF = ScanOf(scoutF.spec, scoutF.routes)

ScoutGood == ScoutFiles /\ ScoutOK /\ ScoutInv

(* The line of a route.                                                    *)
LEMMA RouteParts ==
    ASSUME NEW r \in Routes, sspec \in Specs
    PROVE  /\ Route(r) \in Plans /\ Route(r) # Absent
           /\ Route(r).method = r.method /\ Route(r).spec = sspec
           /\ Route(r).kind = r.kind
<1>1. r.method \in Scouted /\ r.kind \in {"app", "sleep"}
    BY DEF Routes
<1>2. QED
    BY <1>1, PlanParts, Kinds DEF Route

(* What was streamed stays in the scan while neither changes.              *)
LEMMA StreamedStays ==
    ASSUME UNCHANGED <<sspec, lines, raw>>
    PROVE  Streamed' = Streamed
BY DEF Streamed, Emitted, Route

(* What the strays may write stays while no scout joins or leaves them.    *)
LEMMA StraysStay ==
    ASSUME UNCHANGED strayVars
    PROVE  /\ UNCHANGED <<strays, strayed>>
           /\ \A m \in Scouted : StrayPlans(m)' = StrayPlans(m)
BY DEF strayVars, StrayPlans

(* A scout starts on a cache of its own spec, or on none.                  *)
LEMMA ScoutStarts ==
    ASSUME ScoutGood, specF \in Specs, NEW e \in Envs, ScoutStart(e)
    PROVE  ScoutGood'
<1> USE ScoutAssumption DEF ScoutGood, ScoutFiles, ScoutOK, ScoutInv, ReplayServesTarget
<1>1. PICK s \in LoadSpec(e) :
          /\ sspec' = s
          /\ spc' = IF Cached(s) THEN "replay" ELSE "ask"
          /\ batch' = IF Cached(s) THEN scoutF.routes ELSE <<>>
    BY DEF ScoutStart
<1>2. s \in Specs
    BY LoadedSpec
<1>3. /\ turn' = 1 /\ fresh' = FALSE /\ more' = FALSE /\ end' = "word" /\ raw' = <<>>
      /\ lines' = [m \in Scouted |-> Absent] /\ unwritten' = {} /\ opened' = {}
      /\ UNCHANGED <<own, scoutF>>
    BY DEF ScoutStart
<1>4. batch' \in Seq(Routes) /\ raw' \in Seq(Routes)
    BY <1>1, <1>3 DEF Cached
<1>5. fresh' \in BOOLEAN /\ more' \in BOOLEAN
    BY <1>3
<1>s. strays' \subseteq Specs /\ strayed' \subseteq Scouted
    BY DEF ScoutStart
<1>6. ScoutOK'
    BY <1>1, <1>2, <1>3, <1>4, <1>5, <1>s
<1>7. ScoutInv'
    BY <1>1, <1>3 DEF Cached, Emitted, Streamed
<1>8. QED
    BY <1>3, <1>6, <1>7

(* Routes are read only from a batch, and raw only grows by them.          *)
LEMMA ScoutClamps ==
    ASSUME ScoutGood, Clamp, UNCHANGED strayVars
    PROVE  ScoutGood'
<1> USE DEF ScoutGood, ScoutFiles, ScoutOK, ScoutInv, ReplayServesTarget
<1> DEFINE r == Head(batch)
<1>1. /\ r \in Routes /\ batch' \in Seq(Routes) /\ raw' \in Seq(Routes)
    BY DEF Clamp
<1>2. /\ UNCHANGED <<spc, sspec, turn, more, end, unwritten, opened, own, scoutF>>
      /\ spc \in {"replay", "clamp"}
      /\ \/ /\ Kept(r) /\ r.method \notin Emitted
            /\ lines' = [lines EXCEPT ![r.method] = Route(r)]
            /\ fresh' = TRUE
         \/ UNCHANGED <<lines, fresh>>
    BY DEF Clamp, files
<1>3. fresh' \in BOOLEAN
    BY <1>2
<1>a. spc = "clamp" => raw' = Append(raw, r)
    BY DEF Clamp
<1>4. CASE UNCHANGED lines
    <2>1. spc = "clamp" => Streamed'
        <3>1. \A i \in DOMAIN raw : spc = "clamp" => i \in DOMAIN raw' /\ raw'[i] = raw[i]
            BY <1>1, <1>a
        <3>2. QED
            BY <1>2, <1>4, <3>1 DEF Streamed, Emitted, Route
    <2>2. QED
        BY <1>1, <1>2, <1>3, <1>4, <2>1, StraysStay DEF Emitted
<1>5. CASE /\ Kept(r) /\ r.method \notin Emitted
           /\ lines' = [lines EXCEPT ![r.method] = Route(r)]
    <2>1. /\ Route(r) \in Plans /\ Route(r) # Absent
          /\ Route(r).method = r.method /\ Route(r).spec = sspec
          /\ Route(r).kind = r.kind /\ r.method \in Scouted
        BY <1>1, RouteParts DEF Routes
    <2>2. spc = "replay" => Serves(r.method, r.kind, sspec)
        BY <1>5 DEF Kept
    <2> HIDE DEF r
    <2>3. lines' \in [Scouted -> {Absent} \cup Plans]
        BY <1>5, <2>1
    <2>4. \A m \in Scouted : lines'[m] = IF m = r.method THEN Route(r) ELSE lines[m]
        BY <1>5
    <2>5. ScoutOK'
        BY <1>1, <1>2, <1>3, <2>3, StraysStay
    <2>6. spc = "clamp" => Streamed'
        <3>1. spc = "clamp" => /\ Len(raw) + 1 \in DOMAIN raw'
                               /\ raw'[Len(raw) + 1] = r
            BY <1>1, <1>a
        <3>2. \A i \in DOMAIN raw : spc = "clamp" => i \in DOMAIN raw' /\ raw'[i] = raw[i]
            BY <1>1, <1>a
        <3>3. QED
            BY <1>2, <2>4, <3>1, <3>2 DEF Streamed, Emitted, Route
    <2>7. ScoutInv'
        BY <1>2, <2>1, <2>2, <2>4, <2>6, StraysStay DEF Emitted
    <2>8. QED
        BY <1>2, <2>5, <2>7
<1>6. QED
    BY <1>2, <1>4, <1>5

(* Model turns touch no file.                                              *)
LEMMA ScoutTurn ==
    ASSUME ScoutGood, Reply \/ NextTurn \/ Choke, UNCHANGED strayVars
    PROVE  ScoutGood'
<1> USE ScoutAssumption DEF ScoutGood, ScoutFiles, ScoutOK, ScoutInv, ReplayServesTarget
<1>1. CASE Reply
    <2>1. /\ UNCHANGED <<sspec, turn, raw, lines, unwritten, opened, own, scoutF>>
          /\ spc' \in {"clamp", "cache"} /\ end' \in {"word", "silence"}
        BY <1>1 DEF Reply, files
    <2>2. batch' \in Seq(Routes)
        BY <1>1 DEF Reply
    <2>3. fresh' \in BOOLEAN /\ more' \in BOOLEAN
        BY <1>1 DEF Reply
    <2>4. QED
        BY <1>1, <2>1, <2>2, <2>3, StreamedStays, StraysStay DEF Emitted, Reply
<1>2. CASE NextTurn
    <2>1. turn' \in 1..ScoutTurns
        BY <1>2 DEF NextTurn, Exhausted
    <2>2. QED
        BY <1>2, <2>1, StreamedStays, StraysStay DEF NextTurn, files, Emitted, Exhausted
<1>3. CASE Choke
    BY <1>3, StraysStay DEF Choke, files, Emitted
<1>4. QED
    BY <1>1, <1>2, <1>3

(* What is cached is the routes read so far, unless they end in silence.   *)
LEMMA ScoutCaches ==
    ASSUME ScoutGood, CacheScan \/ ReplayDone, UNCHANGED strayVars
    PROVE  ScoutGood'
<1> USE ScoutAssumption DEF ScoutGood, ScoutFiles, ScoutOK, ScoutInv, ReplayServesTarget
<1>1. ToPlans /\ UNCHANGED own
    BY DEF CacheScan, ReplayDone, files
<1>2. fresh' \in BOOLEAN /\ more' \in BOOLEAN
    BY <1>1 DEF ToPlans
<1>3. ScoutOK'
    BY <1>1, <1>2, StraysStay DEF ToPlans, Emitted, DirectRoutes
<1>4. \/ UNCHANGED scoutF
      \/ end = "word" /\ scoutF' = ScanOf(sspec, raw)
    BY DEF CacheScan, ReplayDone, files
<1>5. ScoutFiles'
    BY <1>1, <1>4 DEF ScanOf
<1>6. ScoutInv'
    BY <1>1, <1>5, StraysStay DEF ToPlans, Emitted
<1>7. QED
    BY <1>3, <1>5, <1>6

(* A plan file is torn, and then its line.                                 *)
LEMMA ScoutWrites ==
    ASSUME ScoutGood, NEW m \in DirectRoutes, OpenOwn(m) \/ FillOwn(m),
           UNCHANGED strayVars
    PROVE  ScoutGood'
<1> USE DEF ScoutGood, ScoutFiles, ScoutOK, ScoutInv, ReplayServesTarget, DirectRoutes
<1>1. CASE OpenOwn(m)
    BY <1>1, Kinds, StraysStay DEF OpenOwn, Emitted
<1>2. CASE FillOwn(m)
    <2>1. lines[m] \in Plans
        BY <1>2, Kinds DEF FillOwn, Emitted
    <2>2. QED
        BY <1>2, <2>1, StreamedStays, StraysStay DEF FillOwn, Emitted, Exhausted
<1>3. QED
    BY <1>1, <1>2

(* A stray leaves the routes' own files torn or plans of their method.     *)
LEMMA StrayMoves ==
    ASSUME ScoutGood, StrayStep, UNCHANGED processVars
    PROVE  ScoutGood'
<1> USE ScoutAssumption DEF ScoutGood, ScoutFiles, ScoutOK, ScoutInv, ReplayServesTarget,
        processVars, Emitted, DirectRoutes
<1>1. Streamed' = Streamed
    BY StreamedStays
<1>2. ASSUME NEW m \in Scouted, StrayRoute(m)
      PROVE  ScoutGood'
    <2>1. \A x \in Scouted : StrayPlans(x)' = StrayPlans(x)
        BY <1>2 DEF StrayRoute, StrayPlans
    <2>2. QED
        BY <1>1, <1>2, <2>1 DEF StrayRoute, files, Exhausted
<1>3. ASSUME NEW s \in strays, StrayScan(s)
      PROVE  ScoutGood'
    <2>1. PICK n \in 0..MaxRoutes : \E rs \in [1..n -> Routes] : scoutF' = ScanOf(s, rs)
        BY <1>3 DEF StrayScan
    <2>2. PICK rs \in [1..n -> Routes] : scoutF' = ScanOf(s, rs)
        BY <2>1
    <2>3. rs \in Seq(Routes) /\ s \in Specs
        BY <2>2
    <2>4. ScoutFiles'
        BY <1>3, <2>2, <2>3 DEF StrayScan, ScanOf
    <2>5. QED
        BY <1>1, <1>3, <2>4, StraysStay DEF StrayScan, Exhausted
<1>4. ASSUME NEW s \in strays, NEW x \in DirectRoutes, StrayOwn(s, x)
      PROVE  ScoutGood'
    <2>1. PICK p \in {Torn, PlanOf(x, s, "app"), PlanOf(x, s, "sleep")} :
               own' = [own EXCEPT ![x] = p]
        BY <1>4 DEF StrayOwn
    <2>2. UNCHANGED <<strays, strayed, scoutF>>
        BY <1>4 DEF StrayOwn, strayVars
    <2>3. /\ p \in {Torn} \cup Plans
          /\ p.is = "plan" => p.method = x
        BY <2>1, PlanParts, Kinds
    <2>4. p \in StrayPlans(x) /\ strays # {}
        BY <2>1 DEF StrayPlans
    <2>5. \A m \in DirectRoutes : StrayPlans(m)' = StrayPlans(m)
        BY <2>2 DEF StrayPlans
    <2> HIDE DEF Emitted
    <2>6. Emitted' = Emitted /\ Emitted \subseteq Scouted
        BY DEF Emitted
    <2>7. ScoutFiles' /\ ScoutOK'
        BY <2>1, <2>2, <2>3
    <2>8. \A m \in DirectRoutes : own'[m] = IF m = x THEN p ELSE own[m]
        BY <2>1
    <2> HIDE <2>1 DEF ScoutFiles, ScoutOK
    <2>9. spc \in {"own", "gone"} =>
            \A m \in (Emitted \cap Direct) \ unwritten :
                \/ own'[m] \in {lines[m], Absent}
                \/ strays' # {} /\ own'[m] \in StrayPlans(m)'
        BY <2>2, <2>4, <2>5, <2>6, <2>8
    <2>10. ScoutInv'
        BY <1>1, <2>3, <2>6, <2>8, <2>9 DEF Exhausted
    <2>11. QED
        BY <2>7, <2>10
<1>5. QED
    BY <1>2, <1>3, <1>4 DEF StrayStep

(* The scout's part is kept by whatever happens to it.                     *)
LEMMA ScoutSteps ==
    ASSUME ScoutGood, specF \in Specs, ScoutMove
    PROVE  ScoutGood'
<1> USE ScoutAssumption DEF ScoutGood, ScoutFiles, ScoutOK, ScoutInv, ReplayServesTarget
<1>1. CASE \E e \in Envs : ScoutStart(e)
    BY <1>1, ScoutStarts
<1>2. CASE ScoutStep /\ UNCHANGED strayVars
    <2>1. CASE Close
        BY <1>2, <2>1, StraysStay DEF Close, files, Emitted
    <2>2. QED
        BY <1>2, <2>1, ScoutClamps, ScoutTurn, ScoutCaches, ScoutWrites DEF ScoutStep
<1>3. CASE ScoutForget /\ UNCHANGED <<own, scoutF>>
    <2>1. fresh' \in BOOLEAN /\ more' \in BOOLEAN
        BY <1>3 DEF ScoutForget
    <2>2. ScoutOK'
        BY <1>3, <2>1 DEF ScoutForget, Specs
    <2>3. ScoutInv'
        BY <1>3 DEF ScoutForget, Emitted
    <2>4. QED
        BY <1>3, <2>2, <2>3
<1>4. CASE UNCHANGED scoutVars /\ UNCHANGED <<own, scoutF>>
    BY <1>4, StreamedStays, StraysStay DEF scoutVars, processVars, Emitted, Exhausted
<1>5. CASE /\ ~ScoutAlive /\ UNCHANGED scoutVars
           /\ own' = [m \in DirectRoutes |-> Absent] /\ scoutF' = Absent
    BY <1>5, Kinds, StraysStay DEF ScoutAlive, scoutVars, processVars, Emitted, DirectRoutes
<1>6. CASE StrayStep /\ UNCHANGED processVars
    BY <1>6, StrayMoves
<1>7. QED
    BY <1>1, <1>2, <1>3, <1>4, <1>5, <1>6 DEF ScoutMove

-----------------------------------------------------------------------------
(* The two files that both planners and the runs write.                    *)
CommonOK == shared \in {Absent, Torn} \cup Plans /\ specF \in Specs

(* The types, by who is concerned.                                         *)
LEMMA TypesSplit ==
    TypeOK <=> FanFiles /\ FanOK /\ ScoutFiles /\ ScoutOK /\ CommonOK /\ RunOK
BY DEF TypeOK, FilesOK, FanFiles, ScoutFiles, CommonOK, RunOK

(* Drafts, revisions and the fan-out leave plans in the shared file.       *)
LEMMA CommonSteps ==
    ASSUME PlanningInv, [Next]_vars
    PROVE  CommonOK'
<1>1. FanGood /\ ScoutFiles /\ ScoutOK /\ CommonOK /\ RunOK
    BY TypesSplit DEF PlanningInv, FanGood
<1> USE DEF CommonOK
<1>2. CASE Race
    <2>1. CASE EnterScout \/ EnterFan \/ ScoutNone
        BY <1>1, <2>1, LoadedSpec DEF EnterScout, EnterFan, ScoutNone, StartFan, ScoutStart,
               FanStart, RunOK
    <2>2. CASE \E m \in Boots : BootDraft(m)
        <3>1. "draft" \in Slots \cup Scouted \cup {"draft"} /\ NoSpec \in Specs
            BY DEF Specs
        <3>2. PlanOf("draft", NoSpec, "app") \in Plans
            BY <3>1, PlanParts
        <3>3. QED
            BY <1>1, <2>2, <3>2 DEF BootDraft
    <2>3. CASE \E m \in Boots : Revise(m)
        <3>1. PICK m \in Boots : Revise(m)
            BY <2>3
        <3>2. booted[m] \in Plans
            BY <1>1, <3>1, Kinds DEF Revise, RunOK
        <3>3. [booted[m] EXCEPT !.kind = "fixed"] \in Plans
            BY <3>2 DEF Plans, PlanOf
        <3>4. QED
            BY <1>1, <3>1, <3>3 DEF Revise
    <2>4. CASE Begin \/ ScoutFirst \/ Fallen \/ (\E m \in Boots : Boot(m))
               \/ (\E m \in Slots \cup Scouted : Win(m)) \/ Lose
        BY <1>1, <2>4 DEF Begin, ScoutFirst, Fallen, Boot, Win, Lose, files
    <2>5. QED
        BY <1>2, <2>1, <2>2, <2>3, <2>4 DEF Race
<1>3. CASE ScoutProcess
    BY <1>1, <1>3 DEF ScoutProcess, ScoutStep, Clamp, Reply, NextTurn, Choke, CacheScan,
           ReplayDone, OpenOwn, FillOwn, Close, files
<1>4. CASE FanProcess
    BY <1>1, <1>4 DEF FanProcess, FanStep, Land, Flush, Share, List, files, FanGood, FanOK
<1>5. CASE Kill
    BY <1>1, <1>5 DEF Kill, files
<1>6. CASE CleanCache
    BY <1>1, <1>6 DEF CleanCache, Specs
<1>7. CASE StrayProcess
    BY <1>1, <1>7 DEF StrayProcess, StrayStep, StrayRoute, StrayScan, StrayOwn, files
<1>8. CASE UNCHANGED vars
    BY <1>1, <1>8 DEF vars, files
<1>9. QED
    BY <1>2, <1>3, <1>4, <1>5, <1>6, <1>7, <1>8 DEF Next

-----------------------------------------------------------------------------
(* What a candidate's file holds is absent, torn or a plan; a file of its  *)
(* own is of its method.                                                   *)
LEMMA TakesFits ==
    ASSUME PlanningInv, NEW m \in Boots, m \in Field
    PROVE  /\ Takes(m) \in {Absent, Torn} \cup Plans
           /\ ReadsOwn(m) => /\ own[m] \in {Absent, Torn} \cup Plans
                             /\ own[m].is = "plan" => own[m].method = m
<1>1. ScoutFiles /\ ScoutOK /\ CommonOK /\ RunOK
    BY TypesSplit DEF PlanningInv
<1>2. ReadsOwn(m) => m \in DirectRoutes
    <2>1. CASE via = "scout"
        BY <1>1, <2>1 DEF Field, Streaming, Emitted, Boots, DirectRoutes, ScoutOK
    <2>2. CASE via = "winner" /\ winner.method = m
        <3>1. winner \in Winners
            BY <1>1, <2>2 DEF RunOK, PlanningInv, RunInv
        <3>2. m \in Scouted
            BY <2>2, <3>1 DEF Winners, Boots, Direct
        <3>3. QED
            BY <3>2 DEF Boots, DirectRoutes
    <2>3. QED
        BY <2>1, <2>2 DEF ReadsOwn
<1>3. ReadsOwn(m) => /\ own[m] \in {Absent, Torn} \cup Plans
                     /\ own[m].is = "plan" => own[m].method = m
    BY <1>1, <1>2 DEF ScoutFiles, DirectRoutes, PlanningInv, ScoutInv
<1>4. QED
    BY <1>1, <1>3 DEF Takes, CommonOK

(* The three steps that set what a candidate has booted.                   *)
LEMMA BootStep ==
    ASSUME PlanningInv, NEW m \in Boots, Boot(m) \/ BootDraft(m) \/ Revise(m)
    PROVE  RunOK' /\ RunInv'
<1>1. RunOK /\ RunInv /\ CommonOK
    BY TypesSplit DEF PlanningInv
<1>2. /\ UNCHANGED <<phase, via, env, yes, winner, runs>>
      /\ phase = "race" /\ m \in Field
      /\ revised' \subseteq Boots
    BY <1>1 DEF Boot, BootDraft, Revise, RunOK
<1>3. \A x \in Boots : ReadsOwn(x)' = ReadsOwn(x)
    BY <1>2 DEF ReadsOwn
<1>4. SUFFICES /\ booted' = [booted EXCEPT ![m] = booted'[m]]
               /\ booted'[m] \in {Absent, Refused, Torn} \cup Plans
               /\ ReadsOwn(m) /\ booted'[m].is = "plan" => booted'[m].method = m
    BY <1>1, <1>2, <1>3, <1>4 DEF RunOK, RunInv, OwnMethodOrNothing
<1>5. CASE Boot(m)
    <2>1. /\ Takes(m) \in {Absent, Torn} \cup Plans
          /\ ReadsOwn(m) => /\ Takes(m) = own[m]
                            /\ own[m].is = "plan" => own[m].method = m
        BY <1>2, TakesFits DEF Takes
    <2>2. booted' = [booted EXCEPT ![m] = Takes(m)] \/ booted' = [booted EXCEPT ![m] = Refused]
        BY <1>5 DEF Boot
    <2>3. QED
        BY <1>1, <2>1, <2>2, Kinds DEF RunOK
<1>6. CASE BootDraft(m)
    <2>1. "draft" \in Slots \cup Scouted \cup {"draft"} /\ NoSpec \in Specs
        BY DEF Specs
    <2>2. PlanOf("draft", NoSpec, "app") \in Plans
        BY <2>1, PlanParts
    <2>3. QED
        BY <1>1, <1>6, <2>2 DEF BootDraft, RunOK
<1>7. CASE Revise(m)
    <2>1. booted[m] \in Plans
        BY <1>1, <1>7, Kinds DEF Revise, RunOK
    <2>2. shared' \in Plans
        BY <1>7, <2>1 DEF Revise, Plans, PlanOf
    <2>3. /\ booted' = [booted EXCEPT ![m] = IF ReadsOwn(m) THEN own[m] ELSE shared']
          /\ ReadsOwn(m) => /\ own[m] \in {Absent, Torn} \cup Plans
                            /\ own[m].is = "plan" => own[m].method = m
        BY <1>2, <1>7, TakesFits DEF Revise
    <2>4. QED
        BY <1>1, <2>2, <2>3 DEF RunOK
<1>8. QED
    BY <1>5, <1>6, <1>7

(* The winner's record names a candidate of the field.                     *)
LEMMA WinStep ==
    ASSUME PlanningInv, NEW m \in Slots \cup Scouted, Win(m)
    PROVE  RunOK' /\ RunInv'
<1>1. RunOK /\ RunInv /\ ScoutOK
    BY TypesSplit DEF PlanningInv
<1>2. Over /\ UNCHANGED runs /\ m \in Field
    BY DEF Win
<1> DEFINE M == CASE via = "scout"  -> m
                  [] via = "winner" -> winner.method
                  [] OTHER          -> ""
<1>3. M \in {""} \cup Scouted
    <2>1. via = "scout" => m \in Scouted
        BY <1>1, <1>2 DEF Field, Streaming, Emitted, ScoutOK
    <2>2. via = "winner" => winner.method \in {""} \cup Scouted
        BY <1>1 DEF RunOK, RunInv, Winners
    <2>3. QED
        BY <2>1, <2>2
<1>4. winner' = [is |-> "winner", slot |-> m, method |-> M]
    BY DEF Win
<1> HIDE DEF M
<1>5. winner' \in Winners
    BY <1>3, <1>4 DEF Winners
<1>6. NoSpec \in Envs /\ Nothing \in [Boots -> {Absent, Refused, Torn} \cup Plans]
    BY DEF Envs, Nothing
<1>a. yes' \in BOOLEAN
    BY <1>1 DEF Win, Aftermath, FanForget, RunOK
<1>7. RunOK'
    BY <1>1, <1>2, <1>5, <1>6, <1>a DEF RunOK, Over, Enter
<1>8. RunInv'
    BY <1>2, Kinds DEF RunInv, OwnMethodOrNothing, Over, Enter, Nothing
<1>9. QED
    BY <1>7, <1>8

(* The run's part is kept by every step.                                   *)
LEMMA RunSteps ==
    ASSUME PlanningInv, [Next]_vars
    PROVE  RunOK' /\ RunInv'
<1>1. RunOK /\ RunInv
    BY TypesSplit DEF PlanningInv
<1>2. NoSpec \in Envs /\ Nothing \in [Boots -> {Absent, Refused, Torn} \cup Plans]
    BY DEF Envs, Nothing
<1>3. \A m \in Boots : Nothing[m].is = "absent"
    BY Kinds DEF Nothing
<1> USE DEF RunInv, OwnMethodOrNothing, Enter, Over, Aftermath, FanForget
<1>4. CASE Begin
    BY <1>1, <1>2, <1>3, <1>4, RunsAssumption, Kinds DEF Begin, RunOK
<1>5. CASE EnterScout \/ EnterFan \/ ScoutNone
    BY <1>1, <1>3, <1>5 DEF EnterScout, EnterFan, ScoutNone, StartFan, Racing, RunOK, ReadsOwn
<1>6. CASE ScoutFirst
    BY <1>1, <1>3, <1>6 DEF ScoutFirst, Racing, RunOK
<1>7. CASE Fallen
    BY <1>1, <1>2, <1>3, <1>7 DEF Fallen, RunOK
<1>8. CASE \E m \in Boots : Boot(m) \/ BootDraft(m) \/ Revise(m)
    BY <1>8, BootStep
<1>9. CASE \E m \in Slots \cup Scouted : Win(m)
    BY <1>9, WinStep
<1>10. CASE Lose
    BY <1>1, <1>2, <1>3, <1>10 DEF Lose, RunOK
<1>11. CASE ScoutProcess \/ StrayProcess \/ FanProcess
    BY <1>1, <1>11 DEF ScoutProcess, StrayProcess, FanProcess, raceVars, RunOK, ReadsOwn
<1>12. CASE Kill
    BY <1>1, <1>2, <1>3, <1>12 DEF Kill, RunOK
<1>13. CASE CleanCache
    BY <1>1, <1>13 DEF CleanCache, RunOK, ReadsOwn
<1>14. CASE UNCHANGED vars
    BY <1>1, <1>14 DEF vars, raceVars, RunOK, ReadsOwn
<1>15. QED
    BY <1>4, <1>5, <1>6, <1>7, <1>8, <1>9, <1>10, <1>11, <1>12, <1>13, <1>14 DEF Next, Race

-----------------------------------------------------------------------------
(* A run starts with nothing cached and nobody at work.                    *)
LEMMA PlanningInit == Init => PlanningInv
<1> SUFFICES ASSUME Init PROVE PlanningInv
    OBVIOUS
<1> USE DEF Init, NoFiles, FanIdle, ScoutIdle
<1>1. NoSpec \in Specs /\ NoSpec \in Envs
    BY DEF Specs, Envs
<1>2. FanFiles /\ FanOK
    BY <1>1 DEF FanFiles, FanOK
<1>3. fresh \in BOOLEAN /\ more \in BOOLEAN /\ yes \in BOOLEAN
    OBVIOUS
<1>4. ScoutFiles /\ ScoutOK
    BY <1>1, <1>3, ScoutAssumption DEF ScoutFiles, ScoutOK
<1>5. CommonOK /\ RunOK
    BY <1>1, <1>3, RunsAssumption DEF CommonOK, RunOK, Nothing
<1>6. FanInv
    BY Kinds DEF FanInv, SilenceBlocksNothing, NoWrite
<1>7. ScoutInv
    BY Kinds DEF ScoutInv, ReplayServesTarget, Emitted, DirectRoutes
<1>8. RunInv
    BY Kinds DEF RunInv, OwnMethodOrNothing, Nothing
<1>9. QED
    BY <1>2, <1>4, <1>5, <1>6, <1>7, <1>8, TypesSplit DEF PlanningInv

(* The invariant holds throughout.                                         *)
THEOREM PlanningInvariance == Spec => []PlanningInv
<1>1. PlanningInv /\ [Next]_vars => PlanningInv'
    <2> SUFFICES ASSUME PlanningInv, [Next]_vars PROVE PlanningInv'
        OBVIOUS
    <2>1. FanGood /\ ScoutGood /\ CommonOK /\ RunOK
        BY TypesSplit DEF PlanningInv, FanGood, ScoutGood
    <2>2. FanMove /\ ScoutMove /\ specF \in Specs
        BY <2>1, Moves DEF CommonOK
    <2>3. FanGood' /\ ScoutGood'
        BY <2>1, <2>2, FanSteps, ScoutSteps
    <2>4. CommonOK' /\ RunOK' /\ RunInv'
        BY CommonSteps, RunSteps
    <2>5. TypeOK'
        BY <2>3, <2>4 DEF TypeOK, FilesOK, FanGood, ScoutGood, FanFiles, ScoutFiles,
               CommonOK, RunOK
    <2>6. QED
        BY <2>3, <2>4, <2>5 DEF PlanningInv, FanGood, ScoutGood
<1>2. QED
    BY PlanningInit, <1>1, PTL DEF Spec

-----------------------------------------------------------------------------
(* Sharing the pkg plan.  Nobody else writes the shared plan between the   *)
(* writing of the run's own fan-out and the race, and what a race over the *)
(* fan-out boots and revises comes from it.                                *)
SharedInv ==
    /\ via = "fanout" => phase = "race" /\ fpc = "listed"
    /\ writing.file = "shared" => /\ fpc = "list"
                                  /\ "pkg" \in runnable => writing.what.method = "pkg"
    /\ fpc = "list" /\ FansOut /\ yes /\ "pkg" \in runnable =>
            writing.file = "shared" \/ (shared.is = "plan" => shared.method # "source")
    /\ PkgHasTheSharedPlan
    /\ FansOut /\ yes /\ "pkg" \in runnable =>
            \A m \in Boots : booted[m].is = "plan" => booted[m].method # "source"

(* The shared plan's part is kept by every step.                           *)
LEMMA SharedSteps ==
    ASSUME PlanningInv, SharedInv, [Next]_vars
    PROVE  SharedInv'
<1>1. FanOK /\ FanInv /\ CommonOK /\ RunOK /\ RunInv
    BY TypesSplit DEF PlanningInv
<1>2. \A m \in Boots : Nothing[m].is = "absent"
    BY Kinds DEF Nothing
<1>3. NoWrite.file = "none"
    BY DEF NoWrite
<1> USE DEF SharedInv, PkgHasTheSharedPlan, FansOut, Enter, Over
<1>4. CASE Begin \/ EnterScout \/ ScoutFirst \/ Fallen \/ Lose \/ Kill
          \/ \E m \in Slots \cup Scouted : Win(m)
    <2>1. UNCHANGED shared /\ (UNCHANGED fanVars \/ FanGone)
        BY <1>4 DEF Begin, EnterScout, ScoutFirst, Fallen, Lose, Kill, Win, Aftermath,
               FanForget, files, ScoutStart
    <2>2. writing'.file = "shared" => /\ fpc' = "list"
                                      /\ "pkg" \in runnable' => writing'.what.method = "pkg"
        BY <1>3, <2>1 DEF fanVars, FanGone
    <2>3. \/ ~FansOut'
          \/ Fallen /\ phase' = "race" /\ UNCHANGED <<fanVars, yes, booted>>
        BY <1>4 DEF Begin, EnterScout, ScoutFirst, Fallen, Lose, Kill, Win
    <2>4. CASE ~FansOut'
        BY <2>2, <2>4
    <2>5. CASE Fallen /\ phase' = "race" /\ UNCHANGED <<fanVars, yes, booted>>
        BY <2>1, <2>2, <2>5 DEF Fallen, fanVars
    <2>6. QED
        BY <2>3, <2>4, <2>5
<1>5. CASE EnterFan \/ ScoutNone
    BY <1>1, <1>2, <1>3, <1>5 DEF EnterFan, ScoutNone, StartFan, FanStart, Racing, RunInv
<1>6. CASE \E m \in Boots : Boot(m) \/ BootDraft(m) \/ Revise(m)
    <2>1. PICK m \in Boots : Boot(m) \/ BootDraft(m) \/ Revise(m)
        BY <1>6
    <2>2. UNCHANGED <<fanVars, phase, via, yes>> /\ phase = "race"
        BY <2>1 DEF Boot, BootDraft, Revise
    <2>3. CASE ~(FansOut /\ yes /\ "pkg" \in runnable)
        BY <2>2, <2>3 DEF fanVars
    <2>4. CASE FansOut /\ yes /\ "pkg" \in runnable
        <3>1. via = "fanout" /\ fpc = "listed" /\ ~ReadsOwn(m)
            BY <2>2, <2>4 DEF ReadsOwn
        <3>2. shared.is = "plan" => shared.method # "source"
            BY <2>4, <3>1
        <3>3. CASE Boot(m)
            BY <1>1, <2>2, <2>4, <3>1, <3>2, <3>3, Kinds DEF Boot, Takes, RunOK, files, fanVars
        <3>4. CASE BootDraft(m)
            BY <1>1, <2>2, <2>4, <3>1, <3>4 DEF BootDraft, RunOK, PlanOf, fanVars
        <3>5. CASE Revise(m)
            <4>1. booted[m] \in Plans /\ booted[m].method # "source"
                BY <1>1, <2>4, <3>5, Kinds DEF Revise, RunOK
            <4>2. shared'.method # "source"
                BY <3>5, <4>1 DEF Revise, Plans, PlanOf
            <4>3. booted' = [booted EXCEPT ![m] = shared']
                BY <3>1, <3>5 DEF Revise
            <4>4. QED
                BY <1>1, <2>2, <2>4, <3>1, <4>2, <4>3 DEF RunOK, fanVars
        <3>6. QED
            BY <2>1, <3>3, <3>4, <3>5
    <2>5. QED
        BY <2>3, <2>4
<1>7. CASE ScoutProcess \/ StrayProcess
    <2>1. UNCHANGED shared
        BY <1>7 DEF ScoutProcess, ScoutStep, Clamp, Reply, NextTurn, Choke, CacheScan,
               ReplayDone, OpenOwn, FillOwn, Close, StrayProcess, StrayStep, StrayRoute,
               StrayScan, StrayOwn, files
    <2>2. QED
        BY <1>7, <2>1 DEF ScoutProcess, StrayProcess, raceVars, fanVars
<1>8. CASE FanProcess
    <2>1. UNCHANGED raceVars
        BY <1>8 DEF FanProcess
    <2>2. CASE \E m \in Slots : Land(m)
        BY <1>1, <1>2, <1>3, <2>1, <2>2
           DEF Land, LandPlan, LandVerdict, LandSilence, Write, raceVars, RunInv
    <2>3. CASE Flush
        BY <1>1, <1>3, <2>1, <2>3 DEF Flush, raceVars
    <2>4. CASE Share(yes)
        <3>1. UNCHANGED runnable /\ fpc' = "list" /\ fpc = "ask"
            BY <2>4 DEF Share
        <3>2. CASE yes /\ Sharer # {}
            <4>1. PICK m \in Sharer : writing' = Write("shared", m, plans[m])
                BY <2>4, <3>2 DEF Share
            <4>2. writing'.file = "shared" /\ writing'.what = plans[m]
                BY <4>1 DEF Write
            <4>3. "pkg" \in runnable => m = "pkg"
                BY DEF Sharer
            <4>4. "pkg" \in runnable => plans[m].method = "pkg"
                BY <1>1, <4>3 DEF FanInv, FanOK
            <4>5. QED
                BY <1>1, <1>2, <2>1, <3>1, <4>2, <4>4 DEF raceVars, RunInv
        <3>3. CASE ~(yes /\ Sharer # {})
            <4>1. UNCHANGED writing /\ writing = NoWrite
                BY <2>4, <3>3 DEF Share
            <4>2. yes => "pkg" \notin runnable
                BY <3>3 DEF Sharer
            <4>3. QED
                BY <1>3, <2>1, <3>1, <4>1, <4>2 DEF raceVars
        <3>4. QED
            BY <3>2, <3>3
    <2>5. CASE List
        BY <1>3, <2>1, <2>5 DEF List, raceVars, files
    <2>6. QED
        BY <1>8, <2>2, <2>3, <2>4, <2>5 DEF FanProcess, FanStep
<1>10. CASE CleanCache
    BY <1>10, Kinds DEF CleanCache, fanVars
<1>9. CASE UNCHANGED vars
    BY <1>9 DEF vars, raceVars, fanVars, files
<1>11. QED
    BY <1>4, <1>5, <1>6, <1>7, <1>8, <1>9, <1>10 DEF Next, Race

(* The shared plan's part of the invariant holds throughout.               *)
LEMMA SharedInvariance == Spec => []SharedInv
<1>1. Init => SharedInv
    BY Kinds DEF Init, FanIdle, NoFiles, SharedInv, PkgHasTheSharedPlan, NoWrite
<1>2. QED
    BY PlanningInvariance, SharedSteps, <1>1, PTL DEF Spec

-----------------------------------------------------------------------------
(* The state of a run and of its planners has its type.                    *)
THEOREM PlanningTypes == Spec => []TypeOK
BY PlanningInvariance, PTL DEF PlanningInv

(* fanout_cmd lists only plans made for this run's target.                 *)
THEOREM ServeTheorem == Spec => []PlansServeTarget
<1>1. PlanningInv => PlansServeTarget
    BY DEF PlanningInv, FanInv, PlansServeTarget, Listed
<1>2. QED
    BY PlanningInvariance, <1>1, PTL

(* fanout_cmd caches no blocked verdict without an answer.                 *)
THEOREM SilenceTheorem == Spec => []SilenceBlocksNothing
BY PlanningInvariance, PTL DEF PlanningInv, FanInv

(* scout_cmd caches only a scan that is over, with all that it streamed.   *)
THEOREM ScanTheorem == Spec => CachedScanIsWhole
<1>1. PlanningInv /\ [Next]_vars =>
        [spc = "cache" /\ spc' = "own" /\ scoutF' # scoutF =>
            /\ end = "word" /\ Exhausted
            /\ \A m \in Emitted : \E i \in DOMAIN scoutF'.routes :
                   Route(scoutF'.routes[i]) = lines[m]]_vars
    <2> SUFFICES ASSUME PlanningInv, Next,
                        spc = "cache", spc' = "own", scoutF' # scoutF
                 PROVE  /\ end = "word" /\ Exhausted
                        /\ \A m \in Emitted : \E i \in DOMAIN scoutF'.routes :
                               Route(scoutF'.routes[i]) = lines[m]
        OBVIOUS
    <2>1. ScoutMove /\ ScoutGood
        BY Moves, TypesSplit DEF PlanningInv, ScoutGood
    <2>2. CacheScan
        BY <2>1 DEF ScoutMove, ScoutStep, ScoutStart, ScoutForget, StrayStep, Clamp, Reply,
               NextTurn, Choke, ReplayDone, OpenOwn, FillOwn, Close, files, processVars,
               scoutVars
    <2>3. scoutF' = ScanOf(sspec, raw) /\ spc = "cache" /\ end = "word"
        BY <2>2 DEF CacheScan
    <2>4. scoutF'.routes = raw
        BY <2>3 DEF ScanOf
    <2>5. QED
        BY <2>1, <2>3, <2>4 DEF ScoutGood, ScoutInv, Streamed
<1>2. QED
    BY PlanningInvariance, <1>1, PTL DEF Spec, CachedScanIsWhole

(* A replayed scan serves the target of the run that replays it.           *)
THEOREM ReplayTheorem == Spec => []ReplayServesTarget
<1>1. PlanningInv => ReplayServesTarget
    BY DEF PlanningInv, ScoutInv, ReplayServesTarget, Emitted
<1>2. QED
    BY PlanningInvariance, <1>1, PTL

(* A candidate never boots the plan of another method from a file of its   *)
(* own.                                                                    *)
THEOREM MethodTheorem == Spec => []OwnMethodOrNothing
BY PlanningInvariance, PTL DEF PlanningInv, RunInv

(* Once its scout has closed, a route boots what was announced, or what a  *)
(* scout that outlived an earlier race has put in its place, or fails.     *)
THEOREM SettledTheorem == Spec => SettledRouteBootsItsLine
<1>1. PlanningInv /\ [Next]_vars =>
        [\A m \in Boots : (via = "scout" /\ m \in Emitted \ {"pkg"} /\ spc = "gone"
                           /\ booted[m] = Absent /\ booted'[m] # Absent)
             => \/ booted'[m] \in {lines[m], Refused}
                \/ strays # {} /\ booted'[m] \in StrayPlans(m)]_vars
    <2> SUFFICES ASSUME PlanningInv, Next, NEW m \in Boots,
                        via = "scout", m \in Emitted \ {"pkg"}, spc = "gone",
                        booted[m] = Absent, booted'[m] # Absent
                 PROVE  \/ booted'[m] \in {lines[m], Refused}
                        \/ strays # {} /\ booted'[m] \in StrayPlans(m)
        OBVIOUS
    <2>1. RunOK
        BY TypesSplit DEF PlanningInv
    <2>2. booted' = booted \/ booted' = Nothing
          \/ \E x \in Boots : Boot(x) \/ BootDraft(x) \/ Revise(x)
        BY DEF Next, Race, Begin, EnterScout, EnterFan, ScoutFirst, ScoutNone, Fallen, Win,
               Lose, Racing, Over, ScoutProcess, StrayProcess, FanProcess, raceVars, Kill,
               CleanCache
    <2>3. PICK x \in Boots : Boot(x) \/ BootDraft(x) \/ Revise(x)
        BY <2>2 DEF Nothing
    <2>4. x = m
        BY <2>1, <2>3 DEF Boot, BootDraft, Revise, RunOK
    <2>5. Boot(m) /\ ReadsOwn(m)
        BY <2>3, <2>4, Kinds DEF BootDraft, Revise, ReadsOwn
    <2>6. Takes(m) # Absent => \/ Takes(m) = lines[m]
                               \/ strays # {} /\ Takes(m) \in StrayPlans(m)
        <3>1. m \in (Emitted \cap Direct) \ unwritten
            BY DEF Boots, PlanningInv, ScoutInv
        <3>2. QED
            BY <2>5, <3>1 DEF Takes, PlanningInv, ScoutInv
    <2>7. booted'[m] = Takes(m) \/ booted'[m] = Refused
        BY <2>1, <2>5 DEF Boot, RunOK
    <2>8. QED
        BY <2>1, <2>5, <2>6, <2>7
<1>2. QED
    BY PlanningInvariance, <1>1, PTL DEF Spec, SettledRouteBootsItsLine

(* After a fan-out that planned pkg itself and may write, the shared plan  *)
(* is not the source plan, through boots, drafts and revisions.            *)
THEOREM SharedTheorem == Spec => []PkgHasTheSharedPlan
BY SharedInvariance, PTL DEF SharedInv

-----------------------------------------------------------------------------
(* The planners use themselves up.  A step of the scout lowers its stage,  *)
(* takes one of its turns, or is done with a reply, a route or a file.     *)
LEMMA ScoutSpending ==
    ASSUME ScoutOK, ScoutStep
    PROVE  ScoutSpends
<1> USE DEF ScoutSpends, ScoutRank
<1>1. CASE Clamp
    <2>1. batch \in Seq(Routes) /\ batch # <<>> /\ batch' = Tail(batch)
        BY <1>1 DEF Clamp, ScoutOK
    <2>2. Len(batch') < Len(batch)
        BY <2>1
    <2>3. QED
        BY <1>1, <2>2 DEF Clamp
<1>2. CASE Reply
    BY <1>2 DEF Reply
<1>3. CASE NextTurn
    BY <1>3, ScoutAssumption DEF NextTurn, Exhausted, ScoutOK
<1>4. CASE Choke
    BY <1>4 DEF Choke
<1>5. CASE CacheScan \/ ReplayDone
    BY <1>5 DEF CacheScan, ReplayDone, ToPlans
<1>6. ASSUME NEW m \in DirectRoutes, OpenOwn(m)
      PROVE  ScoutSpends
    BY <1>6 DEF OpenOwn
<1>7. ASSUME NEW m \in DirectRoutes, FillOwn(m)
      PROVE  ScoutSpends
    <2>1. m \in unwritten /\ unwritten' = unwritten \ {m}
        BY <1>7 DEF FillOwn, ScoutOK
    <2>2. QED
        BY <1>7, <2>1 DEF FillOwn
<1>8. CASE Close
    BY <1>8 DEF Close
<1>9. QED
    BY <1>1, <1>2, <1>3, <1>4, <1>5, <1>6, <1>7, <1>8 DEF ScoutStep

(* A step of the fan-out lowers its stage, lands a call or is done with a  *)
(* file.                                                                   *)
LEMMA FanSpending ==
    ASSUME FanStep(yes)
    PROVE  FanSpends
<1> USE DEF FanSpends, FanRank
<1>1. ASSUME NEW m \in Slots, Land(m)
      PROVE  FanSpends
    <2>1. fpc' = fpc /\ m \in pending /\ pending' = pending \ {m}
        BY <1>1 DEF Land
    <2>2. QED
        BY <2>1
<1>2. CASE Flush
    BY <1>2 DEF Flush
<1>3. CASE Share(yes)
    BY <1>3 DEF Share
<1>4. CASE List
    BY <1>4 DEF List
<1>5. QED
    BY <1>1, <1>2, <1>3, <1>4 DEF FanStep

(* Whatever else moves a planner, a start, a kill or the end of the run,   *)
(* is a move of the race.                                                  *)
LEMMA OwnMoves ==
    ASSUME Next, UNCHANGED raceVars
    PROVE  ScoutProcess \/ FanProcess \/ UNCHANGED <<processVars, fanVars>>
<1>1. UNCHANGED phase
    BY DEF raceVars
<1>2. CASE Race
    BY <1>1, <1>2 DEF Race, Begin, EnterScout, EnterFan, ScoutFirst, ScoutNone, Fallen, Boot,
           BootDraft, Revise, Win, Lose, Over, Enter, scoutVars
<1>3. CASE Kill
    BY <1>1, <1>3 DEF Kill, Over, Enter
<1>4. CASE CleanCache
    BY <1>4 DEF CleanCache, scoutVars
<1>5. CASE StrayProcess
    BY <1>5 DEF StrayProcess
<1>6. QED
    BY <1>2, <1>3, <1>4, <1>5 DEF Next

(* Neither planner goes on for ever while the race waits: each of its      *)
(* steps lowers a measure that only a move of the race raises again.       *)
THEOREM SpendTheorem == Spec => PlannersSpend
<1>1. PlanningInv /\ [Next]_vars =>
        [UNCHANGED raceVars =>
            \/ ScoutSpends /\ UNCHANGED fanVars
            \/ FanSpends /\ UNCHANGED processVars]_<<processVars, fanVars>>
    <2> SUFFICES ASSUME PlanningInv, [Next]_vars, UNCHANGED raceVars,
                        ~UNCHANGED <<processVars, fanVars>>
                 PROVE  \/ ScoutSpends /\ UNCHANGED fanVars
                        \/ FanSpends /\ UNCHANGED processVars
        OBVIOUS
    <2>1. Next
        BY DEF vars, scoutVars
    <2>2. ScoutProcess \/ FanProcess
        BY <2>1, OwnMoves
    <2>3. ScoutOK
        BY DEF PlanningInv, TypeOK
    <2>4. QED
        BY <2>2, <2>3, ScoutSpending, FanSpending DEF ScoutProcess, FanProcess, scoutVars
<1>2. QED
    BY PlanningInvariance, <1>1, PTL DEF Spec, PlannersSpend
=============================================================================
