------------------------------- MODULE Scout --------------------------------
(***************************************************************************)
(* scout_cmd of src/scripts/vmf_plan.py: the process that streams routes   *)
(* to the race, one line of a JSONL file each, from its cache or from a    *)
(* bounded loop of model turns, and that leaves a plan file per direct     *)
(* route when it is through.  Appending one line is one step.  The         *)
(* variants placed before an operator are that operator with a bug.        *)
(*                                                                         *)
(* No scout waits for another, and none ends with the race that started    *)
(* it.  The newest is followed in full; an older one that still runs, a    *)
(* stray, is known by its spec alone and may do at any time whatever its   *)
(* code may still do: put a route into the feed, which is one path for     *)
(* every run, cache its scan, write a plan file, or nothing any more.      *)
(***************************************************************************)
EXTENDS PlanFiles

CONSTANTS ScoutTurns,  \* VMF_SCOUT_TURNS
          MaxRoutes    \* routes taken of one reply (6 in the code)

ASSUME ScoutAssumption == ScoutTurns \in 1..6 /\ MaxRoutes \in 1..6

VARIABLES
    spc,        \* "off", "replay", "ask" (a model call), "clamp", "cache",
                \* "own", "gone"; "died" of a route it could not read
    sspec,      \* spec, of this process
    turn,       \* turn
    fresh,      \* new > 0, this turn
    more,       \* the reply's "more"
    end,        \* "word", or "silence" for a transient end
    batch,      \* the routes still to clamp
    raw,        \* raw
    lines,      \* per method: the line in the feed, Absent for none
    unwritten,  \* direct routes without their plan file yet
    opened,     \* the one whose file is open for writing
    strays,     \* the specs of the older scouts this one has beside it
    strayed     \* the methods of the routes they put in its feed

processVars == <<spc, sspec, turn, fresh, more, end, batch, raw, lines,
                 unwritten, opened>>
strayVars == <<strays, strayed>>
scoutVars == <<processVars, strayVars>>

DirectRoutes == Scouted \cap Direct
Emitted == {m \in Scouted : lines[m] # Absent}

ScoutOK ==
    /\ spc \in {"off", "replay", "ask", "clamp", "cache", "own", "gone", "died"}
    /\ sspec \in Specs
    /\ turn \in 1..ScoutTurns
    /\ fresh \in BOOLEAN /\ more \in BOOLEAN
    /\ end \in {"word", "silence"}
    /\ batch \in Seq(Routes) /\ raw \in Seq(Routes)
    /\ lines \in [Scouted -> {Absent} \cup Plans]
    /\ unwritten \subseteq DirectRoutes
    /\ opened \subseteq unwritten
    /\ strays \subseteq Specs /\ strayed \subseteq Scouted

ScoutIdle ==
    /\ spc = "off" /\ sspec = NoSpec /\ turn = 1 /\ fresh = FALSE /\ more = FALSE
    /\ end = "word" /\ batch = <<>> /\ raw = <<>>
    /\ lines = [m \in Scouted |-> Absent]
    /\ unwritten = {} /\ opened = {}
    /\ strays = {} /\ strayed = {}

ScoutAlive == spc \notin {"off", "gone", "died"}

-----------------------------------------------------------------------------
(* ScoutFeed unlinks the old feed and starts the process, whatever scout   *)
(* of an earlier race still reads.  It replays a cache of the spec it has  *)
(* loaded.                                                                 *)
Cached(s) == scoutF # Absent /\ scoutF.spec = s

ScoutStart(e) ==
    /\ strays' \in SUBSET (strays \cup {s \in {sspec} : ScoutAlive})
    /\ \E s \in LoadSpec(e) :
          /\ sspec' = s
          /\ specF' = SpecFile(e, s)
          /\ spc' = IF Cached(s) THEN "replay" ELSE "ask"
          /\ batch' = IF Cached(s) THEN scoutF.routes ELSE <<>>
    /\ turn' = 1 /\ fresh' = FALSE /\ more' = FALSE /\ end' = "word" /\ raw' = <<>>
    /\ lines' = [m \in Scouted |-> Absent]
    /\ unwritten' = {} /\ opened' = {}
    /\ strayed' = {}
    /\ UNCHANGED <<planF, blockF, own, shared, scoutF>>

(* _clamp_route.  The registry, the release's download link or a missing   *)
(* surface may drop any route; the spec drops keep-alives in a replay, and *)
(* the fresh scan is not given the spec.                                   *)
KeptUnderNone(r) == TRUE
Kept(r) == spc = "replay" => Serves(r.method, r.kind, sspec)

Route(r) == PlanOf(r.method, sspec, r.kind)

(* The next route is clamped, dropped or found to be of a method that was  *)
(* emitted already, or goes out as a line.                                 *)
Clamp ==
    /\ spc \in {"replay", "clamp"} /\ batch # <<>>
    /\ LET r == Head(batch)
       IN  /\ \/ /\ Kept(r) /\ r.method \notin Emitted
                 /\ lines' = [lines EXCEPT ![r.method] = Route(r)]
                 /\ fresh' = TRUE
              \/ UNCHANGED <<lines, fresh>>
           /\ raw' = IF spc = "clamp" THEN Append(raw, r) ELSE raw
    /\ batch' = Tail(batch)
    /\ UNCHANGED <<spc, sspec, turn, more, end, unwritten, opened, files>>

(* A reply arrives, or the call fails or cannot be parsed.                 *)
Reply ==
    /\ spc = "ask"
    /\ \/ /\ spc' = "clamp"
          /\ batch' \in UNION {[1..n -> Routes] : n \in 0..MaxRoutes}
          /\ more' \in BOOLEAN
          /\ fresh' = FALSE
          /\ UNCHANGED end
       \/ /\ spc' = "cache"
          /\ end' = "silence"
          /\ UNCHANGED <<batch, more, fresh>>
    /\ UNCHANGED <<sspec, turn, raw, lines, unwritten, opened, files>>

ExhaustedLate == ~more \/ (~fresh /\ turn > 1)
Exhausted == ~more \/ (~fresh /\ turn > 1) \/ turn = ScoutTurns

NextTurn ==
    /\ spc = "clamp" /\ batch = <<>>
    /\ IF Exhausted THEN spc' = "cache" /\ UNCHANGED turn
                    ELSE spc' = "ask" /\ turn' = turn + 1
    /\ UNCHANGED <<sspec, fresh, more, end, batch, raw, lines, unwritten,
                   opened, files>>

(* A route that is no JSON object is named in the drop message as if it    *)
(* were one: the process dies of it, with no cache, plan or summary.       *)
Choke ==
    /\ spc = "clamp"
    /\ spc' = "died"
    /\ UNCHANGED <<sspec, turn, fresh, more, end, batch, raw, lines,
                   unwritten, opened, files>>

(* From here on the process needs only the lines it emitted.               *)
ToPlans ==
    /\ spc' = "own" /\ unwritten' = Emitted \cap Direct
    /\ turn' = 1 /\ fresh' = FALSE /\ more' = FALSE /\ end' = "word"
    /\ batch' = <<>> /\ raw' = <<>>
    /\ UNCHANGED <<sspec, lines, opened>>

(* The scan is cached unless it ended in silence.                          *)
CacheScanAlways ==
    /\ spc = "cache"
    /\ scoutF' = ScanOf(sspec, raw)
    /\ ToPlans
    /\ UNCHANGED <<planF, blockF, own, shared, specF>>
CacheScan ==
    /\ spc = "cache"
    /\ scoutF' = IF end = "word" THEN ScanOf(sspec, raw) ELSE scoutF
    /\ ToPlans
    /\ UNCHANGED <<planF, blockF, own, shared, specF>>

ReplayDone ==
    /\ spc = "replay" /\ batch = <<>>
    /\ ToPlans
    /\ UNCHANGED files

(* _scout_cache_direct: a plan file per direct route, opened, then filled. *)
OpenOwn(m) ==
    /\ spc = "own" /\ opened = {} /\ m \in unwritten
    /\ opened' = {m}
    /\ own' = [own EXCEPT ![m] = Torn]
    /\ UNCHANGED <<spc, sspec, turn, fresh, more, end, batch, raw, lines,
                   unwritten, planF, blockF, shared, scoutF, specF>>

KeepOwn(m) ==
    /\ m \in opened
    /\ unwritten' = unwritten \ {m} /\ opened' = {}
    /\ own' = [own EXCEPT ![m] = PlanOf(m, sspec, "app")]
    /\ UNCHANGED <<spc, sspec, turn, fresh, more, end, batch, raw, lines,
                   planF, blockF, shared, scoutF, specF>>
FillOwn(m) ==
    /\ m \in opened
    /\ unwritten' = unwritten \ {m} /\ opened' = {}
    /\ own' = [own EXCEPT ![m] = lines[m]]
    /\ UNCHANGED <<spc, sspec, turn, fresh, more, end, batch, raw, lines,
                   planF, blockF, shared, scoutF, specF>>

(* The summary line, and the end.                                          *)
Close ==
    /\ spc = "own" /\ unwritten = {}
    /\ spc' = "gone"
    /\ UNCHANGED <<sspec, turn, fresh, more, end, batch, raw, lines,
                   unwritten, opened, files>>

(* The process is killed, or the race that reads it is over: its memory    *)
(* and its feed are of no use any more.                                    *)
ScoutForget ==
    /\ spc' = "off" /\ sspec' = NoSpec /\ turn' = 1 /\ fresh' = FALSE /\ more' = FALSE
    /\ end' = "word" /\ batch' = <<>> /\ raw' = <<>>
    /\ lines' = [m \in Scouted |-> Absent]
    /\ unwritten' = {} /\ opened' = {}
    /\ strayed' = {} /\ UNCHANGED strays

-----------------------------------------------------------------------------
(* The older scouts.                                                       *)

StrayRoute(m) ==
    /\ strays # {} /\ spc # "off"
    /\ strayed' = strayed \cup {m}
    /\ UNCHANGED <<strays, files>>

(* Bound: the routes of one reply.                                         *)
StrayScan(s) ==
    /\ \E n \in 0..MaxRoutes : \E rs \in [1..n -> Routes] : scoutF' = ScanOf(s, rs)
    /\ UNCHANGED <<planF, blockF, own, shared, specF, strayVars>>

StrayOwn(s, m) ==
    /\ \E p \in {Torn, PlanOf(m, s, "app"), PlanOf(m, s, "sleep")} :
          own' = [own EXCEPT ![m] = p]
    /\ UNCHANGED <<planF, blockF, shared, scoutF, specF, strayVars>>

StrayStep ==
    \/ \E m \in Scouted : StrayRoute(m)
    \/ \E s \in strays : StrayScan(s) \/ \E m \in DirectRoutes : StrayOwn(s, m)

-----------------------------------------------------------------------------
ScoutStep == Clamp \/ Reply \/ NextTurn \/ Choke \/ CacheScan \/ ReplayDone
             \/ (\E m \in DirectRoutes : OpenOwn(m) \/ FillOwn(m)) \/ Close

(* A step of the scout brings it a stage on, takes a turn, reads a reply   *)
(* of that turn, is done with a route, or writes or opens a plan file.     *)
ScoutRank == CASE spc = "replay" -> 4 [] spc \in {"ask", "clamp"} -> 3
               [] spc = "cache" -> 2 [] spc = "own" -> 1 [] OTHER -> 0
ScoutSpends ==
    \/ ScoutRank' < ScoutRank
    \/ ScoutRank' = ScoutRank /\ turn' \in (turn + 1)..ScoutTurns
    \/ spc = "ask" /\ spc' = "clamp" /\ UNCHANGED turn
    \/ UNCHANGED <<spc, turn>> /\ Len(batch') < Len(batch)
    \/ /\ UNCHANGED <<spc, turn, batch>>
       /\ \/ unwritten' \subseteq unwritten /\ unwritten' # unwritten
          \/ UNCHANGED unwritten /\ opened = {} /\ opened' # {}
=============================================================================
