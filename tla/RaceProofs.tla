----------------------------- MODULE RaceProofs -----------------------------
(***************************************************************************)
(* Proofs about Race for every number of candidates, slots, promotion      *)
(* tries and verify turns: its types, then the inductive invariant the     *)
(* safety theorems rest on.                                                *)
(***************************************************************************)
EXTENDS Race, TLAPS

(* Every variable of the race keeps its type: in particular no route is    *)
(* taken in twice and no list ever holds a name the race does not know.    *)
LEMMA TypeInit == Init => TypeOK
<1> SUFFICES ASSUME Init PROVE TypeOK
  OBVIOUS
<1> USE RaceAssumption DEF Init
<1>1. field \in Cands /\ nkeep \in field..MaxCands /\ unread \in 0..(MaxCands - nkeep)
  BY DEF Cands
<1>2. marker \in [Names -> {"none", "empty", "pass", "fail"}]
  OBVIOUS
<1>3. /\ proc \in [Names -> {"none", "live", "ok", "err", "killed"}]
      /\ chain \in [Names -> {"idle", "build", "verify", "write", "exit"}]
      /\ turn \in [Names -> 1..Turns]
      /\ vm \in [Names -> BOOLEAN]
      /\ decided \in [Names -> {"none", "pass", "fail"}]
      /\ verdict \in [Cands -> {"none", "pass", "fail", "exit", "noverdict", "deadline", "band"}]
  OBVIOUS
<1>4. attempt \in 0..Tries /\ rc \in {0, 1} /\ bandNo \in 0..3
  OBVIOUS
<1> QED
  BY <1>1, <1>2, <1>3, <1>4 DEF TypeOK

(* Every step of race(), promote(), _die(), a runner or the scout keeps    *)
(* the types.                                                              *)
LEMMA TypeStep == TypeOK /\ [Next]_vars => TypeOK'
<1> SUFFICES ASSUME TypeOK, [Next]_vars PROVE TypeOK'
  OBVIOUS
<1> USE RaceAssumption DEF TypeOK, Cands, Names, Base, Nobody, loopVars, promoVars,
                           feedVars, envVars, vars
<1>1. CASE Enter
  <2>1. {Band[c] : c \in 1..nkeep} \subseteq 0..3
    OBVIOUS
  <2>2. queue' \subseteq 1..MaxCands /\ bandsLeft' \subseteq 0..3
    BY <1>1, <2>1 DEF Enter
  <2>3. marker' \in [Names -> {"none", "empty", "pass", "fail"}]
    BY <1>1 DEF Enter, Unlink
  <2> QED
    BY <1>1, <2>2, <2>3 DEF Enter
<1>2. CASE Leave
  BY <1>2 DEF Leave
<1>3. CASE Drain
  BY <1>3 DEF Drain, Unlink
<1>4. CASE Boot
  BY <1>4 DEF Boot, HeadOf, Spawn
<1>5. CASE NoBoot
  BY <1>5 DEF NoBoot, AfterPoll
<1>6. ASSUME NEW c \in Cands, PollOpen(c) PROVE TypeOK'
  BY <1>6 DEF PollOpen, AfterPoll
<1>7. ASSUME NEW c \in Cands, PollVerdict(c) PROVE TypeOK'
  <2>1. PICK f \in Findings(c) \ {"none"} :
             /\ verdict' = [verdict EXCEPT ![c] = f]
             /\ winner' = IF f = "pass" THEN c ELSE winner
             /\ topoll' = IF f = "pass" THEN {} ELSE topoll \ {c}
    BY <1>7 DEF PollVerdict
  <2>2. f \in {"pass", "fail", "exit", "noverdict"}
    BY DEF Findings, Status, Provisional
  <2>3. /\ verdict' \in [1..MaxCands -> {"none", "pass", "fail", "exit", "noverdict", "deadline", "band"}]
        /\ winner' \in 1..MaxCands \cup {-1}
        /\ topoll' \subseteq 1..MaxCands
    BY <2>1, <2>2
  <2>4. /\ proc' \in [{0} \cup 1..MaxCands -> {"none", "live", "ok", "err", "killed"}]
        /\ chain' \in [{0} \cup 1..MaxCands -> {"idle", "build", "verify", "write", "exit"}]
    BY <1>7 DEF PollVerdict, Terminate
  <2> QED
    BY <1>7, <2>3, <2>4 DEF PollVerdict, AfterPoll
<1>8. CASE JudgeWinner
  BY <1>8 DEF JudgeWinner
<1>9. CASE JudgeDeadline
  BY <1>9 DEF JudgeDeadline, Terminate
<1>10. CASE FlushBand
  BY <1>10 DEF FlushBand, Terminate
<1>11. CASE PopBand
  BY <1>11 DEF PopBand, NextBand, HeadOf, InGroup
<1>12. CASE EndTick
  BY <1>12 DEF EndTick
<1>13. CASE After
  BY <1>13 DEF After, Stop, DropLocals
<1>14. CASE Reap
  BY <1>14 DEF Reap, Terminate
<1>15. CASE Settle
  BY <1>15 DEF Settle, Stop
<1>16. CASE Promote
  BY <1>16 DEF Promote, Stop
<1>17. CASE PromoteBoot
  BY <1>17 DEF PromoteBoot, Unlink, Spawn
<1>18. CASE PromoteWait
  BY <1>18 DEF PromoteWait
<1>19. CASE PromotePass
  BY <1>19 DEF PromotePass
<1>20. CASE PromoteFail
  <2>1. CASE attempt < Tries
    <3>1. attempt + 1 \in 0..Tries
      BY <2>1
    <3>2. /\ vm' = [n \in Names |-> vm[n] /\ n \notin {Base}]
          /\ marker' = [n \in Names |-> IF n \in {Base} /\ vm[n] THEN "none" ELSE marker[n]]
          /\ attempt' = attempt + 1
      BY <1>20, <2>1 DEF PromoteFail, Stop
    <3>3. /\ vm' \in [{0} \cup 1..MaxCands -> BOOLEAN]
          /\ marker' \in [{0} \cup 1..MaxCands -> {"none", "empty", "pass", "fail"}]
      BY <3>2
    <3> QED
      BY <1>20, <2>1, <3>1, <3>2, <3>3 DEF PromoteFail
  <2>2. CASE ~(attempt < Tries)
    BY <1>20, <2>2 DEF PromoteFail
  <2> QED
    BY <2>1, <2>2
<1>21. CASE Die
  BY <1>21 DEF Die, Terminate, Stop, DropLocals
<1>22. ASSUME NEW n \in Names, RunnerStep(n) PROVE TypeOK'
  <2> USE DEF chainRest
  <2>1. CASE BootUp(n) BY <2>1 DEF BootUp, PickPort, OwnPort
  <2>2. CASE Abort(n) BY <2>2 DEF Abort
  <2>3. CASE Rerun(n) BY <2>3 DEF Rerun
  <2>4. CASE OpenMarker(n) BY <2>4 DEF OpenMarker
  <2>5. CASE WriteMarker(n) BY <2>5 DEF WriteMarker
  <2>6. CASE NoMarker(n) BY <2>6 DEF NoMarker
  <2>7. CASE Exit(n) BY <2>7 DEF Exit
  <2> QED BY <1>22, <2>1, <2>2, <2>3, <2>4, <2>5, <2>6, <2>7 DEF RunnerStep
<1>23. CASE ScoutRoute
  BY <1>23 DEF ScoutRoute
<1>24. CASE ScoutExit
  BY <1>24 DEF ScoutExit
<1>25. ASSUME PortFree \/ PortLapse PROVE TypeOK'
  <2>1. attempt' = 1 /\ pc' = "boot"
    BY <1>25 DEF PortFree, PortLapse
  <2>2. attempt' \in 0..Tries
    BY <2>1
  <2>3. lapsed' \in BOOLEAN
    BY <1>25 DEF PortFree, PortLapse
  <2>4. UNCHANGED <<tranches, field, nkeep, loopVars, rc, saved, late, port, feedVars, envVars>>
    BY <1>25 DEF PortFree, PortLapse
  <2> QED
    BY <2>1, <2>2, <2>3, <2>4
<1>26. CASE Gone
  BY <1>26 DEF Gone, chainRest
<1>27. CASE UNCHANGED vars
  BY <1>27
<1> HIDE DEF TypeOK, Cands, Names
<1> QED
  BY <1>1, <1>2, <1>3, <1>4, <1>5, <1>6, <1>7, <1>8, <1>9, <1>10, <1>11, <1>12, <1>13,
     <1>14, <1>15, <1>16, <1>17, <1>18, <1>19, <1>20, <1>21, <1>22, <1>23, <1>24, <1>25,
     <1>26, <1>27 DEF Next, Coordinator, Returned

(* The race never leaves its types.                                        *)
THEOREM RaceTypes == Spec => []TypeOK
BY TypeInit, TypeStep, PTL DEF Spec

-----------------------------------------------------------------------------
(* The inductive invariant, by what each part relates.                     *)

(* A name's runner, chain, VM and marker.                                  *)
ChainInv ==
    \A n \in Names :
        /\ proc[n] \in {"none", "ok", "err"} => chain[n] = "idle"
        /\ chain[n] \in {"build", "verify"} => marker[n] = "none" /\ decided[n] = "none"
        /\ proc[n] = "none" => decided[n] = "none" /\ ~vm[n]
        /\ proc[n] # "none" /\ marker[n] \in {"pass", "fail"} => decided[n] = marker[n]
        /\ proc[n] \in {"live", "ok", "err"} /\ marker[n] = "empty" => chain[n] = "write"

(* What has not booted yet: nothing of it runs, and once the race has      *)
(* taken it in, its marker is clean.                                       *)
FieldInv ==
    /\ queue \subseteq 1..nkeep
    /\ \A c \in Cands :
          /\ c > nkeep \/ pc = "enter" => proc[c] = "none"
          /\ c <= nkeep /\ pc \notin {"enter", "dead"} /\ proc[c] = "none" => marker[c] = "none"
          /\ c \in queue => proc[c] = "none"
          /\ c <= field /\ Band[c] \in bandsLeft => proc[c] = "none" /\ c \notin queue

(* While the loop runs: its runners, and the crown as the end of a tick.   *)
LoopInv ==
    /\ LiveRunnersTracked
    /\ InLoop => \A c \in running : proc[c] \in {"live", "ok", "err"}
    /\ pc = "enter" => running = {}
    /\ pc = "poll" => topoll \subseteq running
    /\ pc \in {"enter", "top", "start", "poll", "flushed"} => winner = Nobody

Unpromoted == {"enter", "top", "start", "poll", "judge", "flushed", "after",
               "reap", "settle", "promote", "free"}

(* The promotion: the canonical name boots under a crown, after the        *)
(* winner's VM was stopped and its port awaited, and a pass of its own is  *)
(* never forgotten.                                                        *)
PromotionInv ==
    /\ pc \in Unpromoted => proc[Base] = "none"
    /\ pc \in {"reap", "settle", "promote", "free", "boot", "wait", "read"} => winner # Nobody
    /\ proc[Base] # "none" \/ pc \in {"free", "boot"} => winner # Nobody /\ ~vm[winner]
    /\ proc[Base] # "none" \/ pc = "boot" => (port = winner => lapsed)
    /\ pc = "boot" => proc[Base] \in {"none", "ok", "err"} /\ decided[Base] # "pass"
    /\ pc \in {"wait", "read"} => proc[Base] \in {"live", "ok", "err"}
    /\ pc = "read" => proc[Base] # "live"
    /\ pc \in {"wait", "read"} =>
          /\ decided[Base] = "pass" \/ chain[Base] = "verify" => vm[Base]
          /\ decided[Base] = "pass" /\ chain[Base] # "write" => marker[Base] = "pass"
    /\ saved => pc = "done" /\ chain[Base] = "idle"

RaceInv ==
    /\ ChainInv
    /\ FieldInv
    /\ LoopInv
    /\ CrownIsGenuine
    /\ PromotionInv
    /\ PromotionIsGenuine

(* A runner's chain, its marker and what was decided stay in step: a name  *)
(* is spawned only with a clean marker, and a finished chain is over.      *)
LEMMA ChainStep == TypeOK /\ TypeOK' /\ RaceInv /\ [Next]_vars => ChainInv'
<1> SUFFICES ASSUME TypeOK, TypeOK', RaceInv, [Next]_vars PROVE ChainInv'
  OBVIOUS
<1> USE DEF TypeOK, RaceInv, ChainInv, FieldInv, Names, Cands, Base, Nobody, vars, loopVars,
     promoVars, feedVars, envVars
<1>1. CASE \/ Leave \/ JudgeWinner \/ EndTick \/ PortFree \/ PortLapse \/ PromoteWait
           \/ Gone \/ ScoutRoute \/ ScoutExit
  BY <1>1 DEF Leave, JudgeWinner, EndTick, PortFree, PortLapse, PromoteWait, Gone, chainRest,
       ScoutRoute, ScoutExit
<1>2. CASE Enter
  BY <1>2 DEF Enter, Unlink
<1>3. CASE Drain
  BY <1>3 DEF Drain, Unlink
<1>4. CASE Boot
  BY <1>4 DEF Boot, HeadOf, Spawn
<1>5. CASE NoBoot
  BY <1>5 DEF NoBoot, AfterPoll
<1>6. ASSUME NEW c \in Cands, PollOpen(c) PROVE ChainInv'
  BY <1>6 DEF PollOpen, AfterPoll
<1>7. ASSUME NEW c \in Cands, PollVerdict(c) PROVE ChainInv'
  BY <1>7 DEF PollVerdict, AfterPoll, Terminate
<1>8. CASE JudgeDeadline
  BY <1>8 DEF JudgeDeadline, Terminate
<1>9. CASE FlushBand
  BY <1>9 DEF FlushBand, Terminate
<1>10. CASE PopBand
  BY <1>10 DEF PopBand, NextBand, HeadOf, InGroup
<1>11. CASE After
  BY <1>11 DEF After, Stop, DropLocals
<1>12. CASE Reap
  BY <1>12 DEF Reap, Terminate
<1>13. CASE Settle
  BY <1>13 DEF Settle, Stop
<1>14. CASE Promote
  BY <1>14 DEF Promote, Stop
<1>15. CASE PromoteBoot
  BY <1>15 DEF PromoteBoot, Unlink, Spawn
<1>16. CASE PromotePass
  BY <1>16 DEF PromotePass, PromoteStatus
<1>17. CASE PromoteFail
  BY <1>17 DEF PromoteFail, PromoteStatus, Stop
<1>18. CASE Die
  BY <1>18 DEF Die, Terminate, Stop, DropLocals
<1>19. ASSUME NEW n \in Names, BootUp(n) PROVE ChainInv'
  BY <1>19 DEF BootUp, PickPort, OwnPort, chainRest
<1>20. ASSUME NEW n \in Names, Abort(n) PROVE ChainInv'
  BY <1>20 DEF Abort, chainRest
<1>21. ASSUME NEW n \in Names, Rerun(n) PROVE ChainInv'
  BY <1>21 DEF Rerun, chainRest
<1>22. ASSUME NEW n \in Names, OpenMarker(n) PROVE ChainInv'
  BY <1>22 DEF OpenMarker, chainRest
<1>23. ASSUME NEW n \in Names, WriteMarker(n) PROVE ChainInv'
  BY <1>23 DEF WriteMarker, chainRest
<1>24. ASSUME NEW n \in Names, NoMarker(n) PROVE ChainInv'
  BY <1>24 DEF NoMarker, chainRest
<1>25. ASSUME NEW n \in Names, Exit(n) PROVE ChainInv'
  BY <1>25 DEF Exit, chainRest
<1>26. CASE UNCHANGED vars
  BY <1>26
<1> HIDE DEF TypeOK, RaceInv, ChainInv, FieldInv, Names, Cands, Base, Nobody, vars,
     loopVars, promoVars, feedVars, envVars
<1> QED
  BY <1>1, <1>2, <1>3, <1>4, <1>5, <1>6, <1>7, <1>8, <1>9, <1>10, <1>11, <1>12, <1>13,
       <1>14, <1>15, <1>16, <1>17, <1>18, <1>19, <1>20, <1>21, <1>22, <1>23, <1>24, <1>25,
       <1>26 DEF Next, Coordinator, RunnerStep, Returned

(* No candidate boots twice: what the queue or a band holds has not booted. *)
LEMMA FieldStep == TypeOK /\ TypeOK' /\ RaceInv /\ [Next]_vars => FieldInv'
<1> SUFFICES ASSUME TypeOK, TypeOK', RaceInv, [Next]_vars PROVE FieldInv'
  OBVIOUS
<1> USE DEF TypeOK, RaceInv, ChainInv, FieldInv, Names, Cands, Base, Nobody, vars, loopVars,
     promoVars, feedVars, envVars
<1>1. CASE \/ Leave \/ JudgeWinner \/ EndTick \/ PortFree \/ PortLapse \/ PromoteWait
           \/ Gone \/ ScoutRoute \/ ScoutExit
  BY <1>1 DEF Leave, JudgeWinner, EndTick, PortFree, PortLapse, PromoteWait, Gone, chainRest,
       ScoutRoute, ScoutExit
<1>2. CASE Enter
  BY <1>2 DEF Enter, Unlink
<1>3. CASE Drain
  BY <1>3 DEF Drain, Unlink
<1>4. CASE Boot
  BY <1>4 DEF Boot, HeadOf, Spawn
<1>5. CASE NoBoot
  BY <1>5 DEF NoBoot, AfterPoll
<1>6. ASSUME NEW c \in Cands, PollOpen(c) PROVE FieldInv'
  BY <1>6 DEF PollOpen, AfterPoll
<1>7. ASSUME NEW c \in Cands, PollVerdict(c) PROVE FieldInv'
  BY <1>7 DEF PollVerdict, AfterPoll, Terminate
<1>8. CASE JudgeDeadline
  BY <1>8 DEF JudgeDeadline, Terminate
<1>9. CASE FlushBand
  BY <1>9 DEF FlushBand, Terminate
<1>10. CASE PopBand
  BY <1>10 DEF PopBand, NextBand, HeadOf, InGroup
<1>11. CASE After
  BY <1>11 DEF After, Stop, DropLocals
<1>12. CASE Reap
  BY <1>12 DEF Reap, Terminate
<1>13. CASE Settle
  BY <1>13 DEF Settle, Stop
<1>14. CASE Promote
  BY <1>14 DEF Promote, Stop
<1>15. CASE PromoteBoot
  BY <1>15 DEF PromoteBoot, Unlink, Spawn
<1>16. CASE PromotePass
  BY <1>16 DEF PromotePass, PromoteStatus
<1>17. CASE PromoteFail
  BY <1>17 DEF PromoteFail, PromoteStatus, Stop
<1>18. CASE Die
  BY <1>18 DEF Die, Terminate, Stop, DropLocals
<1>19. ASSUME NEW n \in Names, BootUp(n) PROVE FieldInv'
  BY <1>19 DEF BootUp, PickPort, OwnPort, chainRest
<1>20. ASSUME NEW n \in Names, Abort(n) PROVE FieldInv'
  BY <1>20 DEF Abort, chainRest
<1>21. ASSUME NEW n \in Names, Rerun(n) PROVE FieldInv'
  BY <1>21 DEF Rerun, chainRest
<1>22. ASSUME NEW n \in Names, OpenMarker(n) PROVE FieldInv'
  BY <1>22 DEF OpenMarker, chainRest
<1>23. ASSUME NEW n \in Names, WriteMarker(n) PROVE FieldInv'
  BY <1>23 DEF WriteMarker, chainRest
<1>24. ASSUME NEW n \in Names, NoMarker(n) PROVE FieldInv'
  BY <1>24 DEF NoMarker, chainRest
<1>25. ASSUME NEW n \in Names, Exit(n) PROVE FieldInv'
  BY <1>25 DEF Exit, chainRest
<1>26. CASE UNCHANGED vars
  BY <1>26
<1> HIDE DEF TypeOK, RaceInv, ChainInv, FieldInv, Names, Cands, Base, Nobody, vars,
     loopVars, promoVars, feedVars, envVars
<1> QED
  BY <1>1, <1>2, <1>3, <1>4, <1>5, <1>6, <1>7, <1>8, <1>9, <1>10, <1>11, <1>12, <1>13,
       <1>14, <1>15, <1>16, <1>17, <1>18, <1>19, <1>20, <1>21, <1>22, <1>23, <1>24, <1>25,
       <1>26 DEF Next, Coordinator, RunnerStep, Returned

(* running and running_state gain and lose runners together with their     *)
(* processes, and a crown ends the tick that found it.                     *)
LEMMA LoopStep == TypeOK /\ TypeOK' /\ RaceInv /\ [Next]_vars => LoopInv'
<1> SUFFICES ASSUME TypeOK, TypeOK', RaceInv, [Next]_vars PROVE LoopInv'
  OBVIOUS
<1> USE DEF TypeOK, RaceInv, LoopInv, LiveRunnersTracked, InLoop, FieldInv, Names, Cands,
     Base, Nobody, vars, loopVars, promoVars, feedVars, envVars
<1>1. CASE \/ Leave \/ JudgeWinner \/ EndTick \/ PortFree \/ PortLapse \/ PromoteWait
           \/ Gone \/ ScoutRoute \/ ScoutExit
  BY <1>1 DEF Leave, JudgeWinner, EndTick, PortFree, PortLapse, PromoteWait, Gone, chainRest,
       ScoutRoute, ScoutExit
<1>2. CASE Enter
  BY <1>2 DEF Enter, Unlink
<1>3. CASE Drain
  BY <1>3 DEF Drain, Unlink
<1>4. CASE Boot
  BY <1>4 DEF Boot, HeadOf, Spawn
<1>5. CASE NoBoot
  BY <1>5 DEF NoBoot, AfterPoll
<1>6. ASSUME NEW c \in Cands, PollOpen(c) PROVE LoopInv'
  BY <1>6 DEF PollOpen, AfterPoll
<1>7. ASSUME NEW c \in Cands, PollVerdict(c) PROVE LoopInv'
  BY <1>7 DEF PollVerdict, AfterPoll, Terminate
<1>8. CASE JudgeDeadline
  BY <1>8 DEF JudgeDeadline, Terminate
<1>9. CASE FlushBand
  BY <1>9 DEF FlushBand, Terminate
<1>10. CASE PopBand
  BY <1>10 DEF PopBand, NextBand, HeadOf, InGroup
<1>11. CASE After
  BY <1>11 DEF After, Stop, DropLocals
<1>12. CASE Reap
  BY <1>12 DEF Reap, Terminate
<1>13. CASE Settle
  BY <1>13 DEF Settle, Stop
<1>14. CASE Promote
  BY <1>14 DEF Promote, Stop
<1>15. CASE PromoteBoot
  BY <1>15 DEF PromoteBoot, Unlink, Spawn
<1>16. CASE PromotePass
  BY <1>16 DEF PromotePass, PromoteStatus
<1>17. CASE PromoteFail
  BY <1>17 DEF PromoteFail, PromoteStatus, Stop
<1>18. CASE Die
  BY <1>18 DEF Die, Terminate, Stop, DropLocals
<1>19. ASSUME NEW n \in Names, BootUp(n) PROVE LoopInv'
  BY <1>19 DEF BootUp, PickPort, OwnPort, chainRest
<1>20. ASSUME NEW n \in Names, Abort(n) PROVE LoopInv'
  BY <1>20 DEF Abort, chainRest
<1>21. ASSUME NEW n \in Names, Rerun(n) PROVE LoopInv'
  BY <1>21 DEF Rerun, chainRest
<1>22. ASSUME NEW n \in Names, OpenMarker(n) PROVE LoopInv'
  BY <1>22 DEF OpenMarker, chainRest
<1>23. ASSUME NEW n \in Names, WriteMarker(n) PROVE LoopInv'
  BY <1>23 DEF WriteMarker, chainRest
<1>24. ASSUME NEW n \in Names, NoMarker(n) PROVE LoopInv'
  BY <1>24 DEF NoMarker, chainRest
<1>25. ASSUME NEW n \in Names, Exit(n) PROVE LoopInv'
  BY <1>25 DEF Exit, chainRest
<1>26. CASE UNCHANGED vars
  BY <1>26
<1> HIDE DEF TypeOK, RaceInv, LoopInv, LiveRunnersTracked, InLoop, FieldInv, Names, Cands,
     Base, Nobody, vars, loopVars, promoVars, feedVars, envVars
<1> QED
  BY <1>1, <1>2, <1>3, <1>4, <1>5, <1>6, <1>7, <1>8, <1>9, <1>10, <1>11, <1>12, <1>13,
       <1>14, <1>15, <1>16, <1>17, <1>18, <1>19, <1>20, <1>21, <1>22, <1>23, <1>24, <1>25,
       <1>26 DEF Next, Coordinator, RunnerStep, Returned

(* Only a poll that reads a whole pass after the runner's exit crowns.     *)
LEMMA CrownStep == TypeOK /\ TypeOK' /\ RaceInv /\ [Next]_vars => CrownIsGenuine'
<1> SUFFICES ASSUME TypeOK, TypeOK', RaceInv, [Next]_vars PROVE CrownIsGenuine'
  OBVIOUS
<1> USE DEF TypeOK, RaceInv, ChainInv, FieldInv, LoopInv, InLoop, CrownIsGenuine, Names,
     Cands, Base, Nobody, vars, loopVars, promoVars, feedVars, envVars
<1>1. CASE \/ Leave \/ JudgeWinner \/ EndTick \/ PortFree \/ PortLapse \/ PromoteWait
           \/ Gone \/ ScoutRoute \/ ScoutExit
  BY <1>1 DEF Leave, JudgeWinner, EndTick, PortFree, PortLapse, PromoteWait, Gone, chainRest,
       ScoutRoute, ScoutExit
<1>2. CASE Enter
  BY <1>2 DEF Enter, Unlink
<1>3. CASE Drain
  BY <1>3 DEF Drain, Unlink
<1>4. CASE Boot
  BY <1>4 DEF Boot, HeadOf, Spawn
<1>5. CASE NoBoot
  BY <1>5 DEF NoBoot, AfterPoll
<1>6. ASSUME NEW c \in Cands, PollOpen(c) PROVE CrownIsGenuine'
  BY <1>6 DEF PollOpen, AfterPoll
<1>7. ASSUME NEW c \in Cands, PollVerdict(c) PROVE CrownIsGenuine'
  <2>1. PICK f \in Findings(c) \ {"none"} :
             winner' = IF f = "pass" THEN c ELSE winner
    BY <1>7 DEF PollVerdict
  <2>2. proc' \in [Names -> {"none", "live", "ok", "err", "killed"}] /\ decided' = decided
    BY <1>7 DEF PollVerdict
  <2>3. winner = Nobody /\ c \in running /\ proc[c] \in {"live", "ok", "err"}
    BY <1>7 DEF PollVerdict
  <2>4. CASE f = "pass"
    <3>1. marker[c] = "pass" /\ proc[c] # "live"
      BY <2>1, <2>4 DEF Findings, Status, Provisional
    <3>2. decided[c] = "pass" /\ proc[c] \in {"ok", "err"}
      BY <2>3, <3>1
    <3>3. proc'[c] = proc[c]
      BY <1>7, <3>1 DEF PollVerdict, Terminate
    <3> QED
      BY <2>1, <2>2, <2>4, <3>2, <3>3
  <2>5. CASE f # "pass"
    BY <2>1, <2>3, <2>5
  <2> QED
    BY <2>4, <2>5
<1>8. CASE JudgeDeadline
  BY <1>8 DEF JudgeDeadline, Terminate
<1>9. CASE FlushBand
  BY <1>9 DEF FlushBand, Terminate
<1>10. CASE PopBand
  BY <1>10 DEF PopBand, NextBand, HeadOf, InGroup
<1>11. CASE After
  BY <1>11 DEF After, Stop, DropLocals
<1>12. CASE Reap
  BY <1>12 DEF Reap, Terminate
<1>13. CASE Settle
  BY <1>13 DEF Settle, Stop
<1>14. CASE Promote
  BY <1>14 DEF Promote, Stop
<1>15. CASE PromoteBoot
  BY <1>15 DEF PromoteBoot, Unlink, Spawn
<1>16. CASE PromotePass
  BY <1>16 DEF PromotePass, PromoteStatus
<1>17. CASE PromoteFail
  BY <1>17 DEF PromoteFail, PromoteStatus, Stop
<1>18. CASE Die
  BY <1>18 DEF Die, Terminate, Stop, DropLocals
<1>19. ASSUME NEW n \in Names, BootUp(n) PROVE CrownIsGenuine'
  BY <1>19 DEF BootUp, PickPort, OwnPort, chainRest
<1>20. ASSUME NEW n \in Names, Abort(n) PROVE CrownIsGenuine'
  BY <1>20 DEF Abort, chainRest
<1>21. ASSUME NEW n \in Names, Rerun(n) PROVE CrownIsGenuine'
  BY <1>21 DEF Rerun, chainRest
<1>22. ASSUME NEW n \in Names, OpenMarker(n) PROVE CrownIsGenuine'
  BY <1>22 DEF OpenMarker, chainRest
<1>23. ASSUME NEW n \in Names, WriteMarker(n) PROVE CrownIsGenuine'
  BY <1>23 DEF WriteMarker, chainRest
<1>24. ASSUME NEW n \in Names, NoMarker(n) PROVE CrownIsGenuine'
  BY <1>24 DEF NoMarker, chainRest
<1>25. ASSUME NEW n \in Names, Exit(n) PROVE CrownIsGenuine'
  BY <1>25 DEF Exit, chainRest
<1>26. CASE UNCHANGED vars
  BY <1>26
<1> HIDE DEF TypeOK, RaceInv, ChainInv, FieldInv, LoopInv, InLoop, CrownIsGenuine, Names,
     Cands, Base, Nobody, vars, loopVars, promoVars, feedVars, envVars
<1> QED
  BY <1>1, <1>2, <1>3, <1>4, <1>5, <1>6, <1>7, <1>8, <1>9, <1>10, <1>11, <1>12, <1>13,
       <1>14, <1>15, <1>16, <1>17, <1>18, <1>19, <1>20, <1>21, <1>22, <1>23, <1>24, <1>25,
       <1>26 DEF Next, Coordinator, RunnerStep, Returned

(* promote() boots the base only under a crown and after the winner's VM   *)
(* is stopped, and cannot miss a pass of a runner that has ended.          *)
LEMMA PromotionStep == TypeOK /\ TypeOK' /\ RaceInv /\ [Next]_vars => PromotionInv'
<1> SUFFICES ASSUME TypeOK, TypeOK', RaceInv, [Next]_vars PROVE PromotionInv'
  OBVIOUS
<1> USE DEF TypeOK, RaceInv, ChainInv, FieldInv, LoopInv, InLoop, CrownIsGenuine,
     PromotionInv, PromotionIsGenuine, Unpromoted, Names, Cands, Base, Nobody, vars,
     loopVars, promoVars, feedVars, envVars
<1>1. CASE \/ Leave \/ JudgeWinner \/ EndTick \/ PortFree \/ PortLapse \/ PromoteWait
           \/ Gone \/ ScoutRoute \/ ScoutExit
  BY <1>1 DEF Leave, JudgeWinner, EndTick, PortFree, PortLapse, PromoteWait, Gone, chainRest,
       ScoutRoute, ScoutExit
<1>2. CASE Enter
  BY <1>2 DEF Enter, Unlink
<1>3. CASE Drain
  BY <1>3 DEF Drain, Unlink
<1>4. CASE Boot
  BY <1>4 DEF Boot, HeadOf, Spawn
<1>5. CASE NoBoot
  BY <1>5 DEF NoBoot, AfterPoll
<1>6. ASSUME NEW c \in Cands, PollOpen(c) PROVE PromotionInv'
  BY <1>6 DEF PollOpen, AfterPoll
<1>7. ASSUME NEW c \in Cands, PollVerdict(c) PROVE PromotionInv'
  BY <1>7 DEF PollVerdict, AfterPoll, Terminate
<1>8. CASE JudgeDeadline
  BY <1>8 DEF JudgeDeadline, Terminate
<1>9. CASE FlushBand
  BY <1>9 DEF FlushBand, Terminate
<1>10. CASE PopBand
  BY <1>10 DEF PopBand, NextBand, HeadOf, InGroup
<1>11. CASE After
  BY <1>11 DEF After, Stop, DropLocals
<1>12. CASE Reap
  BY <1>12 DEF Reap, Terminate
<1>13. CASE Settle
  BY <1>13 DEF Settle, Stop
<1>14. CASE Promote
  BY <1>14 DEF Promote, Stop
<1>15. CASE PromoteBoot
  BY <1>15 DEF PromoteBoot, Unlink, Spawn
<1>16. CASE PromotePass
  BY <1>16 DEF PromotePass, PromoteStatus
<1>17. CASE PromoteFail
  BY <1>17 DEF PromoteFail, PromoteStatus, Stop
<1>18. CASE Die
  BY <1>18 DEF Die, Terminate, Stop, DropLocals
<1>19. ASSUME NEW n \in Names, BootUp(n) PROVE PromotionInv'
  BY <1>19 DEF BootUp, PickPort, OwnPort, chainRest
<1>20. ASSUME NEW n \in Names, Abort(n) PROVE PromotionInv'
  BY <1>20 DEF Abort, chainRest
<1>21. ASSUME NEW n \in Names, Rerun(n) PROVE PromotionInv'
  BY <1>21 DEF Rerun, chainRest
<1>22. ASSUME NEW n \in Names, OpenMarker(n) PROVE PromotionInv'
  <2>1. /\ chain[n] = "verify" /\ decided[n] = "none" /\ proc[n] # "none"
        /\ UNCHANGED <<pc, proc, vm, winner, saved, port, lapsed>>
        /\ chain' = [chain EXCEPT ![n] = "write"]
        /\ \A m \in Names \ {n} : /\ marker'[m] = marker[m]
                                   /\ decided'[m] = decided[m]
                                   /\ chain'[m] = chain[m]
    BY <1>22 DEF OpenMarker, chainRest
  <2>2. CASE n = Base
    BY <2>1, <2>2
  <2>3. CASE n # Base
    BY <2>1, <2>3
  <2> QED
    BY <2>2, <2>3
<1>23. ASSUME NEW n \in Names, WriteMarker(n) PROVE PromotionInv'
  BY <1>23 DEF WriteMarker, chainRest
<1>24. ASSUME NEW n \in Names, NoMarker(n) PROVE PromotionInv'
  BY <1>24 DEF NoMarker, chainRest
<1>25. ASSUME NEW n \in Names, Exit(n) PROVE PromotionInv'
  BY <1>25 DEF Exit, chainRest
<1>26. CASE UNCHANGED vars
  BY <1>26
<1> HIDE DEF TypeOK, RaceInv, ChainInv, FieldInv, LoopInv, InLoop, CrownIsGenuine,
     PromotionInv, PromotionIsGenuine, Unpromoted, Names, Cands, Base, Nobody, vars,
     loopVars, promoVars, feedVars, envVars
<1> QED
  BY <1>1, <1>2, <1>3, <1>4, <1>5, <1>6, <1>7, <1>8, <1>9, <1>10, <1>11, <1>12, <1>13,
       <1>14, <1>15, <1>16, <1>17, <1>18, <1>19, <1>20, <1>21, <1>22, <1>23, <1>24, <1>25,
       <1>26 DEF Next, Coordinator, RunnerStep, Returned

(* save_winner and the return code 0 come together, after a pass.          *)
LEMMA SavedStep == TypeOK /\ TypeOK' /\ RaceInv /\ [Next]_vars => PromotionIsGenuine'
<1> SUFFICES ASSUME TypeOK, TypeOK', RaceInv, [Next]_vars PROVE PromotionIsGenuine'
  OBVIOUS
<1> USE DEF TypeOK, RaceInv, ChainInv, PromotionInv, PromotionIsGenuine, Names, Cands, Base,
     Nobody, vars, loopVars, promoVars, feedVars, envVars
<1>1. CASE \/ Leave \/ JudgeWinner \/ EndTick \/ PortFree \/ PortLapse \/ PromoteWait
           \/ Gone \/ ScoutRoute \/ ScoutExit
  BY <1>1 DEF Leave, JudgeWinner, EndTick, PortFree, PortLapse, PromoteWait, Gone, chainRest,
       ScoutRoute, ScoutExit
<1>2. CASE Enter
  BY <1>2 DEF Enter, Unlink
<1>3. CASE Drain
  BY <1>3 DEF Drain, Unlink
<1>4. CASE Boot
  BY <1>4 DEF Boot, HeadOf, Spawn
<1>5. CASE NoBoot
  BY <1>5 DEF NoBoot, AfterPoll
<1>6. ASSUME NEW c \in Cands, PollOpen(c) PROVE PromotionIsGenuine'
  BY <1>6 DEF PollOpen, AfterPoll
<1>7. ASSUME NEW c \in Cands, PollVerdict(c) PROVE PromotionIsGenuine'
  BY <1>7 DEF PollVerdict, AfterPoll, Terminate
<1>8. CASE JudgeDeadline
  BY <1>8 DEF JudgeDeadline, Terminate
<1>9. CASE FlushBand
  BY <1>9 DEF FlushBand, Terminate
<1>10. CASE PopBand
  BY <1>10 DEF PopBand, NextBand, HeadOf, InGroup
<1>11. CASE After
  BY <1>11 DEF After, Stop, DropLocals
<1>12. CASE Reap
  BY <1>12 DEF Reap, Terminate
<1>13. CASE Settle
  BY <1>13 DEF Settle, Stop
<1>14. CASE Promote
  BY <1>14 DEF Promote, Stop
<1>15. CASE PromoteBoot
  BY <1>15 DEF PromoteBoot, Unlink, Spawn
<1>16. CASE PromotePass
  BY <1>16 DEF PromotePass, PromoteStatus
<1>17. CASE PromoteFail
  BY <1>17 DEF PromoteFail, PromoteStatus, Stop
<1>18. CASE Die
  BY <1>18 DEF Die, Terminate, Stop, DropLocals
<1>19. ASSUME NEW n \in Names, BootUp(n) PROVE PromotionIsGenuine'
  BY <1>19 DEF BootUp, PickPort, OwnPort, chainRest
<1>20. ASSUME NEW n \in Names, Abort(n) PROVE PromotionIsGenuine'
  BY <1>20 DEF Abort, chainRest
<1>21. ASSUME NEW n \in Names, Rerun(n) PROVE PromotionIsGenuine'
  BY <1>21 DEF Rerun, chainRest
<1>22. ASSUME NEW n \in Names, OpenMarker(n) PROVE PromotionIsGenuine'
  BY <1>22 DEF OpenMarker, chainRest
<1>23. ASSUME NEW n \in Names, WriteMarker(n) PROVE PromotionIsGenuine'
  BY <1>23 DEF WriteMarker, chainRest
<1>24. ASSUME NEW n \in Names, NoMarker(n) PROVE PromotionIsGenuine'
  BY <1>24 DEF NoMarker, chainRest
<1>25. ASSUME NEW n \in Names, Exit(n) PROVE PromotionIsGenuine'
  BY <1>25 DEF Exit, chainRest
<1>26. CASE UNCHANGED vars
  BY <1>26
<1> HIDE DEF TypeOK, RaceInv, ChainInv, PromotionInv, PromotionIsGenuine, Names, Cands,
     Base, Nobody, vars, loopVars, promoVars, feedVars, envVars
<1> QED
  BY <1>1, <1>2, <1>3, <1>4, <1>5, <1>6, <1>7, <1>8, <1>9, <1>10, <1>11, <1>12, <1>13,
       <1>14, <1>15, <1>16, <1>17, <1>18, <1>19, <1>20, <1>21, <1>22, <1>23, <1>24, <1>25,
       <1>26 DEF Next, Coordinator, RunnerStep, Returned

(* When race() is entered nothing has booted.                              *)
LEMMA RaceInvInit == Init => RaceInv
<1> SUFFICES ASSUME Init PROVE RaceInv
  OBVIOUS
<1> USE RaceAssumption DEF Init, Names, Cands, Base, Nobody
<1>1. ChainInv /\ FieldInv
  BY DEF ChainInv, FieldInv
<1>2. LoopInv /\ CrownIsGenuine
  BY DEF LoopInv, LiveRunnersTracked, InLoop, CrownIsGenuine
<1>3. PromotionInv /\ PromotionIsGenuine
  BY DEF PromotionInv, PromotionIsGenuine, Unpromoted
<1> QED
  BY <1>1, <1>2, <1>3 DEF RaceInv

(* The inductive invariant holds in every state of every race.             *)
THEOREM RaceInvariance == Spec => [](TypeOK /\ RaceInv)
<1>1. Init => TypeOK /\ RaceInv
  BY TypeInit, RaceInvInit
<1>2. TypeOK /\ RaceInv /\ [Next]_vars => (TypeOK /\ RaceInv)'
  BY TypeStep, ChainStep, FieldStep, LoopStep, CrownStep, PromotionStep, SavedStep DEF RaceInv
<1> QED
  BY <1>1, <1>2, PTL DEF Spec

(* Whatever the number of candidates, whatever the markers of earlier runs *)
(* say and whenever the loop polls: the winner's own verify stage passed   *)
(* and its runner has ended.                                               *)
THEOREM CrownTheorem == Spec => []CrownIsGenuine
<1>1. RaceInv => CrownIsGenuine
  BY DEF RaceInv
<1> QED
  BY <1>1, RaceInvariance, PTL

(* running and running_state never lose a live runner while the loop runs. *)
THEOREM TrackedTheorem == Spec => []LiveRunnersTracked
<1>1. RaceInv => LiveRunnersTracked
  BY DEF RaceInv, LoopInv
<1> QED
  BY <1>1, RaceInvariance, PTL

(* Success is reported, and the winner cached, only after a pass of the    *)
(* canonical name's own boot in the attempt that ends the promotion.       *)
THEOREM PromotionTheorem == Spec => []PromotionIsGenuine
<1>1. RaceInv => PromotionIsGenuine
  BY DEF RaceInv
<1> QED
  BY <1>1, RaceInvariance, PTL

(* The canonical name never boots or runs beside a winner's VM that is up, *)
(* nor, unless the wait for it ran out, beside one that holds the port.    *)
THEOREM ReleasedTheorem == Spec => []WinnerReleased
<1>1. RaceInv => WinnerReleased
  BY DEF RaceInv, ChainInv, PromotionInv, WinnerReleased, Names
<1> QED
  BY <1>1, RaceInvariance, PTL

-----------------------------------------------------------------------------
(* The race implements its contract.                                       *)

(* A race starts where its contract starts.                                *)
LEMMA ContractInit == Init => Contract!Init
BY DEF Init, Contract!Init, Outcome, Nobody

(* A runner starts only under a name whose last boot did not pass, and a   *)
(* verify stage that passes is a Pass of the contract.                     *)
LEMMA ContractStep == TypeOK /\ TypeOK' /\ RaceInv /\ RaceInv' /\ [Next]_vars
                          => [Contract!Next]_(Contract!cvars)
<1> SUFFICES ASSUME TypeOK, TypeOK', RaceInv, RaceInv', [Next]_vars
             PROVE  Contract!Next \/ UNCHANGED Contract!cvars
  OBVIOUS
<1> USE DEF TypeOK, RaceInv, Names, Cands, Base, Nobody, vars, loopVars, promoVars,
     feedVars, envVars,
            Contract!cvars, Outcome
<1>1. CASE \/ Leave \/ JudgeWinner \/ EndTick \/ PortFree \/ PortLapse \/ PromoteWait
           \/ Gone \/ ScoutRoute \/ ScoutExit
  BY <1>1 DEF Leave, JudgeWinner, EndTick, PortFree, PortLapse, PromoteWait, Gone, chainRest,
       ScoutRoute, ScoutExit
<1>2. CASE Enter
  BY <1>2 DEF Enter, Unlink
<1>3. CASE Drain
  BY <1>3 DEF Drain, Unlink
<1>4. CASE Boot
  BY <1>4 DEF Boot, HeadOf, Spawn, ChainInv, FieldInv
<1>5. CASE NoBoot
  BY <1>5 DEF NoBoot, AfterPoll
<1>6. ASSUME NEW c \in Cands, PollOpen(c) PROVE Contract!Next \/ UNCHANGED Contract!cvars
  BY <1>6 DEF PollOpen, AfterPoll
<1>7. ASSUME NEW c \in Cands, PollVerdict(c) PROVE Contract!Next \/ UNCHANGED Contract!cvars
  BY <1>7 DEF PollVerdict, AfterPoll, Terminate, LoopInv, CrownIsGenuine, Contract!Next,
       Contract!Elect
<1>8. CASE JudgeDeadline
  BY <1>8 DEF JudgeDeadline, Terminate
<1>9. CASE FlushBand
  BY <1>9 DEF FlushBand, Terminate
<1>10. CASE PopBand
  BY <1>10 DEF PopBand, NextBand, HeadOf, InGroup
<1>11. CASE After
  BY <1>11 DEF After, Stop, DropLocals, PromotionIsGenuine, Contract!Next, Contract!Lose,
       PromotionInv
<1>12. CASE Reap
  BY <1>12 DEF Reap, Terminate
<1>13. CASE Settle
  BY <1>13 DEF Settle, Stop
<1>14. CASE Promote
  BY <1>14 DEF Promote, Stop
<1>15. CASE PromoteBoot
  BY <1>15 DEF PromoteBoot, Unlink, Spawn, PromotionInv
<1>16. CASE PromotePass
  BY <1>16 DEF PromotePass, PromoteStatus, PromotionInv, PromotionIsGenuine, Contract!Next,
       Contract!Win
<1>17. CASE PromoteFail
  BY <1>17 DEF PromoteFail, PromoteStatus, Stop, PromotionInv, PromotionIsGenuine,
       Contract!Next, Contract!Lose
<1>18. CASE Die
  BY <1>18 DEF Die, Terminate, Stop, DropLocals, PromotionInv, Contract!Next, Contract!Kill
<1>19. ASSUME NEW n \in Names, BootUp(n) PROVE Contract!Next \/ UNCHANGED Contract!cvars
  BY <1>19 DEF BootUp, PickPort, OwnPort, chainRest
<1>20. ASSUME NEW n \in Names, Abort(n) PROVE Contract!Next \/ UNCHANGED Contract!cvars
  BY <1>20 DEF Abort, chainRest
<1>21. ASSUME NEW n \in Names, Rerun(n) PROVE Contract!Next \/ UNCHANGED Contract!cvars
  BY <1>21 DEF Rerun, chainRest
<1>22. ASSUME NEW n \in Names, OpenMarker(n) PROVE Contract!Next \/ UNCHANGED Contract!cvars
  BY <1>22 DEF OpenMarker, chainRest, ChainInv, Contract!Next, Contract!Pass
<1>23. ASSUME NEW n \in Names, WriteMarker(n) PROVE Contract!Next \/ UNCHANGED Contract!cvars
  BY <1>23 DEF WriteMarker, chainRest
<1>24. ASSUME NEW n \in Names, NoMarker(n) PROVE Contract!Next \/ UNCHANGED Contract!cvars
  BY <1>24 DEF NoMarker, chainRest
<1>25. ASSUME NEW n \in Names, Exit(n) PROVE Contract!Next \/ UNCHANGED Contract!cvars
  BY <1>25 DEF Exit, chainRest
<1>26. CASE UNCHANGED vars
  BY <1>26
<1> QED
  BY <1>1, <1>2, <1>3, <1>4, <1>5, <1>6, <1>7, <1>8, <1>9, <1>10, <1>11, <1>12, <1>13,
       <1>14, <1>15, <1>16, <1>17, <1>18, <1>19, <1>20, <1>21, <1>22, <1>23, <1>24, <1>25,
       <1>26 DEF Next, Coordinator, RunnerStep, Returned

(* Every behaviour of the race is one of the contract: at most one crown,  *)
(* for a candidate that passed, and success only by a pass of the base.    *)
THEOREM ContractTheorem == Spec => ImplementsCrown
BY ContractInit, ContractStep, RaceInvariance, PTL DEF Spec, Contract!Spec, ImplementsCrown

-----------------------------------------------------------------------------
(* Each runner implements Chain.                                           *)

(* A runner starts where its contract starts, under any marker.            *)
LEMMA RunnerInit == Init => \A n \in Names : RunnerOf(n)!Init
BY RaceAssumption DEF Init, RunnerOf!Init

(* What a step does to the phase, the turn and the word of name m, stated  *)
(* of the chain and the marker: the steps of Chain, or a stutter.          *)
Links(m) ==
    \/ chain'[m] = "build" /\ turn'[m] = 1 /\ marker'[m] = "none"
    \/ /\ chain[m] = "build" /\ chain'[m] = "verify"
       /\ turn'[m] = turn[m] /\ marker'[m] = marker[m]
    \/ /\ chain[m] = "verify" /\ turn[m] < Turns /\ chain'[m] = "build"
       /\ turn'[m] = turn[m] + 1 /\ marker'[m] = marker[m]
    \/ /\ chain[m] = "verify" /\ chain'[m] = "write"
       /\ turn'[m] = turn[m] /\ marker[m] = "none" /\ marker'[m] = "empty"
    \/ /\ chain[m] = "write" /\ chain'[m] = "exit"
       /\ turn'[m] = turn[m] /\ marker'[m] \in {"pass", "fail"}
    \/ /\ chain'[m] \in {chain[m], "exit", "idle"}
       /\ turn'[m] = turn[m] /\ marker'[m] \in {marker[m], "none"}

(* Such a step is a step of Chain, or none.                                *)
LEMMA LinkIsOfChain ==
    ASSUME NEW m \in Names, TypeOK, TypeOK', Links(m)
    PROVE  RunnerOf(m)!Next \/ UNCHANGED RunnerOf(m)!chvars
<1> /\ {chain[m], chain'[m]} \subseteq {"idle", "build", "verify", "write", "exit"}
    /\ {marker[m], marker'[m]} \subseteq {"none", "empty", "pass", "fail"}
  BY DEF TypeOK
<1> QED
  BY DEF Links, RunnerOf!Next, RunnerOf!chvars, RunnerOf!Start, RunnerOf!Up,
         RunnerOf!Again, RunnerOf!Decide, RunnerOf!Cut

(* Every step of the race, of a runner or of the scout is one, for every   *)
(* name: what the queue or a band holds has a clean marker, and so has     *)
(* whatever boots or verifies.                                             *)
LEMMA RunnerChainStep ==
    ASSUME TypeOK, TypeOK', RaceInv, [Next]_vars, NEW m \in Names
    PROVE  Links(m)
<1> USE DEF TypeOK, RaceInv, ChainInv, Names, Cands, Base, Nobody, vars, loopVars,
     promoVars, feedVars, envVars, Links
<1>1. CASE \/ Leave \/ JudgeWinner \/ EndTick \/ PortFree \/ PortLapse \/ PromoteWait
           \/ Gone \/ ScoutRoute \/ ScoutExit
  BY <1>1 DEF Leave, JudgeWinner, EndTick, PortFree, PortLapse, PromoteWait, Gone, chainRest,
       ScoutRoute, ScoutExit
<1>2. CASE Enter
  BY <1>2 DEF Enter, Unlink
<1>3. CASE Drain
  BY <1>3 DEF Drain, Unlink
<1>4. CASE Boot
  BY <1>4 DEF Boot, HeadOf, Spawn, FieldInv
<1>5. CASE NoBoot
  BY <1>5 DEF NoBoot, AfterPoll
<1>6. ASSUME NEW c \in Cands, PollOpen(c) PROVE Links(m)
  BY <1>6 DEF PollOpen, AfterPoll
<1>7. ASSUME NEW c \in Cands, PollVerdict(c) PROVE Links(m)
  BY <1>7 DEF PollVerdict, AfterPoll, Terminate
<1>8. CASE JudgeDeadline
  BY <1>8 DEF JudgeDeadline, Terminate
<1>9. CASE FlushBand
  BY <1>9 DEF FlushBand, Terminate
<1>10. CASE PopBand
  BY <1>10 DEF PopBand
<1>11. CASE After
  BY <1>11 DEF After, Stop
<1>12. CASE Reap
  BY <1>12 DEF Reap, Terminate
<1>13. CASE Settle
  BY <1>13 DEF Settle, Stop
<1>14. CASE Promote
  BY <1>14 DEF Promote, Stop
<1>15. CASE PromoteBoot
  BY <1>15 DEF PromoteBoot, Unlink, Spawn
<1>16. CASE PromotePass
  BY <1>16 DEF PromotePass
<1>17. CASE PromoteFail
  BY <1>17 DEF PromoteFail, Stop
<1>18. CASE Die
  BY <1>18 DEF Die, Terminate, Stop
<1>19. ASSUME NEW n \in Names, BootUp(n) PROVE Links(m)
  BY <1>19 DEF BootUp, PickPort, OwnPort, chainRest
<1>20. ASSUME NEW n \in Names, Abort(n) PROVE Links(m)
  BY <1>20 DEF Abort, chainRest
<1>21. ASSUME NEW n \in Names, Rerun(n) PROVE Links(m)
  BY <1>21 DEF Rerun, chainRest
<1>22. ASSUME NEW n \in Names, OpenMarker(n) PROVE Links(m)
  BY <1>22 DEF OpenMarker, chainRest
<1>23. ASSUME NEW n \in Names, WriteMarker(n) PROVE Links(m)
  BY <1>23 DEF WriteMarker, chainRest
<1>24. ASSUME NEW n \in Names, NoMarker(n) PROVE Links(m)
  BY <1>24 DEF NoMarker, chainRest
<1>25. ASSUME NEW n \in Names, Exit(n) PROVE Links(m)
  BY <1>25 DEF Exit, chainRest
<1>26. CASE UNCHANGED vars
  BY <1>26
<1> HIDE DEF TypeOK, RaceInv, ChainInv, Names, Cands, Base, Nobody, vars, loopVars,
     promoVars, feedVars, envVars, Links
<1> QED
  BY <1>1, <1>2, <1>3, <1>4, <1>5, <1>6, <1>7, <1>8, <1>9, <1>10, <1>11, <1>12, <1>13,
       <1>14, <1>15, <1>16, <1>17, <1>18, <1>19, <1>20, <1>21, <1>22, <1>23, <1>24, <1>25,
       <1>26 DEF Next, Coordinator, RunnerStep, Returned

(* Every name's runner is a chain as Stage implements it: no run starts    *)
(* under an earlier one's marker, turns are bounded, one word at the end.  *)
THEOREM RunnerTheorem == Spec => ImplementsChain
<1>1. RaceInv /\ RaceInv' /\ TypeOK /\ TypeOK' /\ [Next]_vars
        => [\A n \in Names : RunnerOf(n)!Next \/ UNCHANGED RunnerOf(n)!chvars]_vars
  BY RunnerChainStep, LinkIsOfChain
<1>2. QED
  BY RunnerInit, <1>1, RaceInvariance, PTL DEF Spec, ImplementsChain
=============================================================================
