----------------------------- MODULE TickProofs -----------------------------
(***************************************************************************)
(* How a race gets on, for every number of candidates, slots and tries:    *)
(* a pass whose runner has exited stands until it is crowned, and nothing  *)
(* but the tick of an undecided race and the promotion's attempts is done  *)
(* again.                                                                  *)
(***************************************************************************)
EXTENDS RaceProofs

(* Who may still boot or runs has no verdict; when the loop is left        *)
(* without a crown, whatever ran was failed by the deadline.               *)
Undecided ==
    /\ InLoop => \A c \in queue \cup running : verdict[c] = "none"
    /\ \A c \in Cands :
          /\ c > nkeep \/ pc = "enter" => verdict[c] = "none"
          /\ c <= field /\ Band[c] \in bandsLeft => verdict[c] = "none"
    /\ pc = "after" /\ winner = Nobody => \A c \in running : verdict[c] = "deadline"

(* No attempt is counted before the promotion.                             *)
Unattempted == pc \in Unpromoted => attempt = 0

-----------------------------------------------------------------------------
(* A race is entered without a verdict and without an attempt.             *)
LEMMA TickInit == Init => Undecided /\ Unattempted
BY RaceAssumption DEF Init, Undecided, Unattempted, InLoop, Cands, Names

(* A verdict is given to who runs or waits, and with it the loop forgets   *)
(* the candidate; no band to come holds it.                                *)
LEMMA UndecidedStep ==
    ASSUME TypeOK, TypeOK', RaceInv, Undecided, [Next]_vars
    PROVE  Undecided'
<1> USE DEF TypeOK, RaceInv, ChainInv, FieldInv, LoopInv, PromotionInv, InLoop, Names,
            Cands, Base, Nobody, vars, loopVars, promoVars, feedVars, envVars,
            Undecided
<1>1. CASE Enter
  BY <1>1 DEF Enter, Unlink
<1>2. CASE Leave
  BY <1>2 DEF Leave, Looping
<1>3. CASE Drain
  BY <1>3 DEF Drain, Unlink
<1>4. CASE Boot
  BY <1>4 DEF Boot, HeadOf, Spawn
<1>5. CASE NoBoot
  BY <1>5 DEF NoBoot, AfterPoll
<1>6. ASSUME NEW d \in Cands, PollOpen(d) PROVE Undecided'
  BY <1>6 DEF PollOpen, AfterPoll, Findings, Provisional, Status
<1>7. ASSUME NEW d \in Cands, PollVerdict(d) PROVE Undecided'
  BY <1>7 DEF PollVerdict, AfterPoll, Findings, Status, Terminate
<1>8. CASE JudgeWinner
  BY <1>8 DEF JudgeWinner
<1>9. CASE JudgeDeadline
  BY <1>9 DEF JudgeDeadline, Terminate
<1>10. CASE FlushBand
  <2>1. /\ pc = "judge" /\ pc' = "flushed" /\ queue' = {} /\ running' = {}
        /\ UNCHANGED <<field, nkeep, bandsLeft>>
        /\ \A c \in Cands : c \notin running \cup queue => verdict'[c] = verdict[c]
    BY <1>10 DEF FlushBand
  <2>2. \A c \in Cands : c > nkeep \/ (c <= field /\ Band[c] \in bandsLeft)
                          => c \notin running \cup queue /\ verdict[c] = "none"
    BY <1>10 DEF FlushBand
  <2> HIDE DEF TypeOK, RaceInv, ChainInv, FieldInv, LoopInv, PromotionInv, Names, Cands
  <2> QED
    BY <2>1, <2>2
<1>11. CASE PopBand
  <2>1. PICK b \in bandsLeft : queue' = InGroup(b) /\ bandsLeft' = bandsLeft \ {b}
    BY <1>11 DEF PopBand, NextBand, HeadOf
  <2>2. /\ pc \in {"judge", "flushed"} /\ pc' = "top"
        /\ running = {} /\ UNCHANGED <<field, nkeep, verdict, running>>
    BY <1>11 DEF PopBand
  <2>3. field \in Cands
    OBVIOUS
  <2>4. \A c \in queue' : c \in Cands /\ c <= field /\ Band[c] \in bandsLeft
    BY <2>1, <2>3, RaceAssumption DEF InGroup
  <2> HIDE DEF TypeOK, RaceInv, ChainInv, FieldInv, LoopInv, PromotionInv, Names, Cands
  <2> QED
    BY <2>1, <2>2, <2>4
<1>12. CASE EndTick
  BY <1>12 DEF EndTick, FieldSpent
<1>13. CASE After
  BY <1>13 DEF After, Stop, DropLocals
<1>14. CASE Reap
  BY <1>14 DEF Reap, Terminate
<1>15. CASE Settle
  BY <1>15 DEF Settle, Stop
<1>16. CASE Promote
  BY <1>16 DEF Promote, Stop
<1>17. CASE PromoteBoot
  BY <1>17 DEF PromoteBoot, Unlink, Spawn
<1>18. CASE PortFree \/ PortLapse \/ PromoteWait
  BY <1>18 DEF PortFree, PortLapse, PromoteWait
<1>19. CASE PromotePass
  BY <1>19 DEF PromotePass
<1>20. CASE PromoteFail
  BY <1>20 DEF PromoteFail, Stop
<1>21. CASE Die
  BY <1>21 DEF Die, Terminate, Stop, DropLocals
<1>22. CASE Gone \/ ScoutRoute
  BY <1>22 DEF Gone, ScoutRoute, chainRest
<1>23. CASE ScoutExit
  BY <1>23 DEF ScoutExit
<1>24. ASSUME NEW n \in Names, RunnerStep(n) PROVE Undecided'
  <2>1. UNCHANGED chainRest
    BY <1>24 DEF RunnerStep, BootUp, PickPort, OwnPort, Abort, Rerun,
                 OpenMarker, WriteMarker, NoMarker, Exit
  <2> QED
    BY <2>1 DEF chainRest
<1>25. CASE UNCHANGED vars
  BY <1>25
<1> HIDE DEF TypeOK, RaceInv, ChainInv, FieldInv, LoopInv, PromotionInv, InLoop,
             Names, Cands, Base, Nobody, vars, loopVars, promoVars, feedVars, envVars,
             Undecided
<1> QED
  BY <1>1, <1>2, <1>3, <1>4, <1>5, <1>6, <1>7, <1>8, <1>9, <1>10, <1>11, <1>12, <1>13,
     <1>14, <1>15, <1>16, <1>17, <1>18, <1>19, <1>20, <1>21, <1>22, <1>23, <1>24,
     <1>25 DEF Next, Coordinator, Returned

(* The count of attempts starts with the promotion.                        *)
LEMMA UnattemptedStep ==
    ASSUME TypeOK, Unattempted, [Next]_vars
    PROVE  Unattempted'
<1>1. CASE UNCHANGED vars
  BY <1>1 DEF Unattempted, vars, promoVars
<1>2. CASE pc \in Unpromoted \ {"free"} /\ attempt' = attempt
  BY <1>2 DEF Unattempted, Unpromoted
<1>3. CASE pc' \notin Unpromoted
  BY <1>3 DEF Unattempted
<1>4. CASE pc' = pc /\ attempt' = attempt
  BY <1>4 DEF Unattempted
<1> QED
  BY <1>1, <1>2, <1>3, <1>4
     DEF Next, Coordinator, Returned, RunnerStep, Enter, Leave, Drain, Boot, NoBoot,
         PollOpen, PollVerdict, JudgeWinner, JudgeDeadline, FlushBand, PopBand, EndTick,
         After, Reap, Settle, Promote, PortFree, PortLapse, PromoteBoot, PromoteWait, PromotePass,
         PromoteFail, Die, BootUp, Abort, Rerun, OpenMarker, WriteMarker, NoMarker, Exit,
         Gone, ScoutRoute, ScoutExit, chainRest, promoVars, AfterPoll, Unpromoted

(* Both hold throughout, beside RaceInv.                                   *)
THEOREM TickInvariance == Spec => [](Undecided /\ Unattempted)
<1>1. TypeOK /\ TypeOK' /\ RaceInv /\ Undecided /\ Unattempted /\ [Next]_vars
        => Undecided' /\ Unattempted'
  BY UndecidedStep, UnattemptedStep
<1> QED
  BY TickInit, <1>1, RaceInvariance, PTL DEF Spec

-----------------------------------------------------------------------------
(* The chain of a candidate whose runner has exited is over, so its marker *)
(* does not move; a poll that takes it up finds its pass.                  *)
LEMMA StandsStep ==
    ASSUME TypeOK, TypeOK', RaceInv, Undecided, [Next]_vars, NEW c \in Cands, Ripe(c)
    PROVE  \/ Ripe(c)' /\ (c \in topoll => c \in topoll')
           \/ winner' # Nobody
           \/ verdict'[c] \in {"deadline", "band"}
           \/ pc' = "dead"
<1> DEFINE Stands == Ripe(c)' /\ (c \in topoll => c \in topoll')
           Taken == \/ winner' # Nobody
                    \/ verdict'[c] \in {"deadline", "band"}
                    \/ pc' = "dead"
<1> USE DEF TypeOK, RaceInv, ChainInv, FieldInv, LoopInv, PromotionInv, InLoop, Names,
            Cands, Base, Nobody, vars, loopVars, promoVars, feedVars, envVars,
            Undecided, Ripe
<1>1. CASE Enter
  BY <1>1 DEF Enter, Unlink
<1>2. CASE Leave
  BY <1>2 DEF Leave, Looping
<1>3. CASE Drain
  BY <1>3 DEF Drain, Unlink
<1>4. CASE Boot
  BY <1>4 DEF Boot, HeadOf, Spawn
<1>5. CASE NoBoot
  BY <1>5 DEF NoBoot, AfterPoll
<1>6. ASSUME NEW d \in Cands, PollOpen(d) PROVE Stands \/ Taken
  BY <1>6 DEF PollOpen, AfterPoll, Findings, Provisional, Status
<1>7. ASSUME NEW d \in Cands, PollVerdict(d) PROVE Stands \/ Taken
  BY <1>7 DEF PollVerdict, AfterPoll, Findings, Provisional, Status, Terminate
<1>8. CASE JudgeWinner
  BY <1>8 DEF JudgeWinner
<1>9. CASE JudgeDeadline
  BY <1>9 DEF JudgeDeadline, Terminate
<1>10. CASE FlushBand
  BY <1>10 DEF FlushBand, Terminate
<1>11. CASE PopBand
  BY <1>11 DEF PopBand, NextBand, HeadOf, InGroup
<1>12. CASE EndTick
  BY <1>12 DEF EndTick, FieldSpent
<1>13. CASE After
  BY <1>13 DEF After, Stop, DropLocals
<1>14. CASE Reap
  BY <1>14 DEF Reap, Terminate
<1>15. CASE Settle
  BY <1>15 DEF Settle, Stop
<1>16. CASE Promote
  BY <1>16 DEF Promote, Stop
<1>17. CASE PromoteBoot
  BY <1>17 DEF PromoteBoot, Unlink, Spawn
<1>18. CASE PortFree \/ PortLapse \/ PromoteWait
  BY <1>18 DEF PortFree, PortLapse, PromoteWait
<1>19. CASE PromotePass
  BY <1>19 DEF PromotePass
<1>20. CASE PromoteFail
  BY <1>20 DEF PromoteFail, Stop
<1>21. CASE Die
  BY <1>21 DEF Die, Terminate, Stop, DropLocals
<1>22. CASE Gone \/ ScoutRoute
  BY <1>22 DEF Gone, ScoutRoute, chainRest
<1>23. CASE ScoutExit
  BY <1>23 DEF ScoutExit
<1>24. ASSUME NEW n \in Names, RunnerStep(n) PROVE Stands \/ Taken
  <2>1. n # c
    BY <1>24 DEF RunnerStep, BootUp, PickPort, OwnPort, Abort, Rerun,
                 OpenMarker, WriteMarker, NoMarker, Exit
  <2>2. /\ UNCHANGED <<running, topoll>>
        /\ marker'[c] = marker[c] /\ proc'[c] = proc[c]
    BY <1>24, <2>1 DEF RunnerStep, BootUp, PickPort, OwnPort, Abort, Rerun, OpenMarker, WriteMarker,
                   NoMarker, Exit, chainRest
  <2> QED
    BY <2>2
<1>25. CASE UNCHANGED vars
  BY <1>25
<1> HIDE DEF TypeOK, RaceInv, ChainInv, FieldInv, LoopInv, PromotionInv, InLoop,
             Names, Cands, Base, Nobody, vars, loopVars, promoVars, feedVars, envVars,
             Undecided, Ripe
<1> QED
  BY <1>1, <1>2, <1>3, <1>4, <1>5, <1>6, <1>7, <1>8, <1>9, <1>10, <1>11, <1>12, <1>13,
     <1>14, <1>15, <1>16, <1>17, <1>18, <1>19, <1>20, <1>21, <1>22, <1>23, <1>24,
     <1>25 DEF Next, Coordinator, Returned

(* A pass that may be crowned stands until a crown, a deadline or a signal *)
(* (the poll of race(), the shell's exit).                                 *)
THEOREM StandsTheorem == Spec => PassStands
<1>1. TypeOK /\ TypeOK' /\ RaceInv /\ Undecided /\ [Next]_vars =>
        [\A c \in Cands : Ripe(c) =>
            \/ Ripe(c)' /\ (c \in topoll => c \in topoll')
            \/ winner' # Nobody
            \/ verdict'[c] \in {"deadline", "band"}
            \/ pc' = "dead"]_vars
  BY StandsStep
<1> QED
  BY <1>1, TickInvariance, RaceInvariance, PTL DEF Spec, PassStands

-----------------------------------------------------------------------------
(* A step of the coordinator goes down in the order of its places, takes a *)
(* runner off the poll, counts an attempt or begins the next tick.         *)
LEMMA TickStep ==
    ASSUME TypeOK, TypeOK', RaceInv, Unattempted, [Next]_vars
    PROVE  \/ pc \in {"judge", "flushed"} /\ pc' = "top" /\ winner = Nobody
           \/ attempt' \in (attempt + 1)..Tries
           \/ attempt' = attempt /\ Rank' < Rank
           \/ /\ UNCHANGED <<attempt, pc>>
              /\ topoll' \subseteq topoll /\ topoll' # topoll
           \/ UNCHANGED <<pc, topoll>>
<1> DEFINE Tick == pc \in {"judge", "flushed"} /\ pc' = "top" /\ winner = Nobody
           Try == attempt' \in (attempt + 1)..Tries
           Down == attempt' = attempt /\ Rank' < Rank
           Polled == /\ UNCHANGED <<attempt, pc>>
                     /\ topoll' \subseteq topoll /\ topoll' # topoll
           Idle == UNCHANGED <<pc, topoll>>
<1> USE RaceAssumption DEF TypeOK, Unattempted, Unpromoted, loopVars, promoVars, Rank
<1>1. ASSUME Enter PROVE Down
  BY <1>1 DEF Enter
<1>2. ASSUME Leave PROVE Down
  BY <1>2 DEF Leave
<1>3. ASSUME Drain PROVE Down
  BY <1>3 DEF Drain
<1>4. ASSUME Boot PROVE Down
  BY <1>4 DEF Boot
<1>5. ASSUME NoBoot PROVE Down
  BY <1>5 DEF NoBoot, AfterPoll
<1>6. ASSUME NEW c \in Cands, PollOpen(c) PROVE Down \/ Polled
  BY <1>6 DEF PollOpen, AfterPoll
<1>7. ASSUME NEW c \in Cands, PollVerdict(c) PROVE Down \/ Polled
  BY <1>7 DEF PollVerdict, AfterPoll
<1>8. ASSUME JudgeWinner PROVE Down
  BY <1>8 DEF JudgeWinner
<1>9. ASSUME JudgeDeadline PROVE Down
  BY <1>9 DEF JudgeDeadline
<1>10. ASSUME FlushBand PROVE Down
  BY <1>10 DEF FlushBand
<1>11. ASSUME PopBand PROVE Tick
  BY <1>11 DEF PopBand
<1>12. ASSUME EndTick PROVE Tick \/ Down
  BY <1>12 DEF EndTick
<1>13. ASSUME After PROVE Down
  BY <1>13 DEF After
<1>14. ASSUME Reap PROVE Down
  BY <1>14 DEF Reap
<1>15. ASSUME Settle PROVE Down
  BY <1>15 DEF Settle
<1>16. ASSUME Promote \/ PortFree \/ PortLapse PROVE Try \/ Down
  BY <1>16 DEF Promote, PortFree, PortLapse
<1>17. ASSUME PromoteBoot PROVE Down
  BY <1>17 DEF PromoteBoot
<1>18. ASSUME PromoteWait PROVE Down
  BY <1>18 DEF PromoteWait
<1>19. ASSUME PromotePass PROVE Down
  BY <1>19 DEF PromotePass
<1>20. ASSUME PromoteFail PROVE Try \/ Down
  BY <1>20 DEF PromoteFail
<1>21. ASSUME Die PROVE Down
  BY <1>21 DEF Die
<1>22. ASSUME Gone \/ ScoutRoute PROVE Idle
  BY <1>22 DEF Gone, ScoutRoute, chainRest
<1>23. ASSUME ScoutExit PROVE Idle
  BY <1>23 DEF ScoutExit
<1>24. ASSUME NEW m \in Names, RunnerStep(m) PROVE Idle
  BY <1>24 DEF RunnerStep, BootUp, PickPort, OwnPort, Abort, Rerun,
                 OpenMarker, WriteMarker, NoMarker, Exit,
     chainRest
<1>25. ASSUME UNCHANGED vars PROVE Idle
  BY <1>25 DEF vars
<1>26. Tick \/ Try \/ Down \/ Polled \/ Idle
  <2> HIDE DEF Tick, Try, Down, Polled, Idle
  <2> QED
    BY <1>1, <1>2, <1>3, <1>4, <1>5, <1>6, <1>7, <1>8, <1>9, <1>10, <1>11, <1>12,
       <1>13, <1>14, <1>15, <1>16, <1>17, <1>18, <1>19, <1>20, <1>21, <1>22, <1>23,
       <1>24, <1>25 DEF Next, Coordinator, Returned
<1> QED
  BY <1>26

(* A tick is short, a crown or a deadline is the end of them, and the      *)
(* promotion is tried at most Tries times (race(), promote()).             *)
THEOREM TicksTheorem == Spec => OnlyTicksRepeat
<1>1. TypeOK /\ TypeOK' /\ RaceInv /\ Unattempted /\ [Next]_vars =>
        [\/ pc \in {"judge", "flushed"} /\ pc' = "top" /\ winner = Nobody
         \/ attempt' \in (attempt + 1)..Tries
         \/ attempt' = attempt /\ Rank' < Rank
         \/ /\ UNCHANGED <<attempt, pc>>
            /\ topoll' \subseteq topoll /\ topoll' # topoll]_<<pc, topoll>>
  BY TickStep
<1> QED
  BY <1>1, TickInvariance, RaceInvariance, PTL DEF Spec, OnlyTicksRepeat
=============================================================================
