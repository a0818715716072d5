---------------------------- MODULE FieldProofs -----------------------------
(***************************************************************************)
(* What a race does with its whole field, for every number of candidates,  *)
(* slots and bands: a race that gives up has judged everyone, bands are    *)
(* booted in order of cost, and no loser's VM is left up that had not to   *)
(* be cut off.                                                             *)
(***************************************************************************)
EXTENDS RaceProofs

(* Every candidate the race has taken in is somewhere: it waits, it runs,  *)
(* its band is still to come, or it has its verdict.                       *)
Accounted(c) == \/ c \in queue \cup running
                \/ c <= field /\ Band[c] \in bandsLeft
                \/ verdict[c] # "none"

FieldCounted ==
    /\ pc = "enter" => nkeep = field /\ queue = {}
    /\ InLoop => \A c \in 1..nkeep : Accounted(c)
    /\ pc = "after" /\ winner = Nobody /\ ~late =>
            \A c \in 1..nkeep : verdict[c] # "none"
    /\ ExhaustiveOnFailure

(* What waits in the queue of a tranche race has no cheaper rival without  *)
(* a verdict, among those the race was entered with.                       *)
QueueInOrder ==
    tranches => \A c \in queue \cap (1..field), d \in 1..field :
                    Band[d] < Band[c] => verdict[d] # "none"

(* Once the loop is left, what is still alive is known to running_state,   *)
(* and there is a winner; after the losers' runners were terminated and    *)
(* their VMs stopped, a VM rises only behind a terminated runner.          *)
Reaped ==
    /\ pc \in {"after", "reap"} =>
            \A c \in Cands : proc[c] = "live" => winner # Nobody /\ c \in watched
    /\ pc \in {"settle", "promote", "free", "boot", "wait", "read", "done"} =>
            \A c \in Cands : proc[c] # "live"
    /\ pc \in {"promote", "free", "boot", "wait", "read", "done"} =>
            \A c \in 1..nkeep \ {winner} : vm[c] => proc[c] = "killed"

FieldOutcome == FieldCounted /\ QueueInOrder /\ Reaped

-----------------------------------------------------------------------------
(* When the race is entered its field is what it was given, and nothing is *)
(* queued.                                                                 *)
LEMMA FieldInit == Init => FieldOutcome
BY RaceAssumption DEF Init, FieldOutcome, FieldCounted, QueueInOrder, Reaped,
                      ExhaustiveOnFailure, InLoop, Cands, Names

(* The initial field is part of what the race holds; all of it are names.   *)
LEMMA FieldRanges == TypeOK => /\ 1..field \subseteq 1..nkeep
                               /\ 1..nkeep \subseteq Cands
                               /\ Cands \subseteq Names
<1> SUFFICES ASSUME TypeOK PROVE 1..field \subseteq 1..nkeep /\ 1..nkeep \subseteq Cands
  BY DEF Names
<1>1. field \in 1..MaxCands /\ nkeep \in field..MaxCands
  BY DEF TypeOK, Cands
<1> QED
  BY <1>1, RaceAssumption DEF Cands

(* No candidate is lost between the queue, the runners, the bands and the  *)
(* scout's file.                                                           *)
LEMMA FieldCountedStep ==
    TypeOK /\ TypeOK' /\ RaceInv /\ FieldOutcome /\ [Next]_vars => FieldCounted'
<1> SUFFICES ASSUME TypeOK, TypeOK', RaceInv, FieldOutcome, [Next]_vars
             PROVE  FieldCounted'
  OBVIOUS
<1> USE DEF TypeOK, RaceInv, FieldOutcome, Names, Cands, Base, Nobody, vars, loopVars,
            promoVars, feedVars, envVars, FieldCounted, Accounted,
            ExhaustiveOnFailure, InLoop, PromotionInv
<1>1. CASE Leave
  BY <1>1 DEF Leave, Looping
<1>2. CASE \/ JudgeWinner \/ PortFree \/ PortLapse \/ PromoteWait
           \/ Gone \/ ScoutRoute \/ ScoutExit
  BY <1>2 DEF JudgeWinner, PortFree, PortLapse, PromoteWait, Gone, chainRest,
       ScoutRoute, ScoutExit
<1>3. CASE EndTick
  BY <1>3 DEF EndTick, FieldSpent
<1>4. CASE Enter
  BY <1>4 DEF Enter, Unlink
<1>5. CASE Drain
  BY <1>5 DEF Drain, Unlink
<1>6. CASE Boot
  BY <1>6 DEF Boot, HeadOf, Spawn
<1>7. CASE NoBoot
  BY <1>7 DEF NoBoot, AfterPoll
<1>8. ASSUME NEW c \in Cands, PollOpen(c) PROVE FieldCounted'
  BY <1>8 DEF PollOpen, AfterPoll
<1>9. ASSUME NEW c \in Cands, PollVerdict(c) PROVE FieldCounted'
  BY <1>9 DEF PollVerdict, AfterPoll, Terminate, Findings, Status
<1>10. CASE JudgeDeadline
  BY <1>10 DEF JudgeDeadline, Terminate
<1>11. CASE FlushBand
  <2>1. /\ pc' = "flushed" /\ UNCHANGED <<nkeep, field, bandsLeft, winner>>
        /\ \A c \in Cands : c \in queue \cup running => verdict'[c] # "none"
        /\ \A c \in Cands : verdict[c] # "none" => verdict'[c] # "none"
    BY <1>11 DEF FlushBand
  <2>2. 1..nkeep \subseteq Cands /\ pc = "judge" /\ InLoop
    BY <1>11, FieldRanges DEF FlushBand
  <2>3. \A c \in 1..nkeep : Accounted(c)'
    BY <2>1, <2>2
  <2> HIDE DEF TypeOK, RaceInv, FieldOutcome, vars, loopVars, promoVars, feedVars,
               envVars, Accounted, PromotionInv
  <2> QED
    BY <2>1, <2>3
<1>12. CASE PopBand
  BY <1>12 DEF PopBand, NextBand, HeadOf, InGroup
<1>13. CASE After
  BY <1>13 DEF After, Stop, DropLocals
<1>14. CASE Reap
  BY <1>14 DEF Reap, Terminate
<1>15. CASE Settle
  BY <1>15 DEF Settle, Stop
<1>16. CASE Promote
  BY <1>16 DEF Promote, Stop
<1>17. CASE PromoteBoot
  BY <1>17 DEF PromoteBoot, Unlink, Spawn
<1>18. CASE PromotePass
  BY <1>18 DEF PromotePass
<1>19. CASE PromoteFail
  BY <1>19 DEF PromoteFail, Stop
<1>20. CASE Die
  BY <1>20 DEF Die, Terminate, Stop, DropLocals
<1>21. ASSUME NEW n \in Names, RunnerStep(n) PROVE FieldCounted'
  <2>1. UNCHANGED chainRest
    BY <1>21 DEF RunnerStep, BootUp, PickPort, OwnPort, Abort, Rerun,
                 OpenMarker, WriteMarker, NoMarker, Exit
  <2> QED
    BY <2>1 DEF chainRest
<1>22. CASE UNCHANGED vars
  BY <1>22
<1> HIDE DEF TypeOK, RaceInv, FieldOutcome, Names, Cands, Base, Nobody, vars,
             loopVars, promoVars, feedVars, envVars, FieldCounted, Accounted,
             ExhaustiveOnFailure, InLoop, PromotionInv
<1> QED
  BY <1>1, <1>2, <1>3, <1>4, <1>5, <1>6, <1>7, <1>8, <1>9, <1>10, <1>11, <1>12,
       <1>13, <1>14, <1>15, <1>16, <1>17, <1>18, <1>19, <1>20, <1>21, <1>22 DEF Next,
       Coordinator, RunnerStep, Returned

(* A band enters when the cheaper ones are spent: all of them accounted    *)
(* for, none waiting and none running.                                     *)
LEMMA QueueInOrderStep ==
    TypeOK /\ TypeOK' /\ RaceInv /\ FieldOutcome /\ [Next]_vars => QueueInOrder'
<1> SUFFICES ASSUME TypeOK, TypeOK', RaceInv, FieldOutcome, [Next]_vars
             PROVE  QueueInOrder'
  OBVIOUS
<1> USE DEF TypeOK, RaceInv, FieldOutcome, Names, Cands, Base, Nobody, vars, loopVars,
            promoVars, feedVars, envVars, FieldCounted, QueueInOrder, Accounted,
            InLoop, FieldInv
<1>1. CASE Leave
  BY <1>1 DEF Leave, Looping
<1>2. CASE \/ JudgeWinner \/ PortFree \/ PortLapse \/ PromoteWait
           \/ Gone \/ ScoutRoute \/ ScoutExit
  <2>1. UNCHANGED <<tranches, field, queue, verdict>>
    BY <1>2 DEF JudgeWinner, PortFree, PortLapse, PromoteWait, Gone, chainRest,
       ScoutRoute, ScoutExit
  <2> QED
    BY <2>1
<1>3. CASE EndTick
  BY <1>3 DEF EndTick, FieldSpent
<1>4. CASE Enter
  BY <1>4 DEF Enter, Unlink
<1>5. CASE Drain
  BY <1>5 DEF Drain, Unlink
<1>6. CASE Boot
  BY <1>6 DEF Boot, HeadOf, Spawn
<1>7. CASE NoBoot
  BY <1>7 DEF NoBoot, AfterPoll
<1>8. ASSUME NEW c \in Cands, PollOpen(c) PROVE QueueInOrder'
  BY <1>8 DEF PollOpen, AfterPoll
<1>9. ASSUME NEW c \in Cands, PollVerdict(c) PROVE QueueInOrder'
  BY <1>9 DEF PollVerdict, AfterPoll, Terminate, Findings, Status
<1>10. CASE JudgeDeadline
  <2>1. /\ UNCHANGED <<tranches, field, queue>>
        /\ \A c \in Cands : verdict[c] # "none" => verdict'[c] # "none"
    BY <1>10 DEF JudgeDeadline
  <2>2. queue \cup 1..field \subseteq Cands /\ QueueInOrder
    BY FieldRanges
  <2> HIDE DEF TypeOK, RaceInv, FieldOutcome, FieldCounted, FieldInv, vars, loopVars,
               promoVars, feedVars, envVars, Cands
  <2> QED
    BY <2>1, <2>2
<1>11. CASE FlushBand
  BY <1>11 DEF FlushBand, Terminate
<1>12. CASE PopBand
  <2>1. PICK b \in NextBand : queue' = InGroup(b)
    BY <1>12 DEF PopBand
  <2>2. /\ queue = {} /\ running = {} /\ pc \in {"judge", "flushed"}
        /\ UNCHANGED <<tranches, field, nkeep, verdict>>
    BY <1>12 DEF PopBand
  <2>3. b \in bandsLeft /\ \A a \in bandsLeft : b <= a
    BY <2>1 DEF NextBand, HeadOf
  <2> SUFFICES ASSUME NEW c \in queue' \cap (1..field), NEW d \in 1..field,
                      Band[d] < Band[c]
               PROVE  verdict[d] # "none"
    BY <2>2
  <2>4. Band[c] = b
    BY <2>1 DEF InGroup
  <2>5. d \in 1..nkeep /\ d \in Cands /\ b \in 0..3 /\ bandsLeft \subseteq 0..3
    BY <2>3, FieldRanges
  <2>6. Band[d] \notin bandsLeft
    <3>1. Band[d] < b
      BY <2>4
    <3>2. Band[d] \in 0..3
      BY <2>5, RaceAssumption
    <3> HIDE DEF TypeOK, RaceInv, FieldOutcome, QueueInOrder, FieldCounted, FieldInv
    <3> QED
      BY <2>3, <2>5, <3>1, <3>2
  <2>7. Accounted(d)
    BY <2>2, <2>5
  <2> QED
    BY <2>2, <2>6, <2>7
<1>13. CASE After
  BY <1>13 DEF After, Stop, DropLocals
<1>14. CASE Reap
  BY <1>14 DEF Reap, Terminate
<1>15. CASE Settle
  BY <1>15 DEF Settle, Stop
<1>16. CASE Promote
  BY <1>16 DEF Promote, Stop
<1>17. CASE PromoteBoot
  BY <1>17 DEF PromoteBoot, Unlink, Spawn
<1>18. CASE PromotePass
  BY <1>18 DEF PromotePass
<1>19. CASE PromoteFail
  BY <1>19 DEF PromoteFail, Stop
<1>20. CASE Die
  BY <1>20 DEF Die, Terminate, Stop, DropLocals
<1>21. ASSUME NEW n \in Names, RunnerStep(n) PROVE QueueInOrder'
  <2>1. UNCHANGED chainRest
    BY <1>21 DEF RunnerStep, BootUp, PickPort, OwnPort, Abort, Rerun,
                 OpenMarker, WriteMarker, NoMarker, Exit
  <2> QED
    BY <2>1 DEF chainRest
<1>22. CASE UNCHANGED vars
  BY <1>22
<1> HIDE DEF TypeOK, RaceInv, FieldOutcome, Names, Cands, Base, Nobody, vars,
             loopVars, promoVars, feedVars, envVars, FieldCounted, QueueInOrder,
             Accounted, InLoop, FieldInv
<1> QED
  BY <1>1, <1>2, <1>3, <1>4, <1>5, <1>6, <1>7, <1>8, <1>9, <1>10, <1>11, <1>12,
       <1>13, <1>14, <1>15, <1>16, <1>17, <1>18, <1>19, <1>20, <1>21, <1>22 DEF Next,
       Coordinator, RunnerStep, Returned

(* The two sweeps over the losers leave nothing alive, and what rises      *)
(* later rises behind a runner that was cut off.                           *)
LEMMA ReapedStep ==
    TypeOK /\ TypeOK' /\ RaceInv /\ FieldOutcome /\ [Next]_vars => Reaped'
<1> SUFFICES ASSUME TypeOK, TypeOK', RaceInv, FieldOutcome, [Next]_vars
             PROVE  Reaped'
  OBVIOUS
<1> USE DEF TypeOK, RaceInv, FieldOutcome, Names, Cands, Base, Nobody, vars, loopVars,
            promoVars, feedVars, envVars, Reaped, ChainInv, LoopInv,
            LiveRunnersTracked, CrownIsGenuine, PromotionInv, InLoop
<1>1. CASE Leave
  BY <1>1 DEF Leave, Looping
<1>2. CASE \/ JudgeWinner \/ PortFree \/ PortLapse \/ PromoteWait
           \/ Gone \/ ScoutRoute \/ ScoutExit
  BY <1>2 DEF JudgeWinner, PortFree, PortLapse, PromoteWait, Gone, chainRest,
       ScoutRoute, ScoutExit
<1>3. CASE EndTick
  BY <1>3 DEF EndTick, FieldSpent
<1>4. CASE Enter
  BY <1>4 DEF Enter, Unlink
<1>5. CASE Drain
  BY <1>5 DEF Drain, Unlink
<1>6. CASE Boot
  BY <1>6 DEF Boot, HeadOf, Spawn
<1>7. CASE NoBoot
  BY <1>7 DEF NoBoot, AfterPoll
<1>8. ASSUME NEW c \in Cands, PollOpen(c) PROVE Reaped'
  BY <1>8 DEF PollOpen, AfterPoll
<1>9. ASSUME NEW c \in Cands, PollVerdict(c) PROVE Reaped'
  BY <1>9 DEF PollVerdict, AfterPoll, Terminate, Findings, Status
<1>10. CASE JudgeDeadline
  BY <1>10 DEF JudgeDeadline, Terminate
<1>11. CASE FlushBand
  BY <1>11 DEF FlushBand, Terminate
<1>12. CASE PopBand
  BY <1>12 DEF PopBand, NextBand, HeadOf, InGroup
<1>13. CASE After
  <2>1. /\ pc' = IF winner = Nobody THEN "done" ELSE "reap"
        /\ UNCHANGED <<nkeep, winner, watched, proc>>
        /\ \A c \in 1..nkeep \ {winner} : ~vm'[c]
    <3>1. /\ pc' = IF winner = Nobody THEN "done" ELSE "reap"
          /\ UNCHANGED <<nkeep, winner, watched, proc>>
      BY <1>13 DEF After
    <3>2. vm' = [m \in Names |-> vm[m] /\ m \notin (1..nkeep \ {winner})]
      BY <1>13 DEF After, Stop
    <3>3. 1..nkeep \subseteq Names
      BY FieldRanges
    <3> HIDE DEF TypeOK, RaceInv, FieldOutcome, Names, Cands, ChainInv, LoopInv,
                 PromotionInv
    <3> QED
      BY <3>1, <3>2, <3>3
  <2>2. pc = "after" /\ Reaped
    BY <1>13 DEF After
  <2> HIDE DEF TypeOK, RaceInv, FieldOutcome, Names, Cands, ChainInv, LoopInv,
               PromotionInv
  <2> QED
    BY <2>1, <2>2
<1>14. CASE Reap
  BY <1>14 DEF Reap, Terminate
<1>15. CASE Settle
  <2>1. /\ pc = "settle" /\ pc' = "promote"
        /\ UNCHANGED <<nkeep, winner, watched, proc>>
        /\ \A c \in 1..nkeep \ {winner} : ~vm'[c]
    <3>1. /\ pc = "settle" /\ pc' = "promote"
          /\ UNCHANGED <<nkeep, winner, watched, proc>>
      BY <1>15 DEF Settle
    <3>2. vm' = [m \in Names |-> vm[m] /\ m \notin (1..nkeep \ {winner})]
      BY <1>15 DEF Settle, Stop
    <3>3. 1..nkeep \subseteq Names
      BY FieldRanges
    <3> HIDE DEF TypeOK, RaceInv, FieldOutcome, Names, Cands, ChainInv, LoopInv,
                 PromotionInv
    <3> QED
      BY <3>1, <3>2, <3>3
  <2> HIDE DEF TypeOK, RaceInv, Names, Cands, ChainInv, LoopInv, PromotionInv
  <2> QED
    BY <2>1
<1>16. CASE Promote
  <2>1. /\ pc = "promote" /\ pc' = "free"
        /\ UNCHANGED <<nkeep, winner, watched, proc>>
        /\ \A n \in Names : vm'[n] => vm[n]
    BY <1>16 DEF Promote, Stop
  <2>3. 1..nkeep \subseteq Names /\ Reaped
    BY FieldRanges
  <2> HIDE DEF TypeOK, RaceInv, FieldOutcome, Names, Cands, ChainInv, LoopInv,
               PromotionInv
  <2> QED
    BY <2>1, <2>3
<1>17. CASE PromoteBoot
  BY <1>17 DEF PromoteBoot, Unlink, Spawn
<1>18. CASE PromotePass
  BY <1>18 DEF PromotePass
<1>19. CASE PromoteFail
  <2>1. /\ pc = "read" /\ pc' \in {"boot", "done"}
        /\ UNCHANGED <<nkeep, winner, watched, proc>>
    BY <1>19 DEF PromoteFail
  <2>2. \A n \in Names : vm'[n] => vm[n]
    BY <1>19 DEF PromoteFail, Stop
  <2>3. 1..nkeep \subseteq Names /\ Reaped
    BY FieldRanges
  <2> HIDE DEF TypeOK, RaceInv, FieldOutcome, Names, Cands, ChainInv, LoopInv,
               PromotionInv
  <2> QED
    BY <2>1, <2>2, <2>3
<1>20. CASE Die
  BY <1>20 DEF Die, Terminate, Stop, DropLocals
<1>21. ASSUME NEW n \in Names, BootUp(n) PROVE Reaped'
  <2>1. UNCHANGED <<pc, nkeep, winner, watched, proc>>
    BY <1>21 DEF BootUp, PickPort, OwnPort, chainRest
  <2>2. chain[n] = "build" /\ proc[n] \in {"live", "killed"}
    BY <1>21 DEF BootUp, PickPort, OwnPort
  <2>3. \A m \in Names : vm'[m] => vm[m] \/ m = n
    BY <1>21 DEF BootUp, PickPort, OwnPort
  <2>4. 1..nkeep \subseteq Names \cap Cands /\ Reaped
    BY FieldRanges
  <2> HIDE DEF TypeOK, RaceInv, FieldOutcome, Names, Cands, ChainInv, LoopInv,
               PromotionInv
  <2> QED
    BY <2>1, <2>2, <2>3, <2>4
<1>22. ASSUME NEW n \in Names, Abort(n) PROVE Reaped'
  BY <1>22 DEF Abort, chainRest
<1>23. ASSUME NEW n \in Names, Rerun(n) PROVE Reaped'
  BY <1>23 DEF Rerun, chainRest
<1>24. ASSUME NEW n \in Names, OpenMarker(n) PROVE Reaped'
  BY <1>24 DEF OpenMarker, chainRest
<1>25. ASSUME NEW n \in Names, WriteMarker(n) PROVE Reaped'
  BY <1>25 DEF WriteMarker, chainRest
<1>26. ASSUME NEW n \in Names, NoMarker(n) PROVE Reaped'
  BY <1>26 DEF NoMarker, chainRest
<1>27. ASSUME NEW n \in Names, Exit(n) PROVE Reaped'
  BY <1>27 DEF Exit, chainRest
<1>28. CASE UNCHANGED vars
  BY <1>28
<1> HIDE DEF TypeOK, RaceInv, FieldOutcome, Names, Cands, Base, Nobody, vars,
             loopVars, promoVars, feedVars, envVars, Reaped, ChainInv, LoopInv,
             LiveRunnersTracked, CrownIsGenuine, PromotionInv, InLoop
<1> QED
  BY <1>1, <1>2, <1>3, <1>4, <1>5, <1>6, <1>7, <1>8, <1>9, <1>10, <1>11, <1>12,
       <1>13, <1>14, <1>15, <1>16, <1>17, <1>18, <1>19, <1>20, <1>21, <1>22, <1>23,
       <1>24, <1>25, <1>26, <1>27, <1>28 DEF Next, Coordinator, RunnerStep, Returned

(* The invariant, on top of RaceInv.                                       *)
THEOREM FieldInvariance == Spec => []FieldOutcome
<1>1. TypeOK /\ TypeOK' /\ RaceInv /\ FieldOutcome /\ [Next]_vars => FieldOutcome'
  BY FieldCountedStep, QueueInOrderStep, ReapedStep DEF FieldOutcome
<1> QED
  BY FieldInit, <1>1, RaceInvariance, PTL DEF Spec

(* A race that gives up before its deadline has judged every candidate,    *)
(* initial or scouted, that ever entered keep (race(), the four places a   *)
(* candidate can be).                                                      *)
THEOREM ExhaustiveTheorem == Spec => []ExhaustiveOnFailure
<1>1. FieldOutcome => ExhaustiveOnFailure
  BY DEF FieldOutcome, FieldCounted
<1> QED
  BY <1>1, FieldInvariance, PTL

(* When race() has returned, a loser's VM is up only behind a runner that  *)
(* had to be terminated (the two reaps of race()).                         *)
THEOREM ReapedTheorem == Spec => []LosersReaped
<1>1. FieldOutcome => LosersReaped
  BY DEF FieldOutcome, Reaped, LosersReaped
<1> QED
  BY <1>1, FieldInvariance, PTL

(* In tranche mode no candidate of the initial field boots before every    *)
(* cheaper one of it has its verdict (the bands of race()).                *)
THEOREM BandsTheorem == Spec => CheaperBandsFirst
<1> DEFINE InOrder == tranches =>
         \A c \in (running' \ running) \cap (1..field) :
           \A d \in 1..field : Band[d] < Band[c] => verdict[d] # "none"
<1>1. TypeOK /\ FieldOutcome /\ [Next]_vars => [InOrder]_vars
  <2> SUFFICES ASSUME FieldOutcome, Next PROVE InOrder
    OBVIOUS
  <2>1. CASE Boot
    BY <2>1 DEF Boot, HeadOf, FieldOutcome, QueueInOrder
  <2>2. CASE ~Boot
    <3>1. running' \subseteq running
      BY <2>2 DEF Next, Coordinator, RunnerStep, Returned, Enter, Leave, Drain,
                  NoBoot, PollOpen, PollVerdict, JudgeWinner, JudgeDeadline,
                  FlushBand, PopBand, EndTick, After, Reap, Settle, Promote,
                  PortFree, PortLapse, PromoteBoot, PromoteWait, PromotePass, PromoteFail,
                  Die, DropLocals, Gone,
                  BootUp, Abort, Rerun, OpenMarker, WriteMarker, NoMarker, Exit,
                  ScoutRoute, ScoutExit, chainRest, loopVars, vars
    <3> QED
      BY <3>1
  <2> QED
    BY <2>1, <2>2
<1> QED
  BY <1>1, FieldInvariance, RaceInvariance, PTL DEF Spec, CheaperBandsFirst
=============================================================================
