---------------------------- MODULE VerifyProofs ----------------------------
(***************************************************************************)
(* Verify for every number of checks, every duration of deadline, hold and *)
(* probe: a pass is held, a failure is not a pass cut short, and it has    *)
(* its evidence.                                                           *)
(***************************************************************************)
EXTENDS Verify, TLAPS

(* Where the run is: what has an exit code has ended, what has begun has   *)
(* something to check, and before the first sweep nothing is known.        *)
StageInv ==
    /\ pc = "done" <=> exit # None
    /\ pc # "start" /\ exit # 2 => n > 0
    /\ pc \in {"start", "ssh", "nossh"} => results = {} /\ ~armed /\ ~swept

(* The hold: its clocks agree, it ends no later than the deadline, and     *)
(* what it counts was seen since it began.  All results are in only under  *)
(* a hold, and a hold is left only with them.                              *)
HoldInv ==
    /\ armed => elapsed + holdLeft = Hold /\ results \subseteq fresh /\ holdLeft <= left
    /\ pc = "loop" /\ armed => left > 0 \/ results = Checks
    /\ pc = "sleep" /\ armed => results = Checks
    /\ pc = "close" /\ armed => results = Checks /\ holdLeft = 0
    /\ pc \in {"loop", "sleep", "close"} /\ results = Checks => armed
    /\ PassIsHeld
    /\ LatePassSurvives

(* The sweep: what it has gone by has passed or has failed.                *)
SweepInv ==
    /\ pc = "sweep" => /\ swept /\ at <= n
                       /\ \A c \in Checks : c < at => c \in results \cup failed
    /\ pc \in {"judge", "sleep"} => swept
    /\ pc = "judge" => at = n + 1
    /\ pc \in {"judge", "sleep", "close"} /\ swept => Checks \subseteq results \cup failed
    /\ pc = "loop" /\ swept => left > 0 \/ Checks \subseteq results \cup failed
    /\ FailureHasEvidence

VerifyInv == TypeOK /\ StageInv /\ HoldInv /\ SweepInv

-----------------------------------------------------------------------------
(* The furthest deadline is a number, and no hold starts beyond it.        *)
LEMMA LimitBounds == /\ Limit \in Nat
                     /\ Deadline <= Limit /\ Hold + Grace <= Limit
BY VerifyAssumption DEF Limit, Max2

(* A run starts inside the invariant.                                      *)
LEMMA VerifyInvInit == Init => VerifyInv
<1> SUFFICES ASSUME Init PROVE VerifyInv
    OBVIOUS
<1> USE VerifyAssumption DEF Init, Checks, None
<1>0. armed \in BOOLEAN /\ ignored \in BOOLEAN /\ swept \in BOOLEAN
    OBVIOUS
<1>1. TypeOK
    BY LimitBounds, <1>0 DEF TypeOK, AppAlive
<1>2. StageInv
    BY DEF StageInv
<1>3. HoldInv
    BY DEF HoldInv, PassIsHeld, LatePassSurvives
<1>4. SweepInv
    BY DEF SweepInv, FailureHasEvidence
<1>5. QED
    BY <1>1, <1>2, <1>3, <1>4 DEF VerifyInv

(* The types, given where the sweep may be.                                *)
LEMMA VerifyTypeStep == VerifyInv /\ [Next]_vars => TypeOK'
<1> SUFFICES ASSUME VerifyInv, [Next]_vars PROVE TypeOK'
    OBVIOUS
<1> USE VerifyAssumption, LimitBounds DEF TypeOK, Checks, None, AppAlive
<1>0. /\ TypeOK
      /\ pc = "sweep" => at <= n
      /\ pc = "loop" => n > 0
    BY DEF VerifyInv, StageInv, SweepInv
<1>1. CASE Start
    BY <1>0, <1>1 DEF Start, clocks, history
<1>2. CASE SshUp
    BY <1>0, <1>2 DEF SshUp, Pass, Less, clocks, history
<1>3. CASE SshDown
    BY <1>0, <1>3 DEF SshDown, Pass, Less, clocks, history
<1>4. CASE SshLost
    BY <1>0, <1>4 DEF SshLost, Pass, Less, clocks, history
<1>5. CASE NoSsh
    BY <1>0, <1>5 DEF NoSsh, clocks, history
<1>6. CASE Loop
    <2>1. armed' \in BOOLEAN /\ ignored' \in BOOLEAN /\ swept' \in BOOLEAN
        BY <1>0, <1>6 DEF Loop, clocks, history
    <2>2. QED
        BY <1>0, <1>6, <2>1 DEF Loop, clocks, history
<1>7. CASE Ask
    <2>1. armed' \in BOOLEAN /\ ignored' \in BOOLEAN /\ swept' \in BOOLEAN
        BY <1>0, <1>7 DEF Ask, Answers, history
    <2>2. left' \in 0..Limit /\ holdLeft' \in 0..Hold /\ elapsed' \in 0..Hold
        BY <1>0, <1>7 DEF Ask, Answers, Pass, Less
    <2>3. results' \subseteq Checks /\ failed' \subseteq Checks /\ fresh' \subseteq
            Checks
        <3>1. at \in Checks /\ n' = n
            BY <1>0, <1>7 DEF Ask, Answers
        <3>2. CASE at \in up
            BY <1>0, <1>7, <3>1, <3>2 DEF Ask, Answers
        <3>3. CASE at \notin up
            BY <1>0, <1>7, <3>1, <3>3 DEF Ask, Answers
        <3>4. QED
            BY <3>2, <3>3
    <2>4. pc' \in {"sweep", "judge"} /\ at' \in 1..(n + 1)
        BY <1>0, <1>7 DEF Ask, Answers, Onward
    <2>5. QED
        BY <1>0, <1>7, <2>1, <2>2, <2>3, <2>4 DEF Ask, Answers
<1>8. CASE Skip
    BY <1>0, <1>8 DEF Skip, Onward, clocks, history
<1>9. CASE Arm
    <2>1. armed' \in BOOLEAN /\ ignored' \in BOOLEAN /\ swept' \in BOOLEAN
        BY <1>0, <1>9 DEF Arm, HoldFrom, Max2, clocks, history
    <2>2. QED
        BY <1>0, <1>9, <2>1 DEF Arm, HoldFrom, Max2, clocks, history
<1>10. CASE Holding
    BY <1>0, <1>10 DEF Holding, clocks, history
<1>11. CASE Lapse
    <2>1. armed' \in BOOLEAN /\ ignored' \in BOOLEAN /\ swept' \in BOOLEAN
        BY <1>0, <1>11 DEF Lapse, clocks, history
    <2>2. QED
        BY <1>0, <1>11, <2>1 DEF Lapse, clocks, history
<1>12. CASE Sleep
    BY <1>0, <1>12 DEF Sleep, Pass, Less, clocks, history
<1>13. CASE Close
    BY <1>0, <1>13 DEF Close, clocks, history
<1>14. CASE Change
    BY <1>0, <1>14 DEF Change, clocks, history
<1>15. CASE UNCHANGED vars
    BY <1>0, <1>15 DEF vars, clocks, history
<1> HIDE DEF TypeOK
<1>16. QED
    BY <1>1, <1>2, <1>3, <1>4, <1>5, <1>6, <1>7, <1>8, <1>9, <1>10, <1>11, <1>12, <1>13,
           <1>14, <1>15 DEF Next, Runner

(* The stages are kept.                                                    *)
LEMMA StageStep == VerifyInv /\ TypeOK' /\ [Next]_vars => StageInv'
<1> SUFFICES ASSUME VerifyInv /\ TypeOK', [Next]_vars PROVE StageInv'
    OBVIOUS
<1> USE VerifyAssumption DEF TypeOK, VerifyInv, StageInv, HoldInv, SweepInv, Checks,
        None, AppAlive
<1>1. CASE Start
    BY <1>1 DEF Start, clocks, history
<1>2. CASE SshUp
    BY <1>2 DEF SshUp, Pass, Less, clocks, history
<1>3. CASE SshDown
    BY <1>3 DEF SshDown, Pass, Less, clocks, history
<1>4. CASE SshLost
    BY <1>4 DEF SshLost, Pass, Less, clocks, history
<1>5. CASE NoSsh
    BY <1>5 DEF NoSsh, clocks, history
<1>6. CASE Loop
    BY <1>6 DEF Loop, clocks, history
<1>7. CASE Ask
    BY <1>7 DEF Ask, Answers, Pass, Less, Onward, clocks, history
<1>8. CASE Skip
    BY <1>8 DEF Skip, Onward, clocks, history
<1>9. CASE Arm
    BY <1>9 DEF Arm, HoldFrom, Max2, clocks, history
<1>10. CASE Holding
    BY <1>10 DEF Holding, clocks, history
<1>11. CASE Lapse
    BY <1>11 DEF Lapse, clocks, history
<1>12. CASE Sleep
    BY <1>12 DEF Sleep, Pass, Less, clocks, history
<1>13. CASE Close
    BY <1>13 DEF Close, clocks, history
<1>14. CASE Change
    BY <1>14 DEF Change, clocks, history
<1>15. CASE UNCHANGED vars
    BY <1>15 DEF vars, clocks, history
<1> HIDE DEF TypeOK, VerifyInv, StageInv, HoldInv, SweepInv
<1>16. QED
    BY <1>1, <1>2, <1>3, <1>4, <1>5, <1>6, <1>7, <1>8, <1>9, <1>10, <1>11, <1>12, <1>13,
           <1>14, <1>15 DEF Next, Runner

(* The hold is kept.                                                      *)
LEMMA HoldStep == VerifyInv /\ TypeOK' /\ [Next]_vars => HoldInv'
<1> SUFFICES ASSUME VerifyInv /\ TypeOK', [Next]_vars PROVE HoldInv'
    OBVIOUS
<1> USE VerifyAssumption DEF TypeOK, VerifyInv, StageInv, HoldInv, SweepInv, Checks,
        None, AppAlive, PassIsHeld, LatePassSurvives, Max2
<1>1. CASE Start
    BY <1>1 DEF Start, clocks, history
<1>2. CASE SshUp
    BY <1>2 DEF SshUp, Pass, Less, clocks, history
<1>3. CASE SshDown
    BY <1>3 DEF SshDown, Pass, Less, clocks, history
<1>4. CASE SshLost
    BY <1>4 DEF SshLost, Pass, Less, clocks, history
<1>5. CASE NoSsh
    BY <1>5 DEF NoSsh, clocks, history
<1>6. CASE Loop
    BY <1>6 DEF Loop, clocks, history
<1>7. CASE Ask
    BY <1>7 DEF Ask, Answers, Pass, Less, Onward, clocks, history
<1>8. CASE Skip
    BY <1>8 DEF Skip, Onward, clocks, history
<1>9. CASE Arm
    BY <1>9 DEF Arm, HoldFrom, Max2, clocks, history
<1>10. CASE Holding
    BY <1>10 DEF Holding, clocks, history
<1>11. CASE Lapse
    BY <1>11 DEF Lapse, clocks, history
<1>12. CASE Sleep
    BY <1>12 DEF Sleep, Pass, Less, clocks, history
<1>13. CASE Close
    <2>1. CASE results = Checks
        <3>1. armed /\ n > 0
            BY <1>13, <2>1 DEF Close
        <3>2. fresh = Checks /\ elapsed = Hold
            <4>1. results \subseteq fresh /\ fresh \subseteq Checks
                BY <3>1
            <4>2. elapsed = Hold
                BY <1>13, <3>1 DEF Close
            <4>3. QED
                BY <2>1, <4>1, <4>2
        <3>3. QED
            BY <1>13, <2>1, <3>1, <3>2 DEF Close, clocks, history
    <2>2. CASE results # Checks
        BY <1>13, <2>2 DEF Close, clocks, history
    <2>3. QED
        BY <2>1, <2>2
<1>14. CASE Change
    BY <1>14 DEF Change, clocks, history
<1>15. CASE UNCHANGED vars
    BY <1>15 DEF vars, clocks, history
<1> HIDE DEF TypeOK, VerifyInv, StageInv, HoldInv, SweepInv
<1>16. QED
    BY <1>1, <1>2, <1>3, <1>4, <1>5, <1>6, <1>7, <1>8, <1>9, <1>10, <1>11, <1>12, <1>13,
           <1>14, <1>15 DEF Next, Runner

(* The record of the sweep is kept.                                        *)
LEMMA SweepStep == VerifyInv /\ TypeOK' /\ [Next]_vars => SweepInv'
<1> SUFFICES ASSUME VerifyInv /\ TypeOK', [Next]_vars PROVE SweepInv'
    OBVIOUS
<1> USE VerifyAssumption DEF TypeOK, VerifyInv, StageInv, HoldInv, SweepInv, Checks,
        None, AppAlive, FailureHasEvidence
<1>1. CASE Start
    BY <1>1 DEF Start, clocks, history
<1>2. CASE SshUp
    BY <1>2 DEF SshUp, Pass, Less, clocks, history
<1>3. CASE SshDown
    BY <1>3 DEF SshDown, Pass, Less, clocks, history
<1>4. CASE SshLost
    BY <1>4 DEF SshLost, Pass, Less, clocks, history
<1>5. CASE NoSsh
    BY <1>5 DEF NoSsh, clocks, history
<1>6. CASE Loop
    BY <1>6 DEF Loop, clocks, history
<1>7. CASE Ask
    BY <1>7 DEF Ask, Answers, Pass, Less, Onward, clocks, history
<1>8. CASE Skip
    BY <1>8 DEF Skip, Onward, clocks, history
<1>9. CASE Arm
    BY <1>9 DEF Arm, HoldFrom, Max2, clocks, history
<1>10. CASE Holding
    BY <1>10 DEF Holding, clocks, history
<1>11. CASE Lapse
    BY <1>11 DEF Lapse, clocks, history
<1>12. CASE Sleep
    BY <1>12 DEF Sleep, Pass, Less, clocks, history
<1>13. CASE Close
    BY <1>13 DEF Close, clocks, history
<1>14. CASE Change
    BY <1>14 DEF Change, clocks, history
<1>15. CASE UNCHANGED vars
    BY <1>15 DEF vars, clocks, history
<1> HIDE DEF TypeOK, VerifyInv, StageInv, HoldInv, SweepInv
<1>16. QED
    BY <1>1, <1>2, <1>3, <1>4, <1>5, <1>6, <1>7, <1>8, <1>9, <1>10, <1>11, <1>12, <1>13,
           <1>14, <1>15 DEF Next, Runner

(* The invariant holds throughout a run.                                   *)
THEOREM VerifyInvariance == Spec => []VerifyInv
<1>1. VerifyInv /\ [Next]_vars => VerifyInv'
    BY VerifyTypeStep, StageStep, HoldStep, SweepStep DEF VerifyInv
<1>2. QED
    BY VerifyInvInit, <1>1, PTL DEF Spec

-----------------------------------------------------------------------------
(* The state of run_cmd has its type.                                      *)
THEOREM VerifyTypes == Spec => []TypeOK
BY VerifyInvariance, PTL DEF VerifyInv

(* A pass rests on a full hold and a second answer of every check.         *)
THEOREM PassIsHeldTheorem == Spec => []PassIsHeld
BY VerifyInvariance, PTL DEF VerifyInv, HoldInv

(* A run that fails was not holding.                                       *)
THEOREM LatePassTheorem == Spec => []LatePassSurvives
BY VerifyInvariance, PTL DEF VerifyInv, HoldInv

(* A failed check has its evidence.                                        *)
THEOREM EvidenceTheorem == Spec => []FailureHasEvidence
BY VerifyInvariance, PTL DEF VerifyInv, SweepInv

-----------------------------------------------------------------------------
(* While the service stands still, no step makes another hold possible,    *)
(* and one that leaves that as it is goes down in the rest of the order.   *)
Spending ==
    \/ MayArm /\ ~MayArm'
    \/ /\ MayArm' = MayArm
       /\ \/ left' < left
          \/ left' = left /\ Rank' < Rank
          \/ UNCHANGED <<left, pc>> /\ at' \in (at + 1)..n

(* Outside a sweep nothing is missed, and a run under a hold that misses   *)
(* nothing has no other hold before it.                                    *)
LEMMA SpendingStep ==
    ASSUME VerifyInv, Runner, up' = up
    PROVE  Spending
<1> USE VerifyAssumption DEF VerifyInv, TypeOK, Checks
<1>0. /\ n' = n /\ n \in Nat /\ Checks' = Checks
      /\ left \in Nat /\ at \in 1..(n + 1) /\ Poll \in Nat \ {0}
    <2>1. n' = n
        BY DEF Runner, Start, SshUp, SshDown, SshLost, NoSsh, Loop, Ask, Answers, Skip, Arm,
               HoldFrom, Holding, Lapse, Sleep, Close
    <2>2. QED
        BY <2>1, LimitBounds
<1>1. CASE Start
    BY <1>0, <1>1 DEF Spending, MayArm, Missed, Rank, Start, clocks
<1>2. CASE SshUp
    BY <1>0, <1>2 DEF Spending, MayArm, Missed, Rank, SshUp, Pass, Less
<1>3. CASE SshDown
    BY <1>0, <1>3 DEF Spending, MayArm, Missed, Rank, SshDown, Pass, Less
<1>4. CASE SshLost
    BY <1>0, <1>4 DEF Spending, MayArm, Missed, Rank, SshLost, Pass, Less, clocks
<1>5. CASE NoSsh
    BY <1>0, <1>5 DEF Spending, MayArm, Missed, Rank, NoSsh, clocks
<1>6. CASE Loop
    BY <1>0, <1>6 DEF Spending, MayArm, Missed, Rank, Loop, clocks
<1>7. CASE Ask
    <2>1. /\ pc = "sweep" /\ at \in Checks \ results /\ armed' = armed
          /\ at' = at + 1
          /\ \/ at = n /\ pc' = "judge"
             \/ at < n /\ pc' = "sweep"
          /\ results' = IF at \in up THEN results \cup {at} ELSE results
        BY <1>0, <1>7 DEF Ask, Answers, Onward, SweepInv
    <2>2. left' \in Nat /\ left' <= left
        BY <1>0, <1>7 DEF Ask, Answers, Pass, Less
    <2>3. Checks \subseteq results' \cup up <=> Checks \subseteq results \cup up
        BY <2>1
    <2>4. CASE at \in up
        <3>1. Missed' <=> Missed
            BY <1>0, <2>1, <2>4 DEF Missed
        <3>2. MayArm' = MayArm
            BY <1>0, <2>1, <2>3, <3>1 DEF MayArm
        <3>3. QED
            BY <1>0, <2>1, <2>2, <3>2 DEF Spending, Rank
    <2>5. CASE at \notin up
        <3>1. ~MayArm' /\ ~MayArm
            BY <1>0, <2>1, <2>3, <2>5 DEF MayArm
        <3>2. MayArm' = MayArm
            BY <3>1 DEF MayArm
        <3>3. QED
            BY <1>0, <2>1, <2>2, <3>2 DEF Spending, Rank
    <2>6. QED
        BY <2>4, <2>5
<1>8. CASE Skip
    BY <1>0, <1>8 DEF Spending, MayArm, Missed, Rank, Skip, Onward, clocks
<1>9. CASE Arm
    BY <1>0, <1>9 DEF Spending, MayArm, Missed, Rank, Arm, HoldFrom, clocks
<1>10. CASE Holding
    BY <1>0, <1>10 DEF Spending, MayArm, Missed, Rank, Holding, clocks
<1>11. CASE Lapse
    <2>1. /\ pc = "judge" /\ pc' = "sleep" /\ ~armed'
          /\ left' = left /\ results' = results /\ results # Checks
        BY <1>11 DEF Lapse
    <2>2. at = n + 1
        BY <2>1 DEF SweepInv
    <2>3. Missed
        <3>1. PICK c \in 1..n : c \notin results
            BY <2>1
        <3>2. c < at
            BY <1>0, <2>2, <3>1
        <3>3. QED
            BY <2>1, <3>1, <3>2 DEF Missed
    <2>4. MayArm' = MayArm
        BY <1>0, <2>1, <2>3 DEF MayArm
    <2>5. QED
        BY <1>0, <2>1, <2>4 DEF Spending, Rank
<1>12. CASE Sleep
    BY <1>0, <1>12 DEF Spending, MayArm, Missed, Rank, Sleep, Pass, Less
<1>13. CASE Close
    BY <1>0, <1>13 DEF Spending, MayArm, Missed, Rank, Close, clocks
<1>14. QED
    BY <1>1, <1>2, <1>3, <1>4, <1>5, <1>6, <1>7, <1>8, <1>9, <1>10, <1>11, <1>12,
       <1>13 DEF Runner

(* The service alone keeps a run going: between two changes of it the      *)
(* number of steps is bounded (run_cmd, the hold and its grace).           *)
THEOREM SpendsTheorem == Spec => SettledSpends
<1>1. VerifyInv /\ [Next]_vars => [up' = up => Spending]_vars
    <2>1. Change /\ VerifyInv => up' # up
        BY DEF Change, VerifyInv, TypeOK, Checks
    <2>2. QED
        BY <2>1, SpendingStep DEF Next
<1>2. QED
    BY <1>1, VerifyInvariance, PTL DEF Spec, SettledSpends, Spending

-----------------------------------------------------------------------------
(* A service that is up, and stays up, from the first check of a sweep on: *)
(* the sweep misses nothing, and the run is holding when it next sleeps.   *)
SteadyInv ==
    /\ pc \in {"loop", "sweep", "judge", "sleep", "close", "done"}
    /\ pc = "sweep" => \A c \in Checks : c < at => c \in results
    /\ pc = "judge" => results = Checks
    /\ pc \in {"loop", "sleep", "close"} => armed
    /\ pc = "done" => exit = 0

(* Nothing but the service takes that away.                                *)
LEMMA SteadyStep ==
    ASSUME VerifyInv, SteadyInv, up = Checks, [Next]_vars
    PROVE  SteadyInv'
<1> USE VerifyAssumption DEF VerifyInv, TypeOK, Checks, SteadyInv
<1>1. CASE Loop
    BY <1>1 DEF Loop, clocks
<1>2. CASE Ask
    <2>1. /\ pc = "sweep" /\ at \in Checks \ results /\ n' = n
          /\ at' = at + 1 /\ results' = results \cup {at}
          /\ \/ at = n /\ pc' = "judge"
             \/ at < n /\ pc' = "sweep"
        BY <1>2 DEF Ask, Answers, Onward, SweepInv
    <2>2. \A c \in Checks : c < at' => c \in results'
        BY <2>1
    <2>3. pc' = "judge" => results' = Checks
        <3>1. n \in Nat /\ results' \subseteq 1..n
            BY <2>1
        <3>2. pc' = "judge" => \A c \in 1..n : c \in results'
            BY <2>1, <2>2, <3>1
        <3>3. QED
            BY <3>1, <3>2
    <2>4. QED
        BY <2>1, <2>2, <2>3
<1>3. CASE Skip
    <2>1. /\ pc = "sweep" /\ at \in results /\ n' = n
          /\ at' = at + 1 /\ results' = results
          /\ \/ at = n /\ pc' = "judge"
             \/ at < n /\ pc' = "sweep"
        BY <1>3 DEF Skip, Onward, SweepInv
    <2>2. \A c \in Checks : c < at' => c \in results'
        BY <2>1
    <2>3. pc' = "judge" => results' = Checks
        <3>1. n \in Nat /\ results' \subseteq 1..n
            BY <2>1
        <3>2. pc' = "judge" => \A c \in 1..n : c \in results'
            BY <2>1, <2>2, <3>1
        <3>3. QED
            BY <3>1, <3>2
    <2>4. QED
        BY <2>1, <2>2, <2>3
<1>4. CASE Arm
    BY <1>4 DEF Arm, HoldFrom
<1>5. CASE Holding
    BY <1>5 DEF Holding
<1>6. CASE Sleep
    BY <1>6 DEF Sleep
<1>7. CASE Close
    BY <1>7 DEF Close, HoldInv
<1>8. CASE Change
    BY <1>8 DEF Change, clocks
<1>9. CASE UNCHANGED vars
    BY <1>9 DEF vars
<1>10. QED
    BY <1>1, <1>2, <1>3, <1>4, <1>5, <1>6, <1>7, <1>8, <1>9
       DEF Next, Runner, Start, SshUp, SshDown, SshLost, NoSsh, Lapse

(* From a sweep that finds everything up, and up to stay, a run that ends  *)
(* has passed: neither the deadline, nor an earlier lapse, nor a failure   *)
(* seen before takes the pass away (run_cmd).  That the run ends is what   *)
(* SettledSpends bounds, and what SteadyPasses adds to this.               *)
THEOREM SteadyTheorem ==
    Spec => [](pc = "sweep" /\ at = 1 /\ [](up = Checks) => [](pc = "done" => exit = 0))
<1>1. VerifyInv /\ pc = "sweep" /\ at = 1 => SteadyInv
    BY DEF SteadyInv, VerifyInv, TypeOK, Checks
<1>2. VerifyInv /\ SteadyInv /\ up = Checks /\ [Next]_vars => SteadyInv'
    BY SteadyStep
<1>3. SteadyInv => (pc = "done" => exit = 0)
    BY DEF SteadyInv
<1>4. QED
    BY <1>1, <1>2, <1>3, VerifyInvariance, PTL DEF Spec
=============================================================================
