-------------------------- MODULE AovPower_proofs --------------------------
(***************************************************************************)
(* AovSystem implements AovPower, for every value of the constants.        *)
(***************************************************************************)
EXTENDS AovSystem_proofs

\* What the steps below need to know of the two states they join.
Known ==
    /\ Typed /\ ApInv /\ JobInv /\ QuiesceInv
    /\ SleepVoteOnlyApDown
    /\ ApPower # "on" => ~ApWorking

\* An AP whose power is being cut does not work, nor does one that is off.
LEMMA IdleUnlessOn ==
    JobInv /\ QuiesceInv => (ApPower # "on" => ~ApWorking)
<1> SUFFICES ASSUME JobInv, QuiesceInv, ApPower # "on" PROVE ~ApWorking
  OBVIOUS
<1>1. CASE ~cp.apVoteOn
  BY <1>1 DEF JobInv, SamePage, QuiesceInv, ApWorking
<1>2. CASE cp.apVoteOn /\ cp.poweringDown
  BY <1>2 DEF QuiesceInv, Promised, Quiesced, ApWorking
<1> QED
  BY <1>1, <1>2 DEF ApPower

LEMMA CpImplements ==
    ASSUME Known, Known', CpMoves
    PROVE  [Power!PowerNext]_(Power!powerVars)
<1>1. /\ cp.apVoteOn \in BOOLEAN /\ cp.sleepVoted \in BOOLEAN
      /\ cp'.apVoteOn \in BOOLEAN /\ cp'.sleepVoted \in BOOLEAN
  BY DEF Known, Typed, CpRecord
<1>2. ApWorking' = ApWorking
  BY DEF CpMoves, ApWorking
<1>3. CASE Starts
  <2>1. /\ ApPower = "off" /\ ApPower' = "on" /\ cp'.sleepVoted = FALSE
    <3>1. ~cp.poweringDown
      BY <1>3 DEF Starts, Known, QuiesceInv
    <3> QED
      BY <1>1, <1>3, <3>1 DEF Starts, ApPower
  <2> QED
    BY <1>2, <2>1 DEF Power!PowerNext, Power!SwitchOn, Power!powerVars
<1>4. CASE Completes
  <2>1. ApPower = "going" /\ ApPower' = "off"
    BY <1>4 DEF Completes, ApPower, Known, QuiesceInv
  <2> QED
    BY <1>1, <1>2, <2>1 DEF Power!PowerNext, Power!SwitchedOff, Power!powerVars
<1>5. CASE Continues
  <2>1. CASE ~cp.apVoteOn
    <3>1. ApPower = "off" /\ ApPower' = "off"
      BY <1>5, <2>1 DEF Continues, ApPower
    <3> QED
      BY <1>1, <1>2, <3>1 DEF Power!PowerNext, Power!SleepOrWake, Power!powerVars
  <2>2. CASE cp.apVoteOn
    <3>1. cp.sleepVoted = FALSE /\ cp'.sleepVoted = FALSE /\ cp'.apVoteOn
      BY <1>1, <1>5, <2>2 DEF Continues, Known, SleepVoteOnlyApDown
    <3>2. CASE ApPower' = ApPower
      BY <1>2, <3>1, <3>2 DEF Power!powerVars
    <3>3. CASE ApPower' # ApPower
      <4>1. ApPower = "on" /\ ApPower' = "going"
        BY <1>5, <2>2, <3>1, <3>3 DEF Continues, ApPower
      <4>2. ~ApWorking
        <5>1. ~ApWorking'
          BY <4>1 DEF Known
        <5> QED
          BY <1>2, <5>1
      <4> QED
        BY <1>2, <3>1, <4>1, <4>2 DEF Power!PowerNext, Power!Cut, Power!powerVars
    <3> QED
      BY <3>2, <3>3
  <2> QED
    BY <2>1, <2>2
<1> QED
  BY <1>3, <1>4, <1>5 DEF CpMoves

LEMMA ApImplements ==
    ASSUME Known, Known', cp' = cp
    PROVE  [Power!PowerNext]_(Power!powerVars)
<1>1. ApPower' = ApPower /\ cp'.sleepVoted = cp.sleepVoted
  BY DEF ApPower
<1>2. CASE ApPower = "on"
  <2>1. ApWorking' \in BOOLEAN
    BY DEF ApWorking
  <2> QED
    BY <1>1, <1>2, <2>1 DEF Power!PowerNext, Power!Work, Power!powerVars
<1>3. CASE ApPower # "on"
  <2>1. ~ApWorking
    BY <1>3 DEF Known
  <2>2. ~ApWorking'
    BY <1>1, <1>3 DEF Known
  <2>3. ApWorking' = ApWorking
    BY <2>1, <2>2 DEF ApWorking
  <2> QED
    BY <1>1, <2>3 DEF Power!powerVars
<1> QED
  BY <1>2, <1>3

LEMMA RestartImplements ==
    ASSUME Restart
    PROVE  [Power!PowerNext]_(Power!powerVars)
<1>1. "crash" \in Faults /\ cp' = CpReset /\ ap' = ApOff
  BY DEF Restart
<1>2. ApPower' = "off" /\ cp'.sleepVoted = FALSE /\ ApWorking' = FALSE
  BY <1>1 DEF ApPower, ApWorking, CpReset, ApOff
<1> QED
  BY <1>1, <1>2 DEF Power!PowerNext, Power!PowerRestart

LEMMA StepImplements ==
    Known /\ Known' /\ [Next]_vars => [Power!PowerNext]_(Power!powerVars)
<1> SUFFICES ASSUME Known, Known', [Next]_vars
             PROVE  [Power!PowerNext]_(Power!powerVars)
  OBVIOUS
<1>1. CASE Next
  <2>1. CpMoves \/ cp' = cp \/ Restart
    BY <1>1, Sorted DEF Known, JobInv, PowerOn, PowerCut, cpVars
  <2> QED
    BY <2>1, CpImplements, ApImplements, RestartImplements
<1>2. CASE UNCHANGED vars
  BY <1>2, ApImplements DEF vars
<1> QED
  BY <1>1, <1>2

\* aov_ap_stop_and_report_ready: the inductive invariant behind PowerOffSafe, a
\* promise to be quiesced, queued or taken, is kept until the power is cut.
THEOREM QuiesceAlways ==
    ASSUME "late" \notin Faults, "stop" \notin Faults,
           "camera" \in Faults => "QR_DONE" \notin Inputs
    PROVE  Spec => []QuiesceInv
<1>1. Init => QuiesceInv
  BY QuiesceInit
<1>2. /\ Typed /\ ApInv /\ Typed' /\ JobInv /\ QuiesceInv /\ [Next]_vars
      => QuiesceInv'
  BY QuiesceStep
<1>3. Spec => []JobInv
  BY JobInvAlways
<1> QED
  BY <1>1, <1>2, <1>3, TypedAlways, PTL DEF Spec

\* aov_cp_start_ap_job, aov_cp_try_powerdown and aov_cp_complete_ap_powerdown:
\* however many reports are lost and steps fail, the two cores do to the power
\* of the AP what AovPower allows, under the assumptions of PowerOffSafe.
THEOREM PowerRefined ==
    ASSUME "late" \notin Faults, "stop" \notin Faults,
           "camera" \in Faults => "QR_DONE" \notin Inputs
    PROVE  Spec => PowerManaged
<1>1. Init => Power!PowerInit
  <2> SUFFICES ASSUME Init PROVE Power!PowerInit
    OBVIOUS
  <2>1. cp = CpReset /\ ap = ApOff
    BY DEF Init, CpInit, ApInit
  <2>2. ApPower = "off" /\ cp.sleepVoted = FALSE /\ ApWorking = FALSE
    BY <2>1 DEF ApPower, ApWorking, CpReset, ApOff
  <2> QED
    BY <2>2 DEF Power!PowerInit
<1>2. Known /\ Known' /\ [Next]_vars => [Power!PowerNext]_(Power!powerVars)
  BY StepImplements
<1>3. Spec => []Known
  <2>1. Typed /\ ApInv /\ JobInv /\ QuiesceInv /\ SleepVoteOnlyApDown => Known
    BY IdleUnlessOn DEF Known
  <2>2. Spec => []JobInv
    BY JobInvAlways
  <2>3. Spec => []QuiesceInv
    BY QuiesceAlways
  <2> QED
    BY <2>1, <2>2, <2>3, TypedAlways, SleepVoteSafe, PTL
<1> QED
  BY <1>1, <1>2, <1>3, PTL DEF Spec, PowerManaged, Power!PowerSpec

=============================================================================
