----------------------------- MODULE AovSystem -----------------------------
(***************************************************************************)
(* The two cores of the AOV camera together.  The CP votes the AP on and   *)
(* off (powerctrl.c); the power manager acts on the vote and calls the CP  *)
(* back when the AP has lost its power.                                    *)
(***************************************************************************)
EXTENDS AovCp, AovAp

vars == <<queue, wire, toAp, shared, lost, device, cp, ap>>

Init == CpInit /\ ApInit

\* pl_wakeup_host: the AP boots some time after it was voted on.
PowerOn ==
    /\ ap.pc = "off" /\ cp.apVoteOn /\ ~cp.poweringDown
    /\ ap' = [ApOff EXCEPT !.pc = "query"]
    /\ UNCHANGED cpVars

\* Mutant: nobody is told that the AP is off.
PowerCutUntold ==
    /\ ap.pc # "off" /\ cp.poweringDown
    /\ ap' = ApOff
    /\ toAp' = 0
    /\ UNCHANGED <<queue, lost, wire, shared, device, cp>>

\* pl_power_down_host, and aov_cp_ap_power_off_callback when it is done.
PowerCut ==
    /\ ap.pc # "off" /\ cp.poweringDown
    /\ ap' = ApOff
    /\ toAp' = 0
    /\ Post(Plain("AP_POWERED_OFF"))
    /\ UNCHANGED <<wire, shared, device, cp>>

\* A restart of the chip.  RAM is cleared, the record in flash stays.
Restart ==
    /\ "crash" \in Faults
    /\ queue' = <<Plain("BOOT")>> /\ wire' = {} /\ toAp' = 0
    /\ shared' = [seq |-> 0, job |-> "NONE", valid |-> FALSE,
                  described |-> NoFrame, buffer |-> NoFrame]
    /\ lost' = FALSE
    /\ device' = Cold(device.flash)
    /\ cp' = CpReset
    /\ ap' = ApOff

CpStep == (Worker \/ DetectTick \/ OneshotFires) /\ UNCHANGED ap
ApStep == (JobStep \/ WifiStep) /\ UNCHANGED <<device, cp>>
UserStep ==
    \/ (ProductEvent \/ WifiCommand) /\ UNCHANGED ap
    \/ "QR_DONE" \in Inputs /\ CompleteQr /\ UNCHANGED <<device, cp>>
Transport == LateArrival /\ UNCHANGED <<device, cp, ap>>

Next ==
    \/ CpStep \/ ApStep \/ PowerOn \/ PowerCut
    \/ UserStep \/ Transport \/ Restart

Spec == Init /\ [][Next]_vars

\* The workers and the job runner are threads that get the CPU; an alarm
\* that is registered fires; the power manager acts on a vote.  A detect tick
\* is not for ever the one that follows another too closely.  Neither the
\* product, nor the Wi-Fi network, nor a failure is owed.
Fairness ==
    /\ WF_vars(Worker /\ UNCHANGED ap)
    /\ SF_vars(HandleDetectTimer /\ UNCHANGED ap)
    /\ WF_vars(DetectTick /\ UNCHANGED ap)
    /\ WF_vars(OneshotFires /\ UNCHANGED ap)
    /\ WF_vars(JobStep /\ UNCHANGED <<device, cp>>)
    /\ WF_vars(WifiWorker /\ UNCHANGED <<device, cp>>)
    /\ WF_vars(PowerOn)
    /\ WF_vars(PowerCut)

FairSpec == Spec /\ Fairness

-----------------------------------------------------------------------------
(* Safety.                                                                 *)

\* Every variable keeps to its type and the queues to their depths.
TypeOK == CpTypeOK /\ ApTypeOK

\* aov_cp_vote_rtc_sleep: whatever order ticks, reports and power-off come
\* in, the CP never holds its low-voltage sleep vote while the AP is voted on.
SleepVoteOnlyApDown == cp.sleepVoted => ~cp.apVoteOn

\* aov_cp_try_powerdown and aov_ap_stop_and_report_ready: the CP cuts the
\* power only of an AP whose camera is off and whose job is over, "so CP still
\* gates power-off on a fully quiesced AP".
PowerOffOnlyWhenQuiesced ==
    cp.poweringDown => ap.pc \in {"off", "final", "done"} /\ ~ap.camera

\* aov_cp_job_requires_gray: a motion check is let off its last picture only
\* when its own AP saw motion or failed, never by the late report of another
\* job.
GrayWaiverEarned ==
    cp.activeJob = "MOTION_CHECK" /\ cp.abortingJob /\ ap.pc # "off"
        => ap.seen \/ ap.failed

\* aov_cp_handle_ap_report: as long as the CP shows a job state the AP is
\* voted on; no late report of a finished job brings the state back.
JobStatesVoteOn ==
    cp.state \in {"AP_BOOTING", "AP_WORKING", "AP_POWERDOWN"} => cp.apVoteOn

\* aov_cp_complete_ap_powerdown: with the AP down and the product connected
\* or registering, the periodic detection is armed, so the AP wakes again.
DetectionArmed ==
    cp.state \in {"KEEPALIVE", "CLOUD_REGISTERING"} /\ ~cp.apVoteOn
        => cp.detectArmed

\* aov_cp_enter_retry: the retry that RETRY_WAIT waits for is still to come,
\* although starting or ending an AP job cancels the one-shot alarm.
RetryPending ==
    cp.state = "RETRY_WAIT" /\ ~lost
        => cp.oneshotArmed \/ Waiting("RETRY_TIMEOUT") # {}

\* aov_ap_copy_current_gray_to_cp: between two jobs the picture kept for the
\* next comparison is the one that its descriptor (and crc32) describes.
GrayConsistent ==
    ~cp.apVoteOn /\ shared.valid /\ ~lost => shared.described = shared.buffer

\* aov_device_state_commit and the aov_wifi command: what the CP works with is
\* what a restart will load.
RecordWrittenThrough == device.loaded => device.ram = device.flash

(* Action properties.                                                      *)

\* aov_cp_arm_detect_rtc: "Keep one free-running RTC phase. AP jobs must not
\* cancel or re-register it".
DetectPhaseKept == [][cp.detectArmed => cp'.detectArmed]_cp

\* aov_device_factory_reset: a factory reset that was promised in flash stays
\* promised over restarts, failed writes and new Wi-Fi credentials.
PendingResetSurvives == [][device.flash.reset => device'.flash.reset]_device

(* The refinement.                                                         *)

\* The vote that powerctrl.c holds on the AP, as its battery sees it.
ApPower == IF ~cp.apVoteOn THEN "off" ELSE IF cp.poweringDown THEN "going" ELSE "on"

ApWorking == ap.pc \notin {"off", "final", "done"} \/ ap.camera

Power == INSTANCE AovPower WITH
    power <- ApPower, asleep <- cp.sleepVoted, working <- ApWorking,
    CanRestart <- "crash" \in Faults

\* aov_cp_start_ap_job, aov_cp_try_powerdown and aov_cp_complete_ap_powerdown:
\* over lost reports, failures and restarts, the two cores switch the AP on and
\* off as AovPower says, and never otherwise.
PowerManaged == Power!PowerSpec

\* aov_cp_ap_power_off_callback: without faults an AP whose power is being cut
\* is taken to be off in the end, so that it can be switched on again.
PowerReturns == Power!PowerFairSpec

(* Liveness.                                                               *)

\* aov_cp_try_powerdown: every motion check ends with the AP down.
MotionJobEnds == cp.activeJob = "MOTION_CHECK" ~> (~cp.apVoteOn \/ lost)

\* aov_cp_handle_event, DETECT_TIMER: from KEEPALIVE with the AP down a tick
\* wakes the AP for the next motion check.
DetectionRecurs ==
    cp.state = "KEEPALIVE" /\ ~cp.apVoteOn ~> (cp.apVoteOn \/ lost)

=============================================================================
