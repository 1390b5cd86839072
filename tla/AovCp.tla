------------------------------- MODULE AovCp -------------------------------
(***************************************************************************)
(* The AOV state machine of the CP core (aov_cp_state_machine.c): the      *)
(* worker that handles one queued event at a time, and the two interrupt   *)
(* level callbacks that only post events (alarms and AP power-off).        *)
(*                                                                         *)
(* Operators named after a function of the code take the state record to   *)
(* its new value, or to the set of its possible new values where the power *)
(* manager may refuse.  Actions are one per event, report or interrupt.    *)
(***************************************************************************)
EXTENDS AovDevice

CONSTANTS
    Inputs,        \* the product events and CLI commands this instance posts
    Orderly,       \* whether the product answers only what it was asked
    InputBacklog,  \* bound: the product posts only behind fewer events
    TickBacklog    \* bound: detect ticks that may wait in the queue

CliInputs == {"WIFI_SET", "WIFI_CLEAR", "QR_DONE"}

ASSUME CpAssumption ==
    /\ Inputs \subseteq ProductEvents \cup CliInputs
    /\ Orderly \in BOOLEAN
    /\ InputBacklog \in Nat
    /\ TickBacklog \in Nat \ {0}

VARIABLE cp   \* s_cp_sm

cpVars == <<ipcVars, device, cp>>

CpRecord ==
    [state : CpStates, returnState : CpStates,
     activeJob : Jobs, activeSeq : Seqs,
     apVoteOn : BOOLEAN, poweringDown : BOOLEAN,
     workComplete : BOOLEAN, lastGrayReady : BOOLEAN,
     powerdownReady : BOOLEAN, abortingJob : BOOLEAN,
     detectArmed : BOOLEAN,    \* the periodic alarm is registered
     sleepVoted : BOOLEAN,     \* rtc_sleep_voted
     oneshotArmed : BOOLEAN,   \* the one-shot alarm is still to fire
     tickSeen : BOOLEAN]       \* s_detect_last_evt_ms # 0

CpTypeOK == DeviceTypeOK /\ IpcTypeOK /\ cp \in CpRecord

CpReset ==
    [state |-> "BOOT_INIT", returnState |-> "KEEPALIVE",
     activeJob |-> "NONE", activeSeq |-> 0,
     apVoteOn |-> FALSE, poweringDown |-> FALSE,
     workComplete |-> FALSE, lastGrayReady |-> FALSE,
     powerdownReady |-> FALSE, abortingJob |-> FALSE,
     detectArmed |-> FALSE, sleepVoted |-> FALSE,
     oneshotArmed |-> FALSE, tickSeen |-> FALSE]

CpInit == IpcInit /\ DeviceInit /\ cp = CpReset

-----------------------------------------------------------------------------
(* Alarms and the low-voltage sleep vote.                                  *)

VoteSleep(c) ==
    {[c EXCEPT !.sleepVoted = TRUE]} \cup (IF "pm" \in Faults THEN {c} ELSE {})

\* Register the periodic alarm once, then only restore the vote.  If the
\* first vote is refused the alarm is cancelled again.
ArmDetect(c) ==
    {[c EXCEPT !.detectArmed = TRUE, !.sleepVoted = TRUE]} \cup
    IF "pm" \in Faults
    THEN {c, [c EXCEPT !.tickSeen = c.detectArmed /\ c.tickSeen]} ELSE {}

ArmOneshot(c) ==
    {[c EXCEPT !.oneshotArmed = TRUE]} \cup
    IF "pm" \in Faults THEN {[c EXCEPT !.oneshotArmed = FALSE]} ELSE {}

\* Mutant: the retry alarm is forgotten.
EnterRetryUnarmed(c) == {[c EXCEPT !.state = "RETRY_WAIT"]}

EnterRetry(c) == ArmOneshot([c EXCEPT !.state = "RETRY_WAIT"])

-----------------------------------------------------------------------------
(* Starting and ending an AP job.                                          *)

ResetJobFlags(c) ==
    [c EXCEPT !.workComplete = FALSE, !.lastGrayReady = FALSE,
              !.powerdownReady = FALSE, !.abortingJob = FALSE]

\* The record of a new job, before the AP is voted on.
NewJob(c, job, returnState) ==
    [c EXCEPT !.oneshotArmed = FALSE, !.activeSeq = NextSeq(@),
              !.activeJob = job, !.returnState = returnState,
              !.state = "AP_BOOTING"]

\* Mutants of the start of a job: the sleep vote is kept, the flags of the
\* last job are kept, the detect alarm is cancelled, the AP is not voted on.
StartKeepsVote(c, job, returnState) ==
    [NewJob(ResetJobFlags(c), job, returnState) EXCEPT !.apVoteOn = TRUE]
StartKeepsFlags(c, job, returnState) ==
    [NewJob(c, job, returnState) EXCEPT !.sleepVoted = FALSE, !.apVoteOn = TRUE]
StartCancelsDetect(c, job, returnState) ==
    [NewJob(ResetJobFlags(c), job, returnState) EXCEPT
        !.sleepVoted = FALSE, !.apVoteOn = TRUE, !.detectArmed = FALSE]
StartWithoutVote(c, job, returnState) ==
    [NewJob(ResetJobFlags(c), job, returnState) EXCEPT !.sleepVoted = FALSE]

StartApJob(c, job, returnState) ==
    [NewJob(ResetJobFlags(c), job, returnState) EXCEPT
        !.sleepVoted = FALSE, !.apVoteOn = TRUE]

\* A report that timed out at its sender arrives, and is handled, before the
\* sequence number of its job comes round again: once queued it may still wait
\* through one more start.
Forget(n) == wire' = {r \in wire : r.seq \notin {n, NextSeq(n)}}

\* The whole effect of aov_cp_start_ap_job with the AP down, from record c.
Launch(c, job, returnState) ==
    LET d == StartApJob(c, job, returnState)
    IN  /\ ~c.apVoteOn
        /\ cp' = d
        /\ shared' = [shared EXCEPT !.seq = d.activeSeq, !.job = job]
        /\ Forget(d.activeSeq)

RequiresGray(c) == c.activeJob = "MOTION_CHECK" /\ ~c.abortingJob

FinishPowerdown(c) ==
    LET d == [c EXCEPT !.oneshotArmed = FALSE]
    IN  IF ~c.apVoteOn \/ c.poweringDown THEN d
        ELSE [d EXCEPT !.poweringDown = TRUE, !.state = "AP_POWERDOWN"]

\* Mutant: power goes off as soon as the work is done.
TryPowerdownEarly(c) ==
    IF c.workComplete /\ (RequiresGray(c) => c.lastGrayReady)
    THEN FinishPowerdown(c) ELSE c

TryPowerdown(c) ==
    IF c.workComplete /\ c.powerdownReady /\ (RequiresGray(c) => c.lastGrayReady)
    THEN FinishPowerdown(c) ELSE c

\* Mutants: the return state is not restored; detection resumes only in
\* KEEPALIVE.
CompleteWithoutReturn(c) ==
    {[c EXCEPT !.poweringDown = FALSE, !.apVoteOn = FALSE, !.activeJob = "NONE"]}
CompleteArmsLess(c) ==
    LET d == [c EXCEPT !.poweringDown = FALSE, !.apVoteOn = FALSE,
                       !.activeJob = "NONE", !.state = c.returnState]
    IN  IF c.returnState = "KEEPALIVE" THEN ArmDetect(d) ELSE {d}

CompletePowerdown(c) ==
    LET d == [c EXCEPT !.poweringDown = FALSE, !.apVoteOn = FALSE,
                       !.activeJob = "NONE", !.state = c.returnState]
    IN  IF c.returnState \in {"KEEPALIVE", "CLOUD_REGISTERING"}
        THEN ArmDetect(d) ELSE {d}

\* States in which a detect tick wakes the AP; as a mutant, one too few.
DetectStatesFewer == {"CLOUD_REGISTERING"}
DetectStates == {"KEEPALIVE", "CLOUD_REGISTERING"}

\* aov_device_start_wifi_connect, and the retry its callers fall back to.
StartWifi(c) ==
    \/ /\ CredentialsValid(device) /\ toAp < IpcDepth
       /\ toAp' = toAp + 1
       /\ cp' = c
    \/ /\ ~CredentialsValid(device) \/ toAp = IpcDepth \/ "ipc" \in Faults
       /\ cp' \in EnterRetry(c)
       /\ UNCHANGED toAp

\* Shared by PROVISION_SUCCESS and RETRY_TIMEOUT.
ConnectWifi ==
    LET c == [cp EXCEPT !.state = "WIFI_CONNECTING"]
    IN  \/ cp.apVoteOn /\ StartWifi(c) /\ UNCHANGED <<shared, wire>>
        \/ Launch(c, "WIFI_CONNECT", "WIFI_CONNECTING") /\ UNCHANGED toAp

-----------------------------------------------------------------------------
(* aov_cp_worker takes one event from the queue.                           *)

IsNext(id) == queue # <<>> /\ Head(queue).id = id
Take(id) == IsNext(id) /\ queue' = Tail(queue) /\ UNCHANGED lost

HandleBoot ==
    LET d == Load(device)
    IN  /\ Take("BOOT")
        /\ \/ /\ Restored(d) = "FACTORY_RESETTING"
              /\ cp' = [cp EXCEPT !.state = "FACTORY_RESETTING"]
              /\ device' \in ResetRequested(d)
              /\ UNCHANGED <<shared, wire>>
           \/ /\ Restored(d) = "OTA_UPGRADING"
              /\ cp' = [cp EXCEPT !.state = "OTA_UPGRADING"]
              /\ device' \in Commits(d, "OTA_UPGRADING")
              /\ UNCHANGED <<shared, wire>>
           \/ /\ Restored(d) = "WIFI_CONNECTING"
              /\ device' = d
              /\ Launch(cp, "WIFI_CONNECT", "WIFI_CONNECTING")
           \/ /\ Restored(d) = "UNPROVISIONED"
              /\ device' \in Commits(d, "UNPROVISIONED")
              /\ Launch(cp, "QR_PROVISION", "UNPROVISIONED")
        /\ UNCHANGED toAp

HandleProvisionStart ==
    /\ Take("PROVISION_START")
    /\ cp' = [cp EXCEPT !.state = "PROVISIONING"]
    /\ UNCHANGED <<wire, toAp, shared, device>>

HandleProvisionFail ==
    /\ Take("PROVISION_FAIL")
    /\ cp' = [cp EXCEPT !.state = "UNPROVISIONED"]
    /\ device' \in Commits(device, "UNPROVISIONED")
    /\ UNCHANGED <<wire, toAp, shared>>

HandleProvisionSuccess ==
    Take("PROVISION_SUCCESS") /\ ConnectWifi /\ UNCHANGED device

HandleRetryTimeout ==
    Take("RETRY_TIMEOUT") /\ ConnectWifi /\ UNCHANGED device

\* The device's start_cloud_register only logs and always succeeds.
HandleWifiConnected ==
    /\ Take("WIFI_CONNECTED")
    /\ cp' = [cp EXCEPT !.state = "CLOUD_REGISTERING"]
    /\ UNCHANGED <<wire, toAp, shared, device>>

HandleConnectFail ==
    /\ Take("WIFI_CONNECT_FAIL") \/ Take("CLOUD_REGISTER_FAIL")
    /\ cp' \in EnterRetry(cp)
    /\ UNCHANGED <<wire, toAp, shared, device>>

HandleCloudRegistered ==
    /\ Take("CLOUD_REGISTERED")
    /\ cp' \in IF cp.apVoteOn
               THEN {[cp EXCEPT !.state = "KEEPALIVE", !.returnState = "KEEPALIVE"]}
               ELSE ArmDetect([cp EXCEPT !.state = "KEEPALIVE"])
    /\ device' \in Commits(device, "KEEPALIVE")
    /\ UNCHANGED <<wire, toAp, shared>>

\* A tick less than 4/5 of the interval after the last one handled is
\* dropped; that takes an earlier tick whose handling was delayed.
DropDetectTimer ==
    /\ Take("DETECT_TIMER")
    /\ cp.tickSeen
    /\ UNCHANGED <<wire, toAp, shared, device, cp>>

HandleDetectTimer ==
    LET c == [cp EXCEPT !.tickSeen = TRUE]
    IN  /\ Take("DETECT_TIMER")
        /\ \/ cp.apVoteOn /\ cp' = c /\ UNCHANGED <<shared, wire>>
           \/ /\ cp.state \in DetectStates
              /\ Launch(c, "MOTION_CHECK", cp.state)
           \/ /\ ~cp.apVoteOn /\ cp.state \notin DetectStates
              /\ cp' \in VoteSleep(c)
              /\ UNCHANGED <<shared, wire>>
        /\ UNCHANGED <<toAp, device>>

HandleLiveStart ==
    /\ Take("LIVE_START")
    /\ \/ cp.state = "KEEPALIVE" /\ Launch(cp, "LIVE_STREAM", "KEEPALIVE")
       \/ /\ cp.state # "KEEPALIVE" \/ cp.apVoteOn
          /\ UNCHANGED <<cp, shared, wire>>
    /\ UNCHANGED <<toAp, device>>

\* STATE_TIMEOUT only logs ("Do not force-close AP"), LIVE_STOP too.
HandleIgnored ==
    /\ Take("STATE_TIMEOUT") \/ Take("LIVE_STOP")
    /\ UNCHANGED <<wire, toAp, shared, device, cp>>

HandleFactoryReset ==
    /\ Take("FACTORY_RESET")
    /\ cp' = [cp EXCEPT !.state = "FACTORY_RESETTING"]
    /\ device' \in ResetRequested(device)
    /\ UNCHANGED <<wire, toAp, shared>>

HandleOtaStart ==
    /\ Take("OTA_START")
    /\ cp' = [cp EXCEPT !.state = "OTA_UPGRADING"]
    /\ device' \in Commits(device, "OTA_UPGRADING")
    /\ UNCHANGED <<wire, toAp, shared>>

HandleOtaFinish ==
    /\ Take("OTA_FINISH")
    /\ cp' = [cp EXCEPT !.state = "BOOT_INIT"]
    /\ UNCHANGED <<wire, toAp, shared, device>>

HandlePoweredOff ==
    /\ Take("AP_POWERED_OFF")
    /\ IF cp.poweringDown
       THEN /\ cp' \in CompletePowerdown(cp)
            /\ shared' = [shared EXCEPT !.job = "NONE"]
            /\ device' \in Commits(device, cp.returnState)
       ELSE UNCHANGED <<cp, shared, device>>
    /\ UNCHANGED <<wire, toAp>>

-----------------------------------------------------------------------------
(* aov_cp_handle_ap_report: reports about another job than the active one  *)
(* are dropped.                                                            *)

\* Mutant: the sequence number is not compared.
NextReportOfAnyJob(ids) == IsNext("AP_REPORT") /\ Head(queue).report \in ids

NextReport(ids) ==
    /\ IsNext("AP_REPORT")
    /\ Head(queue).report \in ids
    /\ Head(queue).seq = cp.activeSeq

TakeReport(ids) == NextReport(ids) /\ queue' = Tail(queue) /\ UNCHANGED lost

StaleReport ==
    /\ Take("AP_REPORT")
    /\ Head(queue).seq # cp.activeSeq
    /\ UNCHANGED <<wire, toAp, shared, device, cp>>

BootReady ==
    /\ TakeReport({"BOOT_READY"})
    /\ LET c == [cp EXCEPT !.oneshotArmed = FALSE, !.state = "WIFI_CONNECTING"]
       IN  \/ cp.activeJob = "WIFI_CONNECT" /\ StartWifi(c)
           \/ /\ cp.activeJob # "WIFI_CONNECT"
              /\ cp' = [cp EXCEPT !.state = "AP_WORKING",
                          !.oneshotArmed = cp.activeJob = "MOTION_CHECK" /\ @]
              /\ UNCHANGED toAp
    /\ UNCHANGED <<wire, shared, device>>

\* The job goes on as a motion check; the event is posted behind whatever
\* the AP has reported since.
WifiConnected ==
    /\ NextReport({"WIFI_CONNECTED"})
    /\ cp' = [cp EXCEPT !.activeJob = "MOTION_CHECK",
                        !.returnState = "CLOUD_REGISTERING"]
    /\ shared' = [shared EXCEPT !.job = "MOTION_CHECK"]
    /\ PostTo(Tail(queue), Plain("WIFI_CONNECTED"))
    /\ UNCHANGED <<wire, toAp, device>>

WifiConnectFailed ==
    /\ NextReport({"WIFI_CONNECT_FAILED"})
    /\ PostTo(Tail(queue), Plain("WIFI_CONNECT_FAIL"))
    /\ UNCHANGED <<wire, toAp, shared, device, cp>>

\* Mutant: the last report is only noted.
WorkDoneNoted ==
    /\ TakeReport({"NO_MOTION", "EVENT_DONE"})
    /\ cp' = [cp EXCEPT !.workComplete = TRUE, !.state = "AP_POWERDOWN"]
    /\ UNCHANGED <<wire, toAp, shared, device>>

WorkDone ==
    /\ TakeReport({"NO_MOTION", "EVENT_DONE"})
    /\ cp' = TryPowerdown([cp EXCEPT !.workComplete = TRUE,
                                     !.state = "AP_POWERDOWN"])
    /\ UNCHANGED <<wire, toAp, shared, device>>

LastGrayReady ==
    /\ TakeReport({"LAST_GRAY_READY"})
    /\ shared' = [shared EXCEPT !.valid = TRUE, !.described = Head(queue).frame]
    /\ cp' = TryPowerdown([cp EXCEPT !.lastGrayReady = TRUE])
    /\ UNCHANGED <<wire, toAp, device>>

PowerdownReady ==
    /\ TakeReport({"POWERDOWN_READY"})
    /\ cp' = TryPowerdown([cp EXCEPT !.powerdownReady = TRUE])
    /\ UNCHANGED <<wire, toAp, shared, device>>

MotionDetected ==
    /\ TakeReport({"MOTION_DETECTED"})
    /\ cp' = [cp EXCEPT !.abortingJob = TRUE]
    /\ UNCHANGED <<wire, toAp, shared, device>>

ApError ==
    /\ TakeReport({"ERROR"})
    /\ cp' = TryPowerdown([cp EXCEPT !.abortingJob = TRUE, !.workComplete = TRUE])
    /\ UNCHANGED <<wire, toAp, shared, device>>

HandleReport ==
    \/ StaleReport \/ BootReady \/ WifiConnected \/ WifiConnectFailed
    \/ WorkDone \/ LastGrayReady \/ PowerdownReady \/ MotionDetected \/ ApError

Worker ==
    \/ HandleBoot \/ HandleProvisionStart \/ HandleProvisionFail
    \/ HandleProvisionSuccess \/ HandleRetryTimeout \/ HandleWifiConnected
    \/ HandleConnectFail \/ HandleCloudRegistered \/ DropDetectTimer
    \/ HandleDetectTimer \/ HandleLiveStart \/ HandleIgnored
    \/ HandleFactoryReset \/ HandleOtaStart \/ HandleOtaFinish
    \/ HandlePoweredOff \/ HandleReport

-----------------------------------------------------------------------------
(* Interrupts and inputs.                                                  *)

Waiting(id) == {i \in DOMAIN queue : queue[i].id = id}

\* The periodic alarm: the sleep vote is dropped before the tick is queued.
DetectTick ==
    /\ cp.detectArmed
    /\ Cardinality(Waiting("DETECT_TIMER")) < TickBacklog
    /\ cp' = [cp EXCEPT !.sleepVoted = FALSE]
    /\ Post(Plain("DETECT_TIMER"))
    /\ UNCHANGED <<wire, toAp, shared, device>>

OneshotFires ==
    /\ cp.oneshotArmed
    /\ cp' = [cp EXCEPT !.oneshotArmed = FALSE]
    /\ Post(Plain("RETRY_TIMEOUT"))
    /\ UNCHANGED <<wire, toAp, shared, device>>

\* An orderly product reports the outcome of a registration while one is
\* under way, and provisions a device that is not provisioned; aov_sm inject
\* posts anything at any time.
Expected(id) ==
    CASE id \in {"CLOUD_REGISTERED", "CLOUD_REGISTER_FAIL"} ->
            cp.state = "CLOUD_REGISTERING"
      [] id \in {"PROVISION_START", "PROVISION_SUCCESS", "PROVISION_FAIL"} ->
            \/ cp.activeJob = "QR_PROVISION"
            \/ cp.state \in {"UNPROVISIONED", "PROVISIONING"}
      [] OTHER -> TRUE

\* aov_cp_state_machine_post_event from the product (or aov_sm inject).
ProductEvent ==
    \E id \in Inputs \cap ProductEvents :
        /\ Len(queue) < InputBacklog
        /\ Orderly => Expected(id)
        /\ Post(Plain(id))
        /\ UNCHANGED <<wire, toAp, shared, device, cp>>

\* The aov_wifi command, typed once the CP has booted.
WifiCommand ==
    /\ device.loaded
    /\ \/ "WIFI_SET" \in Inputs /\ device' \in SetWifi(device)
       \/ "WIFI_CLEAR" \in Inputs /\ device' \in ClearWifi(device)
    /\ UNCHANGED <<ipcVars, cp>>

=============================================================================
