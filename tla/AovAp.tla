------------------------------- MODULE AovAp -------------------------------
(***************************************************************************)
(* The AOV job runner of the AP core (aov_ap_state_machine.c), its camera  *)
(* (aov_ap_motion.c, aov_ap_qr_provision.c) and its Wi-Fi worker           *)
(* (aov_ap_wifi.c).  The AP boots, reads its job from the shared           *)
(* environment, runs it, reports to the CP and waits to be powered off.    *)
(***************************************************************************)
EXTENDS AovIpc

CONSTANTS
    SlowWifi,      \* whether the network takes longer than the AP's boot
    NoMotionStop,  \* AOV_CONSECUTIVE_NO_MOTION_STOP_COUNT
    MaxMotion      \* bound: comparisons of one job that see motion

ASSUME ApAssumption ==
    SlowWifi \in BOOLEAN /\ NoMotionStop \in Nat \ {0} /\ MaxMotion \in Nat

VARIABLE ap

apVars == <<ipcVars, ap>>

WifiQueueDepth == 2

\* Where the thread that runs the job is.  "idle": waiting for the Wi-Fi
\* worker, the QR scanner or nothing at all; "done": everything reported.
Pcs == {"off", "query", "hello", "dispatch", "idle", "capture", "second",
        "compare", "advance", "save", "lastGray", "failing", "abort",
        "ready", "final", "done"}

ApRecord ==
    [pc : Pcs, job : Jobs, seq : Seqs,
     cur : Picture,            \* s_current_gray
     seen : BOOLEAN,           \* motion_seen
     quiet : 0 .. NoMotionStop,\* consecutive_no_motion
     stir : 0 .. MaxMotion,    \* comparisons of this job that saw motion
     failed : BOOLEAN,         \* the job ended in aov_ap_fail_and_stop
     camera : BOOLEAN,         \* a camera pipeline is on
     runner : {"main", "worker"},  \* the thread running the job
     wifiQ : Seq({"connect", "motion"}),
     connecting : BOOLEAN]     \* s_wifi_connecting

ApOff == [pc |-> "off", job |-> "NORMAL_BOOT", seq |-> 0, cur |-> NoFrame,
          seen |-> FALSE, quiet |-> 0, stir |-> 0, failed |-> FALSE,
          camera |-> FALSE, runner |-> "main", wifiQ |-> <<>>,
          connecting |-> FALSE]

ApTypeOK == ap \in ApRecord /\ Len(ap.wifiQ) <= WifiQueueDepth

ApInit == ap = ApOff

\* The steps that may fail do so only when the instance admits the fault.
Fails(kind) == kind \in Faults

Goto(pc) == [ap EXCEPT !.pc = pc]

\* Send a report about the job and go on whether or not it got through.
Tell(rid, f) == SendReport(Report(rid, ap.seq, f)) /\ UNCHANGED <<toAp, shared>>

-----------------------------------------------------------------------------
(* aov_ap_state_machine_init and _start.                                   *)

QueryEnv ==
    /\ ap.pc = "query"
    /\ \/ ap' = [ap EXCEPT !.pc = "hello", !.seq = shared.seq, !.job = shared.job]
       \/ Fails("ipc") /\ ap' = Goto("idle")   \* a normal boot, no job
    /\ UNCHANGED ipcVars

Hello ==
    /\ ap.pc = "hello"
    /\ Tell("BOOT_READY", NoFrame)
    /\ ap' = Goto("dispatch")

\* aov_ap_run_job.  No live_start operation is registered in ap_main.c.
Dispatch ==
    /\ ap.pc = "dispatch"
    /\ ap' \in CASE ap.job = "QR_PROVISION" ->
                      {[ap EXCEPT !.pc = "idle", !.camera = TRUE]} \cup
                      IF Fails("camera") THEN {Goto("failing")} ELSE {}
                 [] ap.job = "MOTION_CHECK" -> {Goto("capture")}
                 [] ap.job = "LIVE_STREAM" -> {Goto("failing")}
                 [] OTHER -> {Goto("idle")}
    /\ UNCHANGED ipcVars

-----------------------------------------------------------------------------
(* aov_ap_run_motion_check.  The reference picture of every comparison is  *)
(* the buffer in the CP's memory, overwritten in place.                    *)

\* ops.capture_gray: a new current picture, then on to pc; or a failure,
\* after which the camera may be on as well.
Captures(a, pc) ==
    {[a EXCEPT !.pc = pc, !.cur = f, !.camera = TRUE] : f \in Frames} \cup
    IF Fails("camera") THEN {[a EXCEPT !.pc = "failing", !.camera = TRUE]} ELSE {}

Capture ==
    /\ ap.pc = "capture"
    /\ ap' \in Captures(ap, IF shared.valid THEN "compare" ELSE "second")
    /\ UNCHANGED ipcVars

\* Without a saved picture the first one becomes the reference.
SecondSample ==
    /\ ap.pc = "second"
    /\ shared' = [shared EXCEPT !.buffer = ap.cur]
    /\ ap' \in Captures(ap, "compare")
    /\ UNCHANGED <<queue, wire, toAp, lost>>

CompareFails ==
    /\ ap.pc = "compare" /\ Fails("camera")
    /\ ap' = Goto("failing")
    /\ UNCHANGED ipcVars

SeesMotion ==
    /\ ap.pc = "compare" /\ ap.stir < MaxMotion
    /\ ap' = [ap EXCEPT !.pc = "advance", !.quiet = 0, !.seen = TRUE, !.stir = @ + 1]
    /\ IF ap.seen THEN UNCHANGED ipcVars ELSE Tell("MOTION_DETECTED", NoFrame)

SeesNoMotion ==
    /\ ap.pc = "compare"
    /\ ap' = IF ~ap.seen THEN Goto("save")
             ELSE [ap EXCEPT !.quiet = @ + 1,
                     !.pc = IF ap.quiet + 1 >= NoMotionStop THEN "save" ELSE "advance"]
    /\ UNCHANGED ipcVars

Advance ==
    /\ ap.pc = "advance"
    /\ shared' = [shared EXCEPT !.buffer = ap.cur]
    /\ ap' \in Captures(ap, "compare")
    /\ UNCHANGED <<queue, wire, toAp, lost>>

-----------------------------------------------------------------------------
(* aov_ap_stop_and_report_ready and aov_ap_fail_and_stop.                  *)

\* ops.stop_all, whose result nobody looks at.
StopAll(a) == {[a EXCEPT !.camera = FALSE]} \cup IF Fails("stop") THEN {a} ELSE {}

\* Mutant: the picture is described but not copied.
StopWithoutCopy ==
    /\ ap.pc = "save"
    /\ ap' \in StopAll(Goto("lastGray"))
    /\ UNCHANGED ipcVars

SaveGrayAndStop ==
    /\ ap.pc = "save"
    /\ shared' = [shared EXCEPT !.buffer = ap.cur]
    /\ ap' \in StopAll(Goto("lastGray"))
    /\ UNCHANGED <<queue, wire, toAp, lost>>

SendLastGray ==
    /\ ap.pc = "lastGray"
    /\ Tell("LAST_GRAY_READY", ap.cur)
    /\ ap' = Goto("ready")

SendError ==
    /\ ap.pc = "failing"
    /\ Tell("ERROR", NoFrame)
    /\ ap' = [ap EXCEPT !.pc = "abort", !.failed = TRUE]

AbortStop ==
    /\ ap.pc = "abort"
    /\ ap' \in StopAll(Goto("ready"))
    /\ UNCHANGED ipcVars

SendPowerdownReady ==
    /\ ap.pc = "ready"
    /\ Tell("POWERDOWN_READY", NoFrame)
    /\ ap' = Goto(IF ap.failed THEN "done" ELSE "final")

SendFinal ==
    /\ ap.pc = "final"
    /\ Tell(IF ap.seen THEN "EVENT_DONE" ELSE "NO_MOTION", NoFrame)
    /\ ap' = Goto("done")

JobStep ==
    \/ QueryEnv \/ Hello \/ Dispatch
    \/ Capture \/ SecondSample \/ CompareFails \/ SeesMotion \/ SeesNoMotion
    \/ Advance
    \/ SaveGrayAndStop \/ SendLastGray \/ SendError \/ AbortStop
    \/ SendPowerdownReady \/ SendFinal

-----------------------------------------------------------------------------
(* aov_ap_wifi.c.  Events of the Wi-Fi stack arrive in its own thread.     *)

\* aov_ap_state_machine_report_wifi_result refuses once the job is another.
WaitsForWifi == ap.job = "WIFI_CONNECT"
ReadyForMotion == WaitsForWifi /\ ap.pc = "idle"

WifiPush(q, r) == IF Len(q) < WifiQueueDepth THEN Append(q, r) ELSE q

\* aov_ap_customer_event_handler
WifiRequest ==
    /\ toAp > 0 /\ ap.pc # "off"
    /\ toAp' = toAp - 1
    /\ ap' = [ap EXCEPT !.wifiQ = WifiPush(@, "connect")]
    /\ IF Len(ap.wifiQ) < WifiQueueDepth \/ ~WaitsForWifi
       THEN UNCHANGED <<queue, wire, lost>>
       ELSE SendReport(Report("WIFI_CONNECT_FAILED", ap.seq, NoFrame))
    /\ UNCHANGED shared

WorkerFree == ap.pc # "off" /\ (ap.runner = "main" \/ ap.pc \in {"idle", "done"})

WifiConnect ==
    /\ WorkerFree /\ ap.wifiQ # <<>> /\ Head(ap.wifiQ) = "connect"
    /\ ap' = [ap EXCEPT !.wifiQ = Tail(@), !.connecting = TRUE]
    /\ UNCHANGED ipcVars

\* aov_ap_state_machine_start_motion_check, run by the Wi-Fi worker.
WifiMotion ==
    /\ WorkerFree /\ ap.wifiQ # <<>> /\ Head(ap.wifiQ) = "motion"
    /\ ap' = LET a == [ap EXCEPT !.wifiQ = Tail(@)]
             IN  IF ReadyForMotion
                 THEN [a EXCEPT !.job = "MOTION_CHECK", !.pc = "capture",
                                !.runner = "worker"]
                 ELSE a
    /\ UNCHANGED ipcVars

\* aov_ap_wifi_event_cb, or bk_wifi_sta_start refusing.
WifiDown ==
    /\ ap.connecting /\ Fails("wifi")
    /\ ap' = [ap EXCEPT !.connecting = FALSE]
    /\ IF WaitsForWifi THEN Tell("WIFI_CONNECT_FAILED", NoFrame)
       ELSE UNCHANGED ipcVars

\* aov_ap_netif_event_cb: the motion check is queued behind the report, and
\* only if the report got through.
WifiUp ==
    LET a == [ap EXCEPT !.connecting = FALSE]
        r == Report("WIFI_CONNECTED", ap.seq, NoFrame)
    IN  /\ ap.connecting
        /\ SlowWifi => ap.pc \notin {"query", "hello", "dispatch"}
        /\ \/ /\ WaitsForWifi /\ Delivered(r)
              /\ ap' = [a EXCEPT !.wifiQ = WifiPush(@, "motion")]
           \/ WaitsForWifi /\ NotDelivered(r) /\ ap' = a
           \/ ~WaitsForWifi /\ ap' = a /\ UNCHANGED <<queue, wire, lost>>
        /\ UNCHANGED <<toAp, shared>>

WifiWorker == WifiConnect \/ WifiMotion
WifiStep == WifiRequest \/ WifiWorker \/ WifiDown \/ WifiUp

\* aov_ap_state_machine_test_complete_qr_provision, from the AP's CLI thread
\* once the job runner is at rest.
CompleteQr ==
    LET a == [ap EXCEPT !.job = "WIFI_CONNECT", !.pc = "idle", !.camera = FALSE,
                       !.failed = FALSE]
        r == Report("WIFI_CONNECTED", ap.seq, NoFrame)
    IN  /\ ap.pc \in {"idle", "done"}
        /\ ap.job \in {"QR_PROVISION", "WIFI_CONNECT"}
        /\ \/ /\ Delivered(r)
              /\ ap' = [a EXCEPT !.job = "MOTION_CHECK", !.pc = "capture",
                                 !.runner = "main"]
           \/ NotDelivered(r) /\ ap' = a
        /\ UNCHANGED <<toAp, shared>>

=============================================================================
