---------------------------- MODULE AovInductive ----------------------------
(***************************************************************************)
(* The inductive invariants behind the safety properties of AovSystem.     *)
(* All but RecordInv and LateInv suppose a transport that never delivers a *)
(* report its sender gave up on.                                           *)
(***************************************************************************)
EXTENDS AovSystem

\* The job runner counts quiet comparisons only up to its limit: the limit
\* ends the comparing, and only a motion check compares.
QuietOK ==
    /\ ap.pc \in {"off", "query"} => ap.job = "NORMAL_BOOT"
    /\ ap.pc \in {"capture", "second", "compare", "advance", "save", "lastGray"}
         => ap.job = "MOTION_CHECK"
    /\ ap.quiet > 0 => ap.job = "MOTION_CHECK"
    /\ ap.quiet = NoMotionStop
         => ap.pc \in {"save", "lastGray", "ready", "final", "done"}

-----------------------------------------------------------------------------
(* JobInv: what is queued at the CP belongs to the one AP job there is.    *)

\* Every queued report is about the active job, whose AP is voted on.
ReportsCurrent ==
    \A i \in 1 .. Len(queue) :
        queue[i].id = "AP_REPORT" => queue[i].seq = cp.activeSeq /\ cp.apVoteOn

\* A queued power-off event is the last word of an AP that is off.
PoweredOffLast ==
    \A i \in 1 .. Len(queue) :
        queue[i].id = "AP_POWERED_OFF" =>
            /\ cp.poweringDown /\ ap.pc = "off"
            /\ \A j \in i + 1 .. Len(queue) :
                    queue[j].id \notin {"AP_REPORT", "AP_POWERED_OFF"}

\* Where the AP reports about its job, or may come to, it is the active one.
SamePage ==
    /\ ap.pc # "off" => cp.apVoteOn
    /\ cp.apVoteOn => shared.seq = cp.activeSeq
    /\ ap.pc \notin {"off", "query", "idle", "done"} => ap.seq = cp.activeSeq
    /\ ap.job \in {"QR_PROVISION", "WIFI_CONNECT"} => ap.seq = cp.activeSeq

ReturnsOutside ==
    cp.returnState \in {"KEEPALIVE", "CLOUD_REGISTERING", "WIFI_CONNECTING",
                        "UNPROVISIONED"}

JobInv ==
    /\ wire = {}
    /\ ReportsCurrent /\ PoweredOffLast /\ SamePage /\ ReturnsOutside
    /\ JobStatesVoteOn

-----------------------------------------------------------------------------
(* QuiesceInv: an AP that promised to be quiesced stays so until it is off.*)

Quiesced ==
    /\ ap.pc \in {"final", "done"} \/ (ap.pc = "off" /\ cp.poweringDown)
    /\ ~ap.camera

Promised ==
    \/ cp.apVoteOn /\ cp.powerdownReady
    \/ \E i \in 1 .. Len(queue) :
          queue[i].id = "AP_REPORT" /\ queue[i].report = "POWERDOWN_READY"

QuiesceInv ==
    /\ Promised => Quiesced
    /\ cp.poweringDown => cp.apVoteOn /\ cp.powerdownReady
    /\ ap.pc \in {"off", "query", "lastGray", "ready", "final", "done"} => ~ap.camera
    /\ ap.pc \in {"failing", "abort", "ready", "final", "done"} /\ "QR_DONE" \in Inputs
         => ap.job \notin {"QR_PROVISION", "WIFI_CONNECT"}

-----------------------------------------------------------------------------
(* RecordInv: a factory reset in flash is known in RAM, so that no later   *)
(* write of the record takes it back.                                      *)

RecordInv ==
    /\ ReturnsOutside
    /\ device.loaded /\ device.flash.reset => device.ram.reset

-----------------------------------------------------------------------------
(* DetectInv: who may come to a state that wakes the AP by detection.      *)

ReturnsToDetect == cp.apVoteOn /\ cp.returnState \in {"KEEPALIVE", "CLOUD_REGISTERING"}

DetectInv ==
    /\ DetectionArmed
    /\ \A i \in 1 .. Len(queue) :
          queue[i].id = "WIFI_CONNECTED" => cp.detectArmed \/ ReturnsToDetect

-----------------------------------------------------------------------------
(* LateInv: with late reports the queue may hold some of former jobs, but  *)
(* those that count as the active job's are of its own AP.                 *)

\* The number of the next job is on no report that could still be handled then.
NextIsFresh ==
    /\ \A r \in wire : r.id = "AP_REPORT" /\ r.seq # NextSeq(cp.activeSeq)
    /\ \A i \in 1 .. Len(queue) :
          queue[i].id = "AP_REPORT" /\ queue[i].seq = NextSeq(cp.activeSeq) =>
              cp.apVoteOn /\ \A j \in 1 .. i - 1 : queue[j].id # "AP_POWERED_OFF"

\* There is one power-off event at a time.
PoweredOffOnce ==
    /\ cp.poweringDown => cp.apVoteOn
    /\ \A i \in 1 .. Len(queue) :
          queue[i].id = "AP_POWERED_OFF" =>
              /\ cp.poweringDown /\ ap.pc = "off"
              /\ \A j \in i + 1 .. Len(queue) : queue[j].id # "AP_POWERED_OFF"

\* What lets a motion check off its last picture: its AP saw motion or failed,
\* and has not been switched on again since.
Waives(r) == r.id = "AP_REPORT" /\ r.report \in {"MOTION_DETECTED", "ERROR"}
Waived == ap.seen \/ ap.failed \/ (ap.pc = "off" /\ cp.poweringDown)

WaiverEarned ==
    cp.apVoteOn =>
        /\ cp.abortingJob => Waived
        /\ \A r \in wire : Waives(r) /\ r.seq = cp.activeSeq => Waived
        /\ \A i \in 1 .. Len(queue) :
              Waives(queue[i]) /\ queue[i].seq = cp.activeSeq => Waived

\* An AP boots with no outcome, and a job that failed is not handed over.
Outcomes ==
    /\ ap.pc \in {"off", "query"} => ~ap.seen /\ ~ap.failed
    /\ ap.pc = "failing" \/ ap.failed
          => "QR_DONE" \notin Inputs \/ ap.job \notin {"QR_PROVISION", "WIFI_CONNECT"}

LateInv == NextIsFresh /\ PoweredOffOnce /\ SamePage /\ WaiverEarned /\ Outcomes

-----------------------------------------------------------------------------
(* GrayInv: the way of the last picture, unless a message was lost.        *)

Queued(rid) == {i \in 1 .. Len(queue) : queue[i].id = "AP_REPORT" /\ queue[i].report = rid}
Undescribed == shared.valid /\ shared.described # shared.buffer
Comparing == {"compare", "advance", "save", "lastGray"}
Closing == {"failing", "abort", "ready", "final", "done"}

\* The AP has come to one of pcs, where it stays until its power is cut.
Rests(pcs) == ap.pc \in pcs \/ (ap.pc = "off" /\ cp.poweringDown)

JobEnds ==
    "QR_DONE" \in Inputs /\ ap.pc \in Closing
        => ap.job \notin {"QR_PROVISION", "WIFI_CONNECT"}

\* The picture that is about to be described is in the buffer.
PictureInPlace ==
    /\ ap.pc = "second" => ~shared.valid
    /\ ap.pc = "lastGray" => shared.buffer = ap.cur
    /\ \A i \in Queued("LAST_GRAY_READY") :
          queue[i].frame = shared.buffer /\ Rests({"ready", "final", "done"})

ReadyIsLate ==
    /\ cp.poweringDown => cp.apVoteOn /\ cp.powerdownReady
    /\ Queued("POWERDOWN_READY") # {} \/ (cp.apVoteOn /\ cp.powerdownReady)
          => Rests({"final", "done"})

\* A picture without its descriptor gets it before the power is cut.
DescriptorComes ==
    Undescribed /\ ~lost =>
        /\ cp.apVoteOn /\ ~cp.powerdownReady
        /\ ap.pc \in Comparing \/ Queued("LAST_GRAY_READY") # {}
        /\ \A i \in Queued("POWERDOWN_READY") :
              \E j \in Queued("LAST_GRAY_READY") : j < i

GrayInv == JobEnds /\ PictureInPlace /\ ReadyIsLate /\ DescriptorComes

-----------------------------------------------------------------------------
(* RetryInv: after the AP's last word no report cancels the retry alarm.   *)

Finals == {"NO_MOTION", "EVENT_DONE"}
Over == ap.pc = "done" \/ (ap.pc = "off" /\ cp.poweringDown)
LastWord == Over \/ (ap.pc = "final" /\ ~ap.failed)

NoReportFrom(n) == \A i \in n .. Len(queue) : queue[i].id # "AP_REPORT"
OnlyFinalsFrom(n) ==
    \A i \in n .. Len(queue) :
        queue[i].id = "AP_REPORT" => queue[i].report \in Finals /\ ~ap.failed

\* The end of a job is reached by no job that waits for Wi-Fi.
EndsItself ==
    /\ ap.pc \in Closing =>
          /\ ap.job # "WIFI_CONNECT"
          /\ "QR_DONE" \in Inputs => ap.job # "QR_PROVISION"
    /\ ap.failed => ap.pc \in {"abort", "ready", "done"}

WordsInOrder ==
    \A i \in 1 .. Len(queue) :
        queue[i].id = "AP_REPORT" =>
            /\ queue[i].report \in Finals => Over /\ NoReportFrom(i + 1)
            /\ queue[i].report = "ERROR" => ap.failed
            /\ queue[i].report = "POWERDOWN_READY" => LastWord /\ OnlyFinalsFrom(i + 1)

WorkIsOver ==
    /\ cp.poweringDown => cp.apVoteOn /\ cp.powerdownReady /\ cp.workComplete
    /\ cp.apVoteOn /\ cp.workComplete => ap.failed \/ (Over /\ NoReportFrom(1))
    /\ cp.apVoteOn /\ cp.powerdownReady => LastWord /\ OnlyFinalsFrom(1)

RetryInv == EndsItself /\ WordsInOrder /\ WorkIsOver /\ RetryPending

=============================================================================
