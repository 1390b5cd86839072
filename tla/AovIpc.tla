------------------------------- MODULE AovIpc -------------------------------
(***************************************************************************)
(* What the two cores of the AOV (always-on video) project share: the      *)
(* vocabulary of aov_state_protocol.h, the shared-memory environment, the  *)
(* event queue of the CP worker and the inter-core messages.               *)
(*                                                                         *)
(* The transport itself (bk_wdrv_customer_transfer on the AP, cif_* on the *)
(* CP) belongs to the SDK and is modelled from how the two cores use it.   *)
(***************************************************************************)
EXTENDS Naturals, Sequences, FiniteSets

CONSTANTS
    QueueDepth,   \* AOV_CP_QUEUE_DEPTH
    IpcDepth,     \* requests the transport holds on their way to the AP
    SeqMod,       \* the job sequence number is a uint32_t: SeqMod is 2^32
    Frames,       \* the gray pictures the camera can deliver
    NoFrame,      \* a gray buffer before any picture was written to it
    Faults        \* the failures this instance admits, see FaultKinds

\* ipc     a transfer between the cores fails
\* late    a transfer times out at its sender and arrives all the same
\* pm      an alarm cannot be registered, a sleep vote is refused
\* flash   a write of the device record fails
\* camera  a capture, a comparison or the QR camera fails
\* stop    the camera does not turn off when it is told to
\* wifi    the access point refuses or drops the station
\* crash   the chip restarts; only the flash record survives
FaultKinds == {"ipc", "late", "pm", "flash", "camera", "stop", "wifi", "crash"}

ASSUME IpcAssumption ==
    /\ QueueDepth \in Nat \ {0}
    /\ IpcDepth \in Nat \ {0}
    /\ SeqMod \in Nat \ {0, 1}
    /\ Frames # {} /\ NoFrame \notin Frames
    /\ Faults \subseteq FaultKinds

CpStates == {"BOOT_INIT", "UNPROVISIONED", "PROVISIONING", "WIFI_CONNECTING",
             "CLOUD_REGISTERING", "RETRY_WAIT", "KEEPALIVE", "AP_BOOTING",
             "AP_WORKING", "AP_POWERDOWN", "OTA_UPGRADING",
             "FACTORY_RESETTING"}

\* NORMAL_BOOT is what an AP runs that could not read the shared environment.
Jobs == {"NONE", "QR_PROVISION", "WIFI_CONNECT", "MOTION_CHECK", "LIVE_STREAM",
         "NORMAL_BOOT"}

ReportIds == {"BOOT_READY", "NO_MOTION", "MOTION_DETECTED", "EVENT_DONE",
              "LAST_GRAY_READY", "POWERDOWN_READY", "WIFI_CONNECTED", "WIFI_CONNECT_FAILED",
              "ERROR"}

\* Events other than AP_REPORT.  Those in ProductEvents are posted by the
\* product through aov_cp_state_machine_post_event, the rest by the CP itself.
ProductEvents == {"PROVISION_START", "PROVISION_SUCCESS", "PROVISION_FAIL",
                  "CLOUD_REGISTERED", "CLOUD_REGISTER_FAIL", "LIVE_START",
                  "LIVE_STOP", "STATE_TIMEOUT", "FACTORY_RESET", "OTA_START",
                  "OTA_FINISH"}
PlainEvents == ProductEvents \cup
                 {"BOOT", "WIFI_CONNECTED", "WIFI_CONNECT_FAIL",
                  "RETRY_TIMEOUT", "DETECT_TIMER", "AP_POWERED_OFF"}

Seqs == 0 .. SeqMod - 1
NextSeqUnbounded(n) == n + 1   \* mutant: the counter outgrows its field
NextSeq(n) == (n + 1) % SeqMod

Picture == Frames \cup {NoFrame}

\* One queue element: an event, or a report of the AP about a job.
Event == [id : PlainEvents \cup {"AP_REPORT"},
          report : ReportIds \cup {"NONE"}, seq : Seqs, frame : Picture]

Plain(id) == [id |-> id, report |-> "NONE", seq |-> 0, frame |-> NoFrame]
Report(rid, n, f) == [id |-> "AP_REPORT", report |-> rid, seq |-> n, frame |-> f]

VARIABLES
    queue,    \* s_cp_sm.queue, the event queue of the CP worker
    wire,     \* reports whose transfer timed out at the AP, still under way
    toAp,     \* WIFI_CONNECT_REQUEST events on their way to the AP
    shared,   \* aov_shared_env_t: sequence, job, gray buffer and descriptor
    lost      \* history: some event or message was dropped or delayed

ipcVars == <<queue, wire, toAp, shared, lost>>

Shared == [seq : Seqs, job : Jobs,
           valid : BOOLEAN,      \* previous_gray.valid
           described : Picture,  \* the picture previous_gray.crc32 is about
           buffer : Picture]     \* previous_gray_data

IpcTypeOK ==
    /\ queue \in Seq(Event)
    /\ Len(queue) <= QueueDepth
    /\ wire \in SUBSET Event
    /\ toAp \in 0 .. IpcDepth
    /\ shared \in Shared
    /\ lost \in BOOLEAN

IpcInit ==
    /\ queue = <<Plain("BOOT")>>
    /\ wire = {}
    /\ toAp = 0
    /\ shared = [seq |-> 0, job |-> "NONE", valid |-> FALSE,
                 described |-> NoFrame, buffer |-> NoFrame]
    /\ lost = FALSE

-----------------------------------------------------------------------------
(* rtos_push_to_queue with BEKEN_NO_WAIT: a full queue drops the event.    *)

PushTo(q, e) == IF Len(q) < QueueDepth THEN Append(q, e) ELSE q

\* Push e on q, what is left of the queue in this step.
PostTo(q, e) == /\ queue' = PushTo(q, e)
                /\ lost' = (lost \/ Len(q) >= QueueDepth)

Post(e) == PostTo(queue, e)

-----------------------------------------------------------------------------
(* aov_ap_send_report.  The CP confirms the message even when its own      *)
(* queue was full, so the AP sees BK_OK; a failed transfer is only logged, *)
(* and one that timed out may still arrive.                                *)

Delivered(r) == Post(r) /\ UNCHANGED wire

NotDelivered(r) ==
    /\ lost' = TRUE
    /\ UNCHANGED queue
    /\ \/ "ipc" \in Faults /\ UNCHANGED wire
       \/ "late" \in Faults /\ wire = {} /\ wire' = {r}

SendReport(r) == Delivered(r) \/ NotDelivered(r)

\* A report whose sender gave up on it reaches db_ipc_msg_handler at last.
LateArrival ==
    \E r \in wire :
        /\ wire' = wire \ {r}
        /\ Post(r)
        /\ UNCHANGED <<toAp, shared>>

=============================================================================
