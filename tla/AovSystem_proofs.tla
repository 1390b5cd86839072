-------------------------- MODULE AovSystem_proofs --------------------------
(***************************************************************************)
(* Theorems about AovSystem for every value of its constants: the types,   *)
(* and that the CP never holds its sleep vote while the AP is voted on.    *)
(***************************************************************************)
EXTENDS AovInductive, TLAPS

-----------------------------------------------------------------------------
(* Queues and messages.                                                    *)

LEMMA PlainIsEvent == \A id \in PlainEvents : Plain(id) \in Event
BY IpcAssumption DEF Plain, Event, Seqs, Picture, IpcAssumption

LEMMA ReportIsEvent ==
    \A rid \in ReportIds, n \in Seqs, f \in Picture : Report(rid, n, f) \in Event
BY DEF Report, Event

LEMMA NextSeqIsSeq == \A n \in Seqs : NextSeq(n) \in Seqs
BY IpcAssumption DEF Seqs, NextSeq, IpcAssumption

\* A queue within its depth stays within it.
Queues == {q \in Seq(Event) : Len(q) <= QueueDepth}

LEMMA PushIsQueue == \A q \in Queues, e \in Event : PushTo(q, e) \in Queues
BY IpcAssumption DEF Queues, PushTo, IpcAssumption

LEMMA TailIsQueue ==
    \A q \in Queues : q # <<>> => Head(q) \in Event /\ Tail(q) \in Queues
BY IpcAssumption DEF Queues, IpcAssumption

LEMMA PostToType ==
    ASSUME NEW q \in Queues, NEW e \in Event, lost \in BOOLEAN, PostTo(q, e)
    PROVE  queue' \in Queues /\ lost' \in BOOLEAN
BY PushIsQueue, IpcAssumption DEF PostTo, Queues, IpcAssumption

-----------------------------------------------------------------------------
(* The helpers of the CP keep its record a record, and those of the device *)
(* keep its record one.                                                    *)

LEMMA AlarmTypes ==
    ASSUME NEW c \in CpRecord
    PROVE  /\ VoteSleep(c) \subseteq CpRecord
           /\ ArmDetect(c) \subseteq CpRecord
           /\ ArmOneshot(c) \subseteq CpRecord
           /\ EnterRetry(c) \subseteq CpRecord
<1>1. VoteSleep(c) \subseteq CpRecord
  <2>1. [c EXCEPT !.sleepVoted = TRUE] \in CpRecord
    BY DEF CpRecord
  <2> QED
    BY <2>1 DEF VoteSleep
<1>2. ArmDetect(c) \subseteq CpRecord
  <2>1. [c EXCEPT !.detectArmed = TRUE, !.sleepVoted = TRUE] \in CpRecord
    BY DEF CpRecord
  <2>2. [c EXCEPT !.tickSeen = c.detectArmed /\ c.tickSeen] \in CpRecord
    BY DEF CpRecord
  <2> QED
    BY <2>1, <2>2 DEF ArmDetect
<1>3. \A d \in CpRecord : ArmOneshot(d) \subseteq CpRecord
  <2>1. \A d \in CpRecord, b \in BOOLEAN : [d EXCEPT !.oneshotArmed = b] \in CpRecord
    BY DEF CpRecord
  <2> QED
    BY <2>1 DEF ArmOneshot
<1>4. [c EXCEPT !.state = "RETRY_WAIT"] \in CpRecord
  BY DEF CpRecord, CpStates
<1> QED
  BY <1>1, <1>2, <1>3, <1>4 DEF EnterRetry

LEMMA JobTypes ==
    ASSUME NEW c \in CpRecord
    PROVE  /\ \A job \in Jobs, s \in CpStates : StartApJob(c, job, s) \in CpRecord
           /\ TryPowerdown(c) \in CpRecord
           /\ CompletePowerdown(c) \subseteq CpRecord
<1>1. ASSUME NEW job \in Jobs, NEW s \in CpStates
      PROVE  StartApJob(c, job, s) \in CpRecord
  <2>1. ResetJobFlags(c) \in CpRecord
    BY DEF ResetJobFlags, CpRecord
  <2> DEFINE d == ResetJobFlags(c)
  <2> HIDE DEF d
  <2>2. NewJob(d, job, s) \in CpRecord
    <3>1. d \in CpRecord /\ NextSeq(d.activeSeq) \in Seqs /\ "AP_BOOTING" \in CpStates
      BY <2>1, NextSeqIsSeq DEF d, CpRecord, CpStates
    <3> QED
      BY <3>1 DEF NewJob, CpRecord
  <2> QED
    BY <2>2 DEF StartApJob, CpRecord, d
<1>2. TryPowerdown(c) \in CpRecord
  <2> DEFINE d == [c EXCEPT !.oneshotArmed = FALSE]
  <2>1. d \in CpRecord
    BY DEF CpRecord
  <2>2. "AP_POWERDOWN" \in CpStates
    BY DEF CpStates
  <2>3. [d EXCEPT !.poweringDown = TRUE, !.state = "AP_POWERDOWN"] \in CpRecord
    <3> HIDE DEF d
    <3> QED
      BY <2>1, <2>2 DEF CpRecord
  <2> QED
    BY <2>1, <2>3 DEF TryPowerdown, FinishPowerdown
<1>3. CompletePowerdown(c) \subseteq CpRecord
  <2> DEFINE d == [c EXCEPT !.poweringDown = FALSE, !.apVoteOn = FALSE,
                            !.activeJob = "NONE", !.state = c.returnState]
  <2>1. d \in CpRecord
    <3>1. "NONE" \in Jobs /\ c.returnState \in CpStates
      BY DEF CpRecord, Jobs
    <3> QED
      BY <3>1 DEF CpRecord
  <2>2. ArmDetect(d) \subseteq CpRecord
    BY <2>1, AlarmTypes
  <2>3. CompletePowerdown(c) = IF c.returnState \in {"KEEPALIVE", "CLOUD_REGISTERING"}
                               THEN ArmDetect(d) ELSE {d}
    BY DEF CompletePowerdown
  <2> QED
    BY <2>1, <2>2, <2>3
<1> QED
  BY <1>1, <1>2, <1>3

DeviceRecord == [loaded : BOOLEAN, ram : Store, flash : Store]

LEMMA DeviceTypes ==
    ASSUME NEW d \in DeviceRecord
    PROVE  /\ Load(d) \in DeviceRecord
           /\ Cold(d.flash) \in DeviceRecord
           /\ \A s \in CpStates : Commits(d, s) \subseteq DeviceRecord
           /\ ResetRequested(d) \subseteq DeviceRecord
           /\ SetWifi(d) \subseteq DeviceRecord
           /\ ClearWifi(d) \subseteq DeviceRecord
<1>1. \A r \in Store, s \in CpStates : Persisted(r, s) \in Store
  <2> SUFFICES ASSUME NEW r \in Store, NEW s \in CpStates
               PROVE  Persisted(r, s) \in Store
    OBVIOUS
  <2>1. /\ [r EXCEPT !.boot = "UNPROVISIONED"] \in Store
        /\ [r EXCEPT !.boot = "PROVISIONED"] \in Store
    BY DEF Store, Boots
  <2>2. [r EXCEPT !.boot = "OTA_PENDING", !.ota = TRUE] \in Store
    BY DEF Store, Boots
  <2>3. [r EXCEPT !.boot = "RESET_PENDING", !.reset = TRUE] \in Store
    BY DEF Store, Boots
  <2> QED
    BY <2>1, <2>2, <2>3, Zenon DEF Persisted
<1>2. \A x \in DeviceRecord, s \in CpStates : Commits(x, s) \subseteq DeviceRecord
  <2> SUFFICES ASSUME NEW x \in DeviceRecord, NEW s \in CpStates
               PROVE  Commits(x, s) \subseteq DeviceRecord
    OBVIOUS
  <2> DEFINE r == Persisted(x.ram, s)
  <2>1. r \in Store
    BY <1>1 DEF DeviceRecord
  <2> HIDE DEF r
  <2>2. /\ [x EXCEPT !.ram = r, !.flash = r] \in DeviceRecord
        /\ [x EXCEPT !.flash = r] \in DeviceRecord
    BY <2>1 DEF DeviceRecord
  <2> QED
    BY <2>2 DEF Commits, r
<1>3. \A x \in DeviceRecord, r \in Store : Overwrites(x, r) \subseteq DeviceRecord
  <2>1. \A x \in DeviceRecord, r \in Store :
            /\ [x EXCEPT !.ram = r, !.flash = r] \in DeviceRecord
            /\ [x EXCEPT !.ram = r] \in DeviceRecord
    BY DEF DeviceRecord
  <2> QED
    BY <2>1 DEF Overwrites
<1>4. \A x \in DeviceRecord : FactoryReset(x) \subseteq DeviceRecord
  <2> SUFFICES ASSUME NEW x \in DeviceRecord
               PROVE  FactoryReset(x) \subseteq DeviceRecord
    OBVIOUS
  <2>1. [x.ram EXCEPT !.boot = "RESET_PENDING", !.reset = TRUE] \in Store
    BY DEF DeviceRecord, Store, Boots
  <2> QED
    BY <1>3, <2>1 DEF FactoryReset
<1>5. "FACTORY_RESETTING" \in CpStates
  BY DEF CpStates
<1>6. ResetRequested(d) \subseteq DeviceRecord
  BY <1>2, <1>4, <1>5 DEF ResetRequested
<1>7. SetWifi(d) \subseteq DeviceRecord
  <2>1. [d.ram EXCEPT !.cred = TRUE, !.boot = "PROVISIONED"] \in Store
    BY DEF DeviceRecord, Store, Boots
  <2> QED
    BY <1>3, <2>1 DEF SetWifi
<1>8. ClearWifi(d) \subseteq DeviceRecord
  <2>1. [d.ram EXCEPT !.cred = FALSE, !.bind = FALSE, !.boot = "UNPROVISIONED"]
            \in Store
    BY DEF DeviceRecord, Store, Boots
  <2> QED
    BY <1>3, <2>1 DEF ClearWifi
<1>9. Load(d) \in DeviceRecord /\ Cold(d.flash) \in DeviceRecord
  BY DEF Load, Cold, DeviceRecord, Defaults, Store, Boots
<1> QED
  BY <1>2, <1>6, <1>7, <1>8, <1>9

-----------------------------------------------------------------------------
(* The types, with the queue and its depth in one.                         *)

Typed ==
    /\ queue \in Queues
    /\ wire \in SUBSET Event
    /\ toAp \in 0 .. IpcDepth
    /\ shared \in Shared
    /\ lost \in BOOLEAN
    /\ device \in DeviceRecord
    /\ cp \in CpRecord

LEMMA TypedIsCpTypeOK == Typed <=> CpTypeOK
BY DEF Typed, Queues, CpTypeOK, IpcTypeOK, DeviceTypeOK, DeviceRecord

LEMMA LaunchTypes ==
    ASSUME Typed, NEW c \in CpRecord, NEW job \in Jobs, NEW s \in CpStates,
           Launch(c, job, s)
    PROVE  cp' \in CpRecord /\ shared' \in Shared /\ wire' \in SUBSET Event
<1> DEFINE d == StartApJob(c, job, s)
<1>1. d \in CpRecord
  BY JobTypes
<1>2. cp' = d /\ shared' = [shared EXCEPT !.seq = d.activeSeq, !.job = job]
  BY DEF Launch
<1>3. shared \in Shared /\ wire \in SUBSET Event
  BY DEF Typed
<1>4. wire' \in SUBSET Event
  BY <1>3 DEF Launch, Forget
<1> HIDE DEF d
<1>5. d.activeSeq \in Seqs
  BY <1>1 DEF CpRecord
<1>6. shared' \in Shared
  BY <1>2, <1>3, <1>5 DEF Shared
<1> QED
  BY <1>1, <1>2, <1>4, <1>6

LEMMA StartWifiTypes ==
    ASSUME Typed, NEW c \in CpRecord, StartWifi(c)
    PROVE  cp' \in CpRecord /\ toAp' \in 0 .. IpcDepth
<1>1. toAp \in 0 .. IpcDepth
  BY DEF Typed
<1>2. CASE toAp < IpcDepth /\ toAp' = toAp + 1 /\ cp' = c
  BY <1>1, <1>2, IpcAssumption DEF IpcAssumption
<1>3. CASE cp' \in EnterRetry(c) /\ UNCHANGED toAp
  BY <1>1, <1>3, AlarmTypes
<1> QED
  BY <1>2, <1>3 DEF StartWifi

LEMMA ConnectWifiTypes ==
    ASSUME Typed, ConnectWifi
    PROVE  /\ cp' \in CpRecord /\ shared' \in Shared
           /\ wire' \in SUBSET Event /\ toAp' \in 0 .. IpcDepth
<1> DEFINE c == [cp EXCEPT !.state = "WIFI_CONNECTING"]
<1>1. "WIFI_CONNECTING" \in CpStates /\ "WIFI_CONNECT" \in Jobs
  BY DEF CpStates, Jobs
<1>2. c \in CpRecord
  BY <1>1 DEF Typed, CpRecord
<1>3. \/ StartWifi(c) /\ UNCHANGED <<shared, wire>>
      \/ Launch(c, "WIFI_CONNECT", "WIFI_CONNECTING") /\ UNCHANGED toAp
  BY DEF ConnectWifi
<1> HIDE DEF c
<1>4. CASE StartWifi(c) /\ UNCHANGED <<shared, wire>>
  BY <1>2, <1>4, StartWifiTypes DEF Typed
<1>5. CASE Launch(c, "WIFI_CONNECT", "WIFI_CONNECTING") /\ UNCHANGED toAp
  BY <1>1, <1>2, <1>5, LaunchTypes DEF Typed
<1> QED
  BY <1>3, <1>4, <1>5

LEMMA TakeTypes ==
    ASSUME Typed, NEW id, Take(id)
    PROVE  queue' \in Queues /\ lost' \in BOOLEAN
BY TailIsQueue DEF Typed, Take, IsNext

LEMMA TakeReportTypes ==
    ASSUME Typed, NEW ids, TakeReport(ids)
    PROVE  queue' \in Queues /\ lost' \in BOOLEAN
BY TailIsQueue DEF Typed, TakeReport, NextReport, IsNext

\* Every event other than a report, handled by the worker.
LEMMA EventTypes ==
    ASSUME Typed, Worker, ~HandleReport
    PROVE  Typed'
<1> USE DEF Typed
<1>1. CASE HandleBoot
  <2> DEFINE d == Load(device)
  <2>1. queue' \in Queues /\ lost' \in BOOLEAN /\ toAp' \in 0 .. IpcDepth
    BY <1>1, TakeTypes DEF HandleBoot
  <2>2. d \in DeviceRecord
    BY DeviceTypes
  <2>3. {"FACTORY_RESETTING", "OTA_UPGRADING", "UNPROVISIONED",
         "WIFI_CONNECTING"} \subseteq CpStates
    BY DEF CpStates
  <2>4. {"WIFI_CONNECT", "QR_PROVISION"} \subseteq Jobs
    BY DEF Jobs
  <2>5. \A x \in {"FACTORY_RESETTING", "OTA_UPGRADING"} :
            [cp EXCEPT !.state = x] \in CpRecord
    BY <2>3 DEF CpRecord
  <2> HIDE DEF d
  <2>6. CASE /\ cp' = [cp EXCEPT !.state = "FACTORY_RESETTING"]
             /\ device' \in ResetRequested(d)
             /\ UNCHANGED <<shared, wire>>
    BY <2>1, <2>2, <2>5, <2>6, DeviceTypes
  <2>7. CASE /\ cp' = [cp EXCEPT !.state = "OTA_UPGRADING"]
             /\ device' \in Commits(d, "OTA_UPGRADING")
             /\ UNCHANGED <<shared, wire>>
    BY <2>1, <2>2, <2>3, <2>5, <2>7, DeviceTypes
  <2>8. CASE device' = d /\ Launch(cp, "WIFI_CONNECT", "WIFI_CONNECTING")
    BY <2>1, <2>2, <2>3, <2>4, <2>8, LaunchTypes
  <2>9. CASE /\ device' \in Commits(d, "UNPROVISIONED")
             /\ Launch(cp, "QR_PROVISION", "UNPROVISIONED")
    BY <2>1, <2>2, <2>3, <2>4, <2>9, LaunchTypes, DeviceTypes
  <2> QED
    BY <1>1, <2>6, <2>7, <2>8, <2>9 DEF HandleBoot, d
<1>2. \A x \in CpStates : [cp EXCEPT !.state = x] \in CpRecord
  BY DEF CpRecord
<1>3. CASE HandleProvisionStart \/ HandleWifiConnected \/ HandleOtaFinish
  <2>1. queue' \in Queues /\ lost' \in BOOLEAN
    BY <1>3, TakeTypes DEF HandleProvisionStart, HandleWifiConnected, HandleOtaFinish
  <2>2. \E x \in CpStates : cp' = [cp EXCEPT !.state = x]
    BY <1>3 DEF HandleProvisionStart, HandleWifiConnected, HandleOtaFinish, CpStates
  <2> QED
    BY <1>2, <1>3, <2>1, <2>2
       DEF HandleProvisionStart, HandleWifiConnected, HandleOtaFinish
<1>4. CASE HandleProvisionFail \/ HandleFactoryReset \/ HandleOtaStart
  <2>1. queue' \in Queues /\ lost' \in BOOLEAN
    BY <1>4, TakeTypes DEF HandleProvisionFail, HandleFactoryReset, HandleOtaStart
  <2>2. PICK x \in CpStates : /\ cp' = [cp EXCEPT !.state = x]
                              /\ device' \in Commits(device, x) \cup ResetRequested(device)
    BY <1>4 DEF HandleProvisionFail, HandleFactoryReset, HandleOtaStart, CpStates
  <2>3. device' \in DeviceRecord
    BY <2>2, DeviceTypes
  <2> QED
    BY <1>2, <1>4, <2>1, <2>2, <2>3
       DEF HandleProvisionFail, HandleFactoryReset, HandleOtaStart
<1>5. CASE HandleProvisionSuccess \/ HandleRetryTimeout
  BY <1>5, TakeTypes, ConnectWifiTypes DEF HandleProvisionSuccess, HandleRetryTimeout
<1>6. CASE HandleConnectFail
  BY <1>6, TakeTypes, AlarmTypes DEF HandleConnectFail
<1>7. CASE HandleCloudRegistered
  <2>1. queue' \in Queues /\ lost' \in BOOLEAN
    BY <1>7, TakeTypes DEF HandleCloudRegistered
  <2>2. "KEEPALIVE" \in CpStates
    BY DEF CpStates
  <2>3. device' \in DeviceRecord
    BY <1>7, <2>2, DeviceTypes DEF HandleCloudRegistered
  <2>4. [cp EXCEPT !.state = "KEEPALIVE", !.returnState = "KEEPALIVE"] \in CpRecord
    BY <2>2 DEF CpRecord
  <2>5. cp' \in CpRecord
    BY <1>2, <1>7, <2>2, <2>4, AlarmTypes DEF HandleCloudRegistered
  <2> QED
    BY <1>7, <2>1, <2>3, <2>5 DEF HandleCloudRegistered
<1>8. CASE DropDetectTimer \/ HandleIgnored
  BY <1>8, TakeTypes DEF DropDetectTimer, HandleIgnored
<1>9. CASE HandleDetectTimer
  <2> DEFINE c == [cp EXCEPT !.tickSeen = TRUE]
  <2>1. queue' \in Queues /\ lost' \in BOOLEAN
    BY <1>9, TakeTypes DEF HandleDetectTimer
  <2>2. c \in CpRecord /\ cp.state \in CpStates /\ "MOTION_CHECK" \in Jobs
    BY DEF CpRecord, Jobs
  <2>3. \/ cp' = c /\ UNCHANGED <<shared, wire>>
        \/ Launch(c, "MOTION_CHECK", cp.state)
        \/ cp' \in VoteSleep(c) /\ UNCHANGED <<shared, wire>>
    BY <1>9 DEF HandleDetectTimer
  <2>4. UNCHANGED <<toAp, device>>
    BY <1>9 DEF HandleDetectTimer
  <2> HIDE DEF c
  <2> QED
    BY <2>1, <2>2, <2>3, <2>4, LaunchTypes, AlarmTypes
<1>10. CASE HandleLiveStart
  <2>1. "KEEPALIVE" \in CpStates /\ "LIVE_STREAM" \in Jobs
    BY DEF CpStates, Jobs
  <2> QED
    BY <1>10, <2>1, TakeTypes, LaunchTypes DEF HandleLiveStart
<1>11. CASE HandlePoweredOff
  <2>1. queue' \in Queues /\ lost' \in BOOLEAN
    BY <1>11, TakeTypes DEF HandlePoweredOff
  <2>2. CASE cp.poweringDown
    <3>1. cp' \in CpRecord
      BY <1>11, <2>2, JobTypes DEF HandlePoweredOff
    <3>2. shared' \in Shared
      BY <1>11, <2>2 DEF HandlePoweredOff, Shared, Jobs
    <3>3. cp.returnState \in CpStates
      BY DEF CpRecord
    <3>4. device' \in DeviceRecord
      BY <1>11, <2>2, <3>3, DeviceTypes DEF HandlePoweredOff
    <3> QED
      BY <1>11, <2>1, <3>1, <3>2, <3>4 DEF HandlePoweredOff
  <2>3. CASE ~cp.poweringDown
    BY <1>11, <2>1, <2>3 DEF HandlePoweredOff
  <2> QED
    BY <2>2, <2>3
<1> QED
  BY <1>1, <1>3, <1>4, <1>5, <1>6, <1>7, <1>8, <1>9, <1>10, <1>11 DEF Worker

LEMMA ReportTypes ==
    ASSUME Typed, HandleReport
    PROVE  Typed'
<1> USE DEF Typed
<1>1. CASE StaleReport
  BY <1>1, TakeTypes DEF StaleReport
<1>2. CASE BootReady
  <2> DEFINE c == [cp EXCEPT !.oneshotArmed = FALSE, !.state = "WIFI_CONNECTING"]
             d == [cp EXCEPT !.state = "AP_WORKING",
                             !.oneshotArmed = cp.activeJob = "MOTION_CHECK" /\ @]
  <2>1. queue' \in Queues /\ lost' \in BOOLEAN
    BY <1>2, TakeReportTypes DEF BootReady
  <2>2. "WIFI_CONNECTING" \in CpStates /\ "AP_WORKING" \in CpStates
    BY DEF CpStates
  <2>3. c \in CpRecord
    BY <2>2 DEF CpRecord
  <2>4. d \in CpRecord
    BY <2>2 DEF CpRecord
  <2>5. StartWifi(c) \/ (cp' = d /\ UNCHANGED toAp)
    BY <1>2 DEF BootReady
  <2>6. UNCHANGED <<wire, shared, device>>
    BY <1>2 DEF BootReady
  <2> HIDE DEF c, d
  <2> QED
    BY <2>1, <2>3, <2>4, <2>5, <2>6, StartWifiTypes
<1>3. CASE WifiConnected
  <2>1. Tail(queue) \in Queues
    BY <1>3, TailIsQueue DEF WifiConnected, NextReport, IsNext
  <2>2. Plain("WIFI_CONNECTED") \in Event
    BY PlainIsEvent DEF PlainEvents
  <2>3. queue' \in Queues /\ lost' \in BOOLEAN
    BY <1>3, <2>1, <2>2, PostToType DEF WifiConnected
  <2>4. "MOTION_CHECK" \in Jobs /\ "CLOUD_REGISTERING" \in CpStates
    BY DEF Jobs, CpStates
  <2>5. cp' \in CpRecord
    BY <1>3, <2>4 DEF WifiConnected, CpRecord
  <2>6. shared' \in Shared
    BY <1>3, <2>4 DEF WifiConnected, Shared
  <2> QED
    BY <1>3, <2>3, <2>5, <2>6 DEF WifiConnected
<1>4. CASE WifiConnectFailed
  <2>1. Tail(queue) \in Queues
    BY <1>4, TailIsQueue DEF WifiConnectFailed, NextReport, IsNext
  <2>2. Plain("WIFI_CONNECT_FAIL") \in Event
    BY PlainIsEvent DEF PlainEvents
  <2>3. queue' \in Queues /\ lost' \in BOOLEAN
    BY <1>4, <2>1, <2>2, PostToType DEF WifiConnectFailed
  <2> QED
    BY <1>4, <2>3 DEF WifiConnectFailed
<1>5. CASE WorkDone
  <2> DEFINE c == [cp EXCEPT !.workComplete = TRUE, !.state = "AP_POWERDOWN"]
  <2>1. c \in CpRecord
    BY DEF CpRecord, CpStates
  <2>2. cp' = TryPowerdown(c) /\ UNCHANGED <<wire, toAp, shared, device>>
    BY <1>5 DEF WorkDone
  <2> HIDE DEF c
  <2> QED
    BY <1>5, <2>1, <2>2, TakeReportTypes, JobTypes DEF WorkDone
<1>6. CASE LastGrayReady
  <2> DEFINE c == [cp EXCEPT !.lastGrayReady = TRUE]
  <2>1. c \in CpRecord
    BY DEF CpRecord
  <2>2. cp' = TryPowerdown(c) /\ UNCHANGED <<wire, toAp, device>>
    BY <1>6 DEF LastGrayReady
  <2>3. Head(queue) \in Event
    BY <1>6, TailIsQueue DEF LastGrayReady, TakeReport, NextReport, IsNext
  <2>4. shared' \in Shared
    BY <1>6, <2>3 DEF LastGrayReady, Shared, Event
  <2> HIDE DEF c
  <2> QED
    BY <1>6, <2>1, <2>2, <2>4, TakeReportTypes, JobTypes DEF LastGrayReady
<1>7. CASE PowerdownReady
  <2> DEFINE c == [cp EXCEPT !.powerdownReady = TRUE]
  <2>1. c \in CpRecord
    BY DEF CpRecord
  <2>2. cp' = TryPowerdown(c) /\ UNCHANGED <<wire, toAp, shared, device>>
    BY <1>7 DEF PowerdownReady
  <2> HIDE DEF c
  <2> QED
    BY <1>7, <2>1, <2>2, TakeReportTypes, JobTypes DEF PowerdownReady
<1>8. CASE MotionDetected
  <2>1. [cp EXCEPT !.abortingJob = TRUE] \in CpRecord
    BY DEF CpRecord
  <2> QED
    BY <1>8, <2>1, TakeReportTypes DEF MotionDetected
<1>9. CASE ApError
  <2> DEFINE c == [cp EXCEPT !.abortingJob = TRUE, !.workComplete = TRUE]
  <2>1. c \in CpRecord
    BY DEF CpRecord
  <2>2. cp' = TryPowerdown(c) /\ UNCHANGED <<wire, toAp, shared, device>>
    BY <1>9 DEF ApError
  <2> HIDE DEF c
  <2> QED
    BY <1>9, <2>1, <2>2, TakeReportTypes, JobTypes DEF ApError
<1> QED
  BY <1>1, <1>2, <1>3, <1>4, <1>5, <1>6, <1>7, <1>8, <1>9 DEF HandleReport

\* Alarms, the product and the CLI.
LEMMA InputTypes ==
    ASSUME Typed, DetectTick \/ OneshotFires \/ ProductEvent \/ WifiCommand
    PROVE  Typed'
<1> USE DEF Typed
<1>1. CASE DetectTick
  <2>1. Plain("DETECT_TIMER") \in Event
    BY PlainIsEvent DEF PlainEvents
  <2>2. queue' \in Queues /\ lost' \in BOOLEAN
    BY <1>1, <2>1, PostToType DEF DetectTick, Post
  <2>3. cp' \in CpRecord
    BY <1>1 DEF DetectTick, CpRecord
  <2> QED
    BY <1>1, <2>2, <2>3 DEF DetectTick
<1>2. CASE OneshotFires
  <2>1. Plain("RETRY_TIMEOUT") \in Event
    BY PlainIsEvent DEF PlainEvents
  <2>2. queue' \in Queues /\ lost' \in BOOLEAN
    BY <1>2, <2>1, PostToType DEF OneshotFires, Post
  <2>3. cp' \in CpRecord
    BY <1>2 DEF OneshotFires, CpRecord
  <2> QED
    BY <1>2, <2>2, <2>3 DEF OneshotFires
<1>3. CASE ProductEvent
  <2>1. PICK id \in ProductEvents : Post(Plain(id))
    BY <1>3 DEF ProductEvent
  <2>2. Plain(id) \in Event
    BY PlainIsEvent DEF PlainEvents
  <2>3. queue' \in Queues /\ lost' \in BOOLEAN
    BY <2>1, <2>2, PostToType DEF Post
  <2> QED
    BY <1>3, <2>3 DEF ProductEvent
<1>4. CASE WifiCommand
  BY <1>4, DeviceTypes DEF WifiCommand, ipcVars
<1> QED
  BY <1>1, <1>2, <1>3, <1>4

-----------------------------------------------------------------------------
(* The AP.  Its part of the types needs QuietOK: the counter of quiet      *)
(* comparisons stays within its range because its limit ends the comparing.*)

LEMMA SendTypes ==
    ASSUME Typed, NEW r \in Event, SendReport(r)
    PROVE  queue' \in Queues /\ lost' \in BOOLEAN /\ wire' \in SUBSET Event
<1>1. CASE Delivered(r)
  BY <1>1, PostToType DEF Typed, Delivered, Post
<1>2. CASE NotDelivered(r)
  BY <1>2 DEF Typed, NotDelivered
<1> QED
  BY <1>1, <1>2 DEF SendReport

LEMMA TellTypes ==
    ASSUME Typed, ApTypeOK, UNCHANGED <<device, cp>>,
           NEW rid \in ReportIds, NEW f \in Picture, Tell(rid, f)
    PROVE  Typed'
<1>1. Report(rid, ap.seq, f) \in Event
  BY ReportIsEvent DEF ApTypeOK, ApRecord
<1> QED
  BY <1>1, SendTypes DEF Typed, Tell

ApInv == ApTypeOK /\ QuietOK

LEMMA CaptureTypes ==
    ASSUME NEW a \in ApRecord, NEW pc \in Pcs
    PROVE  \A b \in Captures(a, pc) :
               /\ b \in ApRecord
               /\ b.pc \in {pc, "failing"}
               /\ b.job = a.job /\ b.seq = a.seq
               /\ b.quiet = a.quiet /\ b.wifiQ = a.wifiQ
<1> SUFFICES ASSUME NEW b \in Captures(a, pc)
             PROVE  /\ b \in ApRecord /\ b.pc \in {pc, "failing"}
                    /\ b.job = a.job /\ b.seq = a.seq
                    /\ b.quiet = a.quiet /\ b.wifiQ = a.wifiQ
  OBVIOUS
<1>1. CASE \E f \in Frames : b = [a EXCEPT !.pc = pc, !.cur = f, !.camera = TRUE]
  BY <1>1, ZenonT(60) DEF ApRecord, Picture
<1>2. CASE b = [a EXCEPT !.pc = "failing", !.camera = TRUE]
  BY <1>2 DEF ApRecord, Pcs
<1> QED
  BY <1>1, <1>2 DEF Captures

LEMMA StopTypes ==
    ASSUME NEW pc \in Pcs, ap \in ApRecord
    PROVE  \A b \in StopAll(Goto(pc)) :
               /\ b \in ApRecord
               /\ b.pc = pc /\ b.job = ap.job /\ b.seq = ap.seq
               /\ b.quiet = ap.quiet /\ b.wifiQ = ap.wifiQ
               /\ "stop" \in Faults \/ ~b.camera
<1> DEFINE a == [ap EXCEPT !.pc = pc]
<1>1. /\ a \in ApRecord /\ a.pc = pc /\ a.job = ap.job /\ a.seq = ap.seq
      /\ a.quiet = ap.quiet /\ a.wifiQ = ap.wifiQ
  BY DEF ApRecord
<1> HIDE DEF a
<1>2. LET b == [a EXCEPT !.camera = FALSE]
      IN  /\ b \in ApRecord /\ b.pc = a.pc /\ b.job = a.job /\ b.seq = a.seq
          /\ b.quiet = a.quiet /\ b.wifiQ = a.wifiQ /\ ~b.camera
  BY <1>1 DEF ApRecord
<1>3. \A b \in StopAll(a) : b = [a EXCEPT !.camera = FALSE] \/ (b = a /\ "stop" \in Faults)
  BY DEF StopAll, Fails
<1> QED
  BY <1>1, <1>2, <1>3 DEF Goto, a

\* The thread that runs the job.
LEMMA JobTypesAp ==
    ASSUME Typed, ApInv, JobStep, UNCHANGED <<device, cp>>
    PROVE  Typed' /\ ApInv'
<1> USE DEF ApInv, ApTypeOK, QuietOK
<1>0. NoMotionStop \in Nat \ {0} /\ MaxMotion \in Nat
  BY ApAssumption DEF ApAssumption
<1>1. \A rid \in ReportIds, f \in Picture : Tell(rid, f) => Typed'
  BY TellTypes
<1>2. ASSUME UNCHANGED ipcVars PROVE Typed'
  BY <1>2 DEF ipcVars, Typed
<1>3. ReportIds \subseteq ReportIds /\ NoFrame \in Picture /\ ap.cur \in Picture
  BY DEF Picture, ApRecord
<1>4. ASSUME shared' = [shared EXCEPT !.buffer = ap.cur],
             UNCHANGED <<queue, wire, toAp, lost>>
      PROVE  Typed'
  BY <1>3, <1>4 DEF Typed, Shared
<1>5. \A pc \in Pcs : Goto(pc) \in ApRecord
  BY DEF Goto, ApRecord
<1>6. CASE QueryEnv
  <2>1. Typed'
    BY <1>2, <1>6 DEF QueryEnv
  <2>2. shared.seq \in Seqs /\ shared.job \in Jobs
    BY DEF Typed, Shared
  <2>3. CASE ap' = [ap EXCEPT !.pc = "hello", !.seq = shared.seq, !.job = shared.job]
    <3>1. ap' \in ApRecord
      BY <2>2, <2>3 DEF ApRecord, Pcs
    <3>2. /\ ap'.pc = "hello" /\ ap'.quiet = ap.quiet /\ ap'.wifiQ = ap.wifiQ
          /\ ap.pc = "query" /\ ap'.job = shared.job
      BY <1>6, <2>3 DEF QueryEnv, ApRecord
    <3>3. ap.quiet = 0
      BY <1>0, <3>2 DEF ApRecord
    <3> QED
      BY <1>0, <2>1, <3>1, <3>2, <3>3
  <2>4. CASE ap' = Goto("idle")
    <3>1. ApInv'
      BY <1>0, <1>6, <2>4 DEF QueryEnv, Goto, ApRecord, Pcs
    <3> QED
      BY <2>1, <3>1
  <2> QED
    BY <1>6, <2>3, <2>4 DEF QueryEnv
<1>7. CASE Hello
  <2>1. Typed'
    BY <1>1, <1>3, <1>7 DEF Hello, ReportIds
  <2>2. ApInv'
    BY <1>0, <1>7 DEF Hello, Goto, ApRecord, Pcs
  <2> QED
    BY <2>1, <2>2
<1>8. CASE Dispatch
  <2>1. Typed'
    BY <1>2, <1>8 DEF Dispatch
  <2>2. \/ ap' = [ap EXCEPT !.pc = "idle", !.camera = TRUE]
        \/ ap' = Goto("failing")
        \/ ap.job = "MOTION_CHECK" /\ ap' = Goto("capture")
        \/ ap' = Goto("idle")
    BY <1>8 DEF Dispatch
  <2>3. ap.pc = "dispatch"
    BY <1>8 DEF Dispatch
  <2>4. /\ ap' \in ApRecord /\ ap'.pc \in {"idle", "failing", "capture"}
        /\ ap'.pc = "capture" => ap.job = "MOTION_CHECK"
        /\ ap'.job = ap.job /\ ap'.quiet = ap.quiet /\ ap'.wifiQ = ap.wifiQ
    <3>1. CASE ap' = [ap EXCEPT !.pc = "idle", !.camera = TRUE]
      BY <3>1 DEF ApRecord, Pcs
    <3>2. CASE ap' \in {Goto("failing"), Goto("idle")}
      BY <3>2 DEF Goto, ApRecord, Pcs
    <3>3. CASE ap.job = "MOTION_CHECK" /\ ap' = Goto("capture")
      BY <3>3 DEF Goto, ApRecord, Pcs
    <3> QED
      BY <2>2, <3>1, <3>2, <3>3
  <2>5. ApInv'
    BY <1>0, <2>3, <2>4
  <2> QED
    BY <2>1, <2>5
<1>9. CASE Capture
  <2>1. Typed'
    BY <1>2, <1>9 DEF Capture
  <2>2. ap.pc = "capture"
    BY <1>9 DEF Capture
  <2>3. ap' \in Captures(ap, "compare") \cup Captures(ap, "second")
    BY <1>9 DEF Capture
  <2>4. /\ ap' \in ApRecord /\ ap'.pc \in {"compare", "second", "failing"}
        /\ ap'.job = ap.job /\ ap'.quiet = ap.quiet /\ ap'.wifiQ = ap.wifiQ
    BY <2>3, CaptureTypes DEF Pcs
  <2>5. ApInv'
    BY <1>0, <2>2, <2>4
  <2> QED
    BY <2>1, <2>5
<1>10. CASE SecondSample \/ Advance
  <2>1. Typed'
    BY <1>4, <1>10 DEF SecondSample, Advance
  <2>2. ap.pc \in {"second", "advance"}
    BY <1>10 DEF SecondSample, Advance
  <2>3. /\ ap' \in ApRecord /\ ap'.pc \in {"compare", "failing"}
        /\ ap'.job = ap.job /\ ap'.quiet = ap.quiet /\ ap'.wifiQ = ap.wifiQ
    BY <1>10, CaptureTypes DEF SecondSample, Advance, Pcs
  <2>4. ApInv'
    BY <1>0, <2>2, <2>3
  <2> QED
    BY <2>1, <2>4
<1>11. CASE CompareFails
  <2>1. Typed'
    BY <1>2, <1>11 DEF CompareFails
  <2>2. ApInv'
    BY <1>0, <1>11 DEF CompareFails, Goto, ApRecord, Pcs
  <2> QED
    BY <2>1, <2>2
<1>12. CASE SeesMotion
  <2>1. Typed'
    BY <1>1, <1>2, <1>3, <1>12 DEF SeesMotion, ReportIds
  <2>2. ap.stir < MaxMotion /\ ap.stir \in 0 .. MaxMotion
    BY <1>12 DEF SeesMotion, ApRecord
  <2>3. ap.stir + 1 \in 0 .. MaxMotion /\ 0 \in 0 .. NoMotionStop
    BY <1>0, <2>2
  <2>4. ap' = [ap EXCEPT !.pc = "advance", !.quiet = 0, !.seen = TRUE,
                         !.stir = ap.stir + 1]
    BY <1>12 DEF SeesMotion
  <2>5. ap' \in ApRecord
    BY <2>3, <2>4 DEF ApRecord, Pcs
  <2>6. /\ ap'.pc = "advance" /\ ap'.job = ap.job /\ ap'.quiet = 0
        /\ ap'.wifiQ = ap.wifiQ /\ ap.pc = "compare"
    BY <1>12, <2>4 DEF SeesMotion, ApRecord
  <2>7. ApInv'
    BY <1>0, <2>5, <2>6
  <2> QED
    BY <2>1, <2>7
<1>13. CASE SeesNoMotion
  <2>1. Typed'
    BY <1>2, <1>13 DEF SeesNoMotion
  <2>2. ap.pc = "compare" /\ ap.job = "MOTION_CHECK" /\ ap.quiet # NoMotionStop
    BY <1>13 DEF SeesNoMotion
  <2>3. ap.quiet \in 0 .. NoMotionStop
    BY DEF ApRecord
  <2>4. CASE ~ap.seen
    BY <1>0, <1>13, <2>1, <2>2, <2>4 DEF SeesNoMotion, Goto, ApRecord, Pcs
  <2>5. CASE ap.seen
    <3> DEFINE to == IF ap.quiet + 1 >= NoMotionStop THEN "save" ELSE "advance"
    <3>1. ap.quiet + 1 \in 0 .. NoMotionStop
      BY <1>0, <2>2, <2>3
    <3>2. ap' = [ap EXCEPT !.quiet = ap.quiet + 1, !.pc = to]
      BY <1>13, <2>5 DEF SeesNoMotion
    <3>3. to \in {"save", "advance"} /\ to \in Pcs
          /\ (ap.quiet + 1 = NoMotionStop => to = "save")
      BY <1>0, <2>3 DEF Pcs
    <3> HIDE DEF to
    <3>4. ap' \in ApRecord
      BY <3>1, <3>2, <3>3 DEF ApRecord
    <3>5. /\ ap'.pc = to /\ ap'.job = "MOTION_CHECK" /\ ap'.quiet = ap.quiet + 1
          /\ ap'.wifiQ = ap.wifiQ
      BY <2>2, <3>2 DEF ApRecord
    <3>6. ApInv'
      BY <1>0, <3>3, <3>4, <3>5
    <3> QED
      BY <2>1, <3>6
  <2> QED
    BY <2>4, <2>5
<1>14. CASE SaveGrayAndStop
  <2>1. Typed'
    BY <1>4, <1>14 DEF SaveGrayAndStop
  <2>2. /\ ap' \in ApRecord /\ ap'.pc = "lastGray" /\ ap.pc = "save"
        /\ ap'.job = ap.job /\ ap'.quiet = ap.quiet /\ ap'.wifiQ = ap.wifiQ
    BY <1>14, StopTypes DEF SaveGrayAndStop, Pcs
  <2>3. ApInv'
    BY <1>0, <2>2
  <2> QED
    BY <2>1, <2>3
<1>15. CASE AbortStop
  <2>1. Typed'
    BY <1>2, <1>15 DEF AbortStop
  <2>2. /\ ap' \in ApRecord /\ ap'.pc = "ready" /\ ap.pc = "abort"
        /\ ap'.job = ap.job /\ ap'.quiet = ap.quiet /\ ap'.wifiQ = ap.wifiQ
    BY <1>15, StopTypes DEF AbortStop, Pcs
  <2>3. ApInv'
    BY <1>0, <2>2
  <2> QED
    BY <2>1, <2>3
<1>16. CASE SendLastGray
  <2>1. Typed'
    BY <1>1, <1>3, <1>16 DEF SendLastGray, ReportIds
  <2>2. ApInv'
    BY <1>0, <1>16 DEF SendLastGray, Goto, ApRecord, Pcs
  <2> QED
    BY <2>1, <2>2
<1>17. CASE SendError
  <2>1. Typed'
    BY <1>1, <1>3, <1>17 DEF SendError, ReportIds
  <2>2. ApInv'
    BY <1>0, <1>17 DEF SendError, ApRecord, Pcs
  <2> QED
    BY <2>1, <2>2
<1>18. CASE SendPowerdownReady
  <2>1. Typed'
    BY <1>1, <1>3, <1>18 DEF SendPowerdownReady, ReportIds
  <2>2. ap' \in {Goto("done"), Goto("final")} /\ ap.pc = "ready"
    BY <1>18 DEF SendPowerdownReady
  <2>3. ApInv'
    BY <1>0, <2>2 DEF Goto, ApRecord, Pcs
  <2> QED
    BY <2>1, <2>3
<1>19. CASE SendFinal
  <2>1. Typed'
    BY <1>1, <1>3, <1>19 DEF SendFinal, ReportIds
  <2>2. ApInv'
    BY <1>0, <1>19 DEF SendFinal, Goto, ApRecord, Pcs
  <2> QED
    BY <2>1, <2>2
<1> QED
  BY <1>6, <1>7, <1>8, <1>9, <1>10, <1>11, <1>12, <1>13, <1>14, <1>15, <1>16,
     <1>17, <1>18, <1>19 DEF JobStep

LEMMA WifiPushTypes ==
    ASSUME NEW q \in Seq({"connect", "motion"}), Len(q) <= WifiQueueDepth,
           NEW r \in {"connect", "motion"}
    PROVE  WifiPush(q, r) \in Seq({"connect", "motion"})
           /\ Len(WifiPush(q, r)) <= WifiQueueDepth
BY DEF WifiPush, WifiQueueDepth

\* The threads of the Wi-Fi stack, and the CLI of the AP.
LEMMA WifiTypesAp ==
    ASSUME Typed, ApInv, WifiStep \/ CompleteQr, UNCHANGED <<device, cp>>
    PROVE  Typed' /\ ApInv'
<1> USE DEF ApInv, ApTypeOK, QuietOK
<1>0. NoMotionStop \in Nat \ {0}
  BY ApAssumption DEF ApAssumption
<1>1. ap.wifiQ \in Seq({"connect", "motion"})
  BY DEF ApRecord
<1>2. ap.seq \in Seqs /\ NoFrame \in Picture
  BY DEF ApRecord, Picture
<1>3. \A rid \in ReportIds : Report(rid, ap.seq, NoFrame) \in Event
  BY <1>2, ReportIsEvent
<1>4. {"WIFI_CONNECTED", "WIFI_CONNECT_FAILED"} \subseteq ReportIds
  BY DEF ReportIds
<1>5. ASSUME UNCHANGED ipcVars PROVE Typed'
  BY <1>5 DEF ipcVars, Typed
<1>6. CASE WifiRequest
  <2>1. toAp' \in 0 .. IpcDepth
    BY <1>6, IpcAssumption DEF WifiRequest, Typed, IpcAssumption
  <2>2. queue' \in Queues /\ lost' \in BOOLEAN /\ wire' \in SUBSET Event
    BY <1>3, <1>4, <1>6, SendTypes DEF WifiRequest, Typed
  <2>3. Typed'
    BY <1>6, <2>1, <2>2 DEF WifiRequest, Typed
  <2> DEFINE q == WifiPush(ap.wifiQ, "connect")
  <2>4. q \in Seq({"connect", "motion"}) /\ Len(q) <= WifiQueueDepth
    BY <1>1, WifiPushTypes
  <2>5. ap' = [ap EXCEPT !.wifiQ = q]
    BY <1>6 DEF WifiRequest
  <2> HIDE DEF q
  <2>6. ap' \in ApRecord /\ ap'.wifiQ = q
    BY <2>4, <2>5 DEF ApRecord
  <2>7. /\ ap'.pc = ap.pc /\ ap'.job = ap.job /\ ap'.quiet = ap.quiet
    BY <2>5 DEF ApRecord
  <2>8. ApInv'
    BY <1>0, <2>4, <2>6, <2>7
  <2> QED
    BY <2>3, <2>8
<1>7. CASE WifiConnect
  <2>1. ap.wifiQ # <<>>
    BY <1>7 DEF WifiConnect
  <2> DEFINE q == Tail(ap.wifiQ)
  <2>2. q \in Seq({"connect", "motion"}) /\ Len(q) <= WifiQueueDepth
    BY <1>1, <2>1 DEF WifiQueueDepth
  <2>3. ap' = [ap EXCEPT !.wifiQ = q, !.connecting = TRUE]
    BY <1>7 DEF WifiConnect
  <2> HIDE DEF q
  <2>4. /\ ap' \in ApRecord /\ ap'.wifiQ = q
        /\ ap'.pc = ap.pc /\ ap'.job = ap.job /\ ap'.quiet = ap.quiet
    BY <2>2, <2>3 DEF ApRecord
  <2>5. ApInv'
    BY <1>0, <2>2, <2>4
  <2> QED
    BY <1>5, <1>7, <2>5 DEF WifiConnect
<1>8. CASE WifiMotion
  <2>1. ap.wifiQ # <<>>
    BY <1>8 DEF WifiMotion
  <2> DEFINE q == Tail(ap.wifiQ)
  <2>2. q \in Seq({"connect", "motion"}) /\ Len(q) <= WifiQueueDepth
    BY <1>1, <2>1 DEF WifiQueueDepth
  <2>3. ap' = IF ReadyForMotion
              THEN [ap EXCEPT !.wifiQ = q, !.job = "MOTION_CHECK",
                              !.pc = "capture", !.runner = "worker"]
              ELSE [ap EXCEPT !.wifiQ = q]
    BY <1>8 DEF WifiMotion
  <2> HIDE DEF q
  <2>4. CASE ReadyForMotion
    <3>1. ap.quiet = 0
      BY <2>4 DEF ReadyForMotion, WaitsForWifi, ApRecord
    <3>2. /\ ap' \in ApRecord /\ ap'.wifiQ = q
          /\ ap'.pc = "capture" /\ ap'.job = "MOTION_CHECK" /\ ap'.quiet = ap.quiet
      BY <2>2, <2>3, <2>4 DEF ApRecord, Jobs, Pcs
    <3>3. ApInv'
      BY <1>0, <2>2, <3>1, <3>2
    <3> QED
      BY <1>5, <1>8, <3>3 DEF WifiMotion
  <2>5. CASE ~ReadyForMotion
    <3>1. /\ ap' \in ApRecord /\ ap'.wifiQ = q
          /\ ap'.pc = ap.pc /\ ap'.job = ap.job /\ ap'.quiet = ap.quiet
      BY <2>2, <2>3, <2>5 DEF ApRecord
    <3>2. ApInv'
      BY <1>0, <2>2, <3>1
    <3> QED
      BY <1>5, <1>8, <3>2 DEF WifiMotion
  <2> QED
    BY <2>4, <2>5
<1>9. CASE WifiDown
  <2>1. Typed'
    BY <1>2, <1>4, <1>5, <1>9, TellTypes DEF WifiDown
  <2>2. ap' = [ap EXCEPT !.connecting = FALSE]
    BY <1>9 DEF WifiDown
  <2>3. /\ ap' \in ApRecord /\ ap'.wifiQ = ap.wifiQ
        /\ ap'.pc = ap.pc /\ ap'.job = ap.job /\ ap'.quiet = ap.quiet
    BY <2>2 DEF ApRecord
  <2>4. ApInv'
    BY <1>0, <2>3
  <2> QED
    BY <2>1, <2>4
<1>10. CASE WifiUp
  <2> DEFINE r == Report("WIFI_CONNECTED", ap.seq, NoFrame)
             q == WifiPush(ap.wifiQ, "motion")
  <2>1. r \in Event
    BY <1>3, <1>4
  <2>2. q \in Seq({"connect", "motion"}) /\ Len(q) <= WifiQueueDepth
    BY <1>1, WifiPushTypes
  <2>3. \/ SendReport(r)
        \/ UNCHANGED <<queue, wire, lost>>
    BY <1>10 DEF WifiUp, SendReport
  <2>4. \/ ap' = [ap EXCEPT !.connecting = FALSE, !.wifiQ = q]
        \/ ap' = [ap EXCEPT !.connecting = FALSE]
    BY <1>10 DEF WifiUp
  <2>5. UNCHANGED <<toAp, shared>>
    BY <1>10 DEF WifiUp
  <2> HIDE DEF q, r
  <2>6. Typed'
    BY <2>1, <2>3, <2>5, SendTypes DEF Typed
  <2>7. /\ ap' \in ApRecord /\ ap'.wifiQ \in {q, ap.wifiQ}
        /\ ap'.pc = ap.pc /\ ap'.job = ap.job /\ ap'.quiet = ap.quiet
    BY <2>2, <2>4, ZenonT(60) DEF ApRecord
  <2>8. ApInv'
    BY <1>0, <2>2, <2>7
  <2> QED
    BY <2>6, <2>8
<1>11. CASE CompleteQr
  <2> DEFINE r == Report("WIFI_CONNECTED", ap.seq, NoFrame)
             a == [ap EXCEPT !.job = "WIFI_CONNECT", !.pc = "idle",
                             !.camera = FALSE, !.failed = FALSE]
  <2>1. r \in Event
    BY <1>3, <1>4
  <2>2. SendReport(r) /\ UNCHANGED <<toAp, shared>>
    BY <1>11 DEF CompleteQr, SendReport
  <2>3. \/ ap' = [a EXCEPT !.job = "MOTION_CHECK", !.pc = "capture",
                           !.runner = "main"]
        \/ ap' = a
    BY <1>11 DEF CompleteQr
  <2>4. ap.quiet = 0
    BY <1>11 DEF CompleteQr, ApRecord
  <2>5. /\ a \in ApRecord /\ a.wifiQ = ap.wifiQ /\ a.quiet = 0
        /\ a.pc = "idle" /\ a.job = "WIFI_CONNECT"
    BY <2>4, ZenonT(60) DEF ApRecord, Jobs, Pcs
  <2> HIDE DEF r, a
  <2>6. Typed'
    BY <2>1, <2>2, SendTypes DEF Typed
  <2>7. /\ ap' \in ApRecord /\ ap'.wifiQ = ap.wifiQ /\ ap'.quiet = 0
        /\ \/ ap'.pc = "capture" /\ ap'.job = "MOTION_CHECK"
           \/ ap'.pc = "idle"
    <3>1. CASE ap' = [a EXCEPT !.job = "MOTION_CHECK", !.pc = "capture",
                               !.runner = "main"]
      BY <2>5, <3>1, ZenonT(60) DEF ApRecord, Jobs, Pcs
    <3>2. CASE ap' = a
      BY <2>5, <3>2
    <3> QED
      BY <2>3, <3>1, <3>2
  <2>8. ApInv'
    BY <1>0, <2>7
  <2> QED
    BY <2>6, <2>8
<1> QED
  BY <1>6, <1>7, <1>8, <1>9, <1>10, <1>11 DEF WifiStep, WifiWorker

LEMMA PowerTypes ==
    ASSUME Typed, ApInv, PowerOn \/ PowerCut \/ Restart
    PROVE  Typed' /\ ApInv'
<1>0. NoMotionStop \in Nat \ {0} /\ MaxMotion \in Nat /\ 0 \in Seqs
  BY ApAssumption, IpcAssumption DEF ApAssumption, IpcAssumption, Seqs
<1>1. /\ ApOff \in ApRecord /\ ApOff.quiet = 0 /\ ApOff.wifiQ = <<>>
      /\ ApOff.pc = "off" /\ ApOff.job = "NORMAL_BOOT"
  BY <1>0 DEF ApOff, ApRecord, Pcs, Jobs, Picture
<1>2. ASSUME ap' = ApOff \/ ap' = [ApOff EXCEPT !.pc = "query"]
      PROVE  ApInv'
  <2>1. /\ ap' \in ApRecord /\ ap'.quiet = 0 /\ ap'.wifiQ = <<>>
        /\ ap'.pc \in {"off", "query"} /\ ap'.job = "NORMAL_BOOT"
    BY <1>1, <1>2 DEF ApRecord, Pcs
  <2> QED
    BY <1>0, <2>1 DEF ApInv, ApTypeOK, QuietOK, WifiQueueDepth
<1>3. CASE PowerOn
  BY <1>2, <1>3 DEF PowerOn, Typed, cpVars, ipcVars
<1>4. CASE PowerCut
  <2>1. Plain("AP_POWERED_OFF") \in Event
    BY PlainIsEvent DEF PlainEvents
  <2>2. queue' \in Queues /\ lost' \in BOOLEAN
    BY <1>4, <2>1, PostToType DEF PowerCut, Post, Typed
  <2>3. 0 \in 0 .. IpcDepth
    BY IpcAssumption DEF IpcAssumption
  <2> QED
    BY <1>2, <1>4, <2>2, <2>3 DEF PowerCut, Typed
<1>5. CASE Restart
  <2>1. Plain("BOOT") \in Event
    BY PlainIsEvent DEF PlainEvents
  <2>2. queue' \in Queues
    BY <1>5, <2>1, IpcAssumption DEF Restart, Queues, IpcAssumption
  <2>3. shared' \in Shared
    BY <1>0, <1>5 DEF Restart, Shared, Jobs, Picture
  <2>4. device' \in DeviceRecord
    BY <1>5, DeviceTypes DEF Restart, Typed
  <2>5. cp' \in CpRecord
    BY <1>0, <1>5 DEF Restart, CpReset, CpRecord, CpStates, Jobs
  <2>6. toAp' \in 0 .. IpcDepth
    <3>1. 0 \in 0 .. IpcDepth
      BY IpcAssumption DEF IpcAssumption
    <3> QED
      BY <1>5, <3>1 DEF Restart
  <2>7. wire' \in SUBSET Event /\ lost' \in BOOLEAN
    BY <1>5 DEF Restart
  <2> QED
    BY <1>2, <1>5, <2>2, <2>3, <2>4, <2>5, <2>6, <2>7 DEF Restart, Typed
<1> QED
  BY <1>3, <1>4, <1>5

-----------------------------------------------------------------------------
(* Types of the system.                                                    *)

LEMMA InitTypes == Init => Typed /\ ApInv
<1> SUFFICES ASSUME Init PROVE Typed /\ ApInv
  OBVIOUS
<1>0. NoMotionStop \in Nat \ {0} /\ MaxMotion \in Nat /\ 0 \in Seqs
  BY ApAssumption, IpcAssumption DEF ApAssumption, IpcAssumption, Seqs
<1>1. Plain("BOOT") \in Event
  BY PlainIsEvent DEF PlainEvents
<1>2. queue \in Queues /\ wire \in SUBSET Event /\ toAp \in 0 .. IpcDepth
      /\ lost \in BOOLEAN
  <2>1. queue = <<Plain("BOOT")>> /\ wire = {} /\ toAp = 0 /\ lost = FALSE
    BY DEF Init, CpInit, IpcInit
  <2>2. queue \in Queues
    BY <1>1, <2>1, IpcAssumption DEF Queues, IpcAssumption
  <2>3. 0 \in 0 .. IpcDepth
    BY IpcAssumption DEF IpcAssumption
  <2> QED
    BY <2>1, <2>2, <2>3
<1>3. shared \in Shared
  BY <1>0 DEF Init, CpInit, IpcInit, Shared, Jobs, Picture
<1>4. device \in DeviceRecord
  <2>1. Defaults \in Store
    BY DEF Defaults, Store, Boots
  <2>2. Factory \subseteq Store
    BY <2>1 DEF Factory, Store, Boots
  <2> QED
    BY <2>1, <2>2 DEF Init, CpInit, DeviceInit, Cold, DeviceRecord
<1>5. cp \in CpRecord
  BY <1>0 DEF Init, CpInit, CpReset, CpRecord, CpStates, Jobs
<1>6. ApInv
  BY <1>0 DEF Init, ApInit, ApOff, ApInv, ApTypeOK, QuietOK, ApRecord, Pcs, Jobs,
              Picture, WifiQueueDepth
<1> QED
  BY <1>2, <1>3, <1>4, <1>5, <1>6 DEF Typed

LEMMA NextTypes == Typed /\ ApInv /\ [Next]_vars => Typed' /\ ApInv'
<1> SUFFICES ASSUME Typed, ApInv, [Next]_vars PROVE Typed' /\ ApInv'
  OBVIOUS
<1>1. ASSUME UNCHANGED ap PROVE ApInv'
  BY <1>1 DEF ApInv, ApTypeOK, QuietOK
<1>2. CASE CpStep
  BY <1>1, <1>2, EventTypes, ReportTypes, InputTypes DEF CpStep
<1>3. CASE ApStep
  BY <1>3, JobTypesAp, WifiTypesAp DEF ApStep
<1>4. CASE PowerOn \/ PowerCut \/ Restart
  BY <1>4, PowerTypes
<1>5. CASE UserStep
  BY <1>1, <1>5, InputTypes, WifiTypesAp DEF UserStep
<1>6. CASE Transport
  <2>1. PICK r \in wire : wire' = wire \ {r} /\ Post(r)
    BY <1>6 DEF Transport, LateArrival
  <2>2. queue' \in Queues /\ lost' \in BOOLEAN
    BY <2>1, PostToType DEF Typed, Post
  <2> QED
    BY <1>1, <1>6, <2>1, <2>2 DEF Typed, Transport, LateArrival
<1>7. CASE UNCHANGED vars
  BY <1>1, <1>7 DEF vars, Typed
<1> QED
  BY <1>2, <1>3, <1>4, <1>5, <1>6, <1>7 DEF Next

\* Every variable keeps to its type and the queues to their depths, whatever
\* failures the instance admits.
THEOREM TypeCorrect == Spec => []TypeOK
<1>1. Typed /\ ApInv => TypeOK
  BY TypedIsCpTypeOK DEF TypeOK, ApInv
<1> QED
  BY <1>1, InitTypes, NextTypes, PTL DEF Spec

THEOREM TypedAlways == Spec => [](Typed /\ ApInv)
BY InitTypes, NextTypes, PTL DEF Spec

-----------------------------------------------------------------------------
(* What the CP's steps do to the power of the AP.  Each starts a job,      *)
(* completes a power-off, or leaves the vote and the job number alone.     *)

JobStates == {"AP_BOOTING", "AP_WORKING", "AP_POWERDOWN"}
Returns == {"KEEPALIVE", "CLOUD_REGISTERING", "WIFI_CONNECTING", "UNPROVISIONED"}
NextIsCurrentReport == NextReport(ReportIds)

Starts ==
    /\ ~cp.apVoteOn /\ cp'.apVoteOn /\ ~cp'.sleepVoted /\ ~cp'.powerdownReady
    /\ cp'.poweringDown = cp.poweringDown
    /\ cp'.returnState \in Returns
    /\ shared'.seq = cp'.activeSeq
    /\ queue # <<>> /\ queue' = Tail(queue)

Completes ==
    /\ queue # <<>> /\ Head(queue).id = "AP_POWERED_OFF" /\ queue' = Tail(queue)
    /\ cp.poweringDown /\ ~cp'.poweringDown /\ ~cp'.apVoteOn
    /\ cp'.activeSeq = cp.activeSeq
    /\ cp'.returnState = cp.returnState /\ cp'.state = cp.returnState
    /\ shared'.seq = shared.seq

Continues ==
    /\ cp'.apVoteOn = cp.apVoteOn /\ cp'.activeSeq = cp.activeSeq
    /\ cp'.returnState \in Returns \cup {cp.returnState}
    /\ cp'.sleepVoted => cp.sleepVoted \/ ~cp.apVoteOn
    /\ cp.poweringDown => cp'.poweringDown
    /\ cp'.poweringDown => cp.poweringDown \/ (cp.apVoteOn /\ cp'.powerdownReady)
    /\ cp.powerdownReady => cp'.powerdownReady
    /\ cp'.powerdownReady =>
          cp.powerdownReady
          \/ (NextIsCurrentReport /\ Head(queue).report = "POWERDOWN_READY")
    /\ cp'.state \in JobStates =>
          cp.state \in JobStates \/ cp.apVoteOn \/ NextIsCurrentReport
    /\ shared'.seq = shared.seq

\* How a step of the CP changes the queue.
Quiet == PlainEvents \ {"AP_POWERED_OFF"}
Advances ==
    \/ queue # <<>> /\ queue' = Tail(queue)
    \/ \E id \in Quiet : queue # <<>> /\ queue' = PushTo(Tail(queue), Plain(id))
    \/ \E id \in Quiet : queue' = PushTo(queue, Plain(id))
    \/ UNCHANGED queue

\* The same fields, as far as the power of the AP goes.
SamePower(c, d) ==
    /\ d.apVoteOn = c.apVoteOn /\ d.activeSeq = c.activeSeq
    /\ d.returnState = c.returnState
    /\ d.poweringDown = c.poweringDown /\ d.powerdownReady = c.powerdownReady

LEMMA AlarmFacts ==
    ASSUME NEW c \in CpRecord
    PROVE  /\ \A d \in VoteSleep(c) : SamePower(c, d) /\ d.state = c.state
           /\ \A d \in ArmDetect(c) : SamePower(c, d) /\ d.state = c.state
           /\ \A d \in EnterRetry(c) :
                  SamePower(c, d) /\ d.state = "RETRY_WAIT"
                  /\ d.sleepVoted = c.sleepVoted
<1>1. \A d \in VoteSleep(c) : SamePower(c, d) /\ d.state = c.state
  BY DEF VoteSleep, SamePower, CpRecord
<1>2. \A d \in ArmDetect(c) : SamePower(c, d) /\ d.state = c.state
  BY DEF ArmDetect, SamePower, CpRecord
<1>3. \A d \in EnterRetry(c) : SamePower(c, d) /\ d.state = "RETRY_WAIT"
                               /\ d.sleepVoted = c.sleepVoted
  <2> DEFINE e == [c EXCEPT !.state = "RETRY_WAIT"]
  <2>1. e \in CpRecord /\ SamePower(c, e) /\ e.state = "RETRY_WAIT"
        /\ e.sleepVoted = c.sleepVoted
    BY DEF SamePower, CpRecord, CpStates
  <2> HIDE DEF e
  <2>2. \A d \in ArmOneshot(e) : SamePower(e, d) /\ d.state = e.state
                                 /\ d.sleepVoted = e.sleepVoted
    BY <2>1 DEF ArmOneshot, SamePower, CpRecord
  <2> QED
    BY <2>1, <2>2 DEF EnterRetry, SamePower, e
<1> QED
  BY <1>1, <1>2, <1>3

LEMMA LaunchFacts ==
    ASSUME Typed, NEW c \in CpRecord, NEW job \in Jobs, NEW s \in CpStates,
           Launch(c, job, s)
    PROVE  /\ ~c.apVoteOn /\ cp'.apVoteOn /\ ~cp'.sleepVoted /\ ~cp'.powerdownReady
           /\ cp'.poweringDown = c.poweringDown
           /\ cp'.returnState = s /\ cp'.state = "AP_BOOTING"
           /\ shared'.seq = cp'.activeSeq
           /\ wire' \subseteq wire
<1> DEFINE e == ResetJobFlags(c)
           f == NewJob(e, job, s)
           d == StartApJob(c, job, s)
<1>1. e \in CpRecord /\ e.poweringDown = c.poweringDown /\ ~e.powerdownReady
  BY DEF ResetJobFlags, CpRecord
<1>2. f \in CpRecord /\ f.poweringDown = c.poweringDown /\ ~f.powerdownReady
      /\ f.returnState = s /\ f.state = "AP_BOOTING"
  <2> HIDE DEF e
  <2>1. NextSeq(e.activeSeq) \in Seqs /\ "AP_BOOTING" \in CpStates
    BY <1>1, NextSeqIsSeq DEF CpRecord, CpStates
  <2> QED
    BY <1>1, <2>1 DEF NewJob, CpRecord
<1>3. d = [f EXCEPT !.sleepVoted = FALSE, !.apVoteOn = TRUE]
  BY DEF StartApJob
<1> HIDE DEF e, f
<1>4. /\ d.apVoteOn /\ ~d.sleepVoted /\ ~d.powerdownReady
      /\ d.poweringDown = c.poweringDown
      /\ d.returnState = s /\ d.state = "AP_BOOTING"
  BY <1>2, <1>3 DEF CpRecord
<1>5. cp' = d /\ ~c.apVoteOn
  BY DEF Launch
<1>6. shared'.seq = d.activeSeq
  BY DEF Launch, Typed, Shared
<1>7. wire' \subseteq wire
  BY DEF Launch, Forget
<1> QED
  BY <1>4, <1>5, <1>6, <1>7

LEMMA TryFacts ==
    ASSUME NEW c \in CpRecord
    PROVE  LET d == TryPowerdown(c)
           IN  /\ d.apVoteOn = c.apVoteOn /\ d.activeSeq = c.activeSeq
               /\ d.returnState = c.returnState /\ d.sleepVoted = c.sleepVoted
               /\ d.powerdownReady = c.powerdownReady
               /\ c.poweringDown => d.poweringDown
               /\ d.poweringDown => c.poweringDown \/ (c.apVoteOn /\ c.powerdownReady)
               /\ d.state = c.state \/ c.apVoteOn
<1> DEFINE e == [c EXCEPT !.oneshotArmed = FALSE]
<1>1. e \in CpRecord /\ SamePower(c, e) /\ e.state = c.state
      /\ e.sleepVoted = c.sleepVoted
  BY DEF SamePower, CpRecord
<1> DEFINE f == [e EXCEPT !.poweringDown = TRUE, !.state = "AP_POWERDOWN"]
<1>2. f.apVoteOn = c.apVoteOn /\ f.activeSeq = c.activeSeq
      /\ f.returnState = c.returnState /\ f.sleepVoted = c.sleepVoted
      /\ f.powerdownReady = c.powerdownReady /\ f.poweringDown
  <2> HIDE DEF e
  <2> QED
    BY <1>1 DEF SamePower, CpRecord
<1>3. \/ TryPowerdown(c) = c
      \/ TryPowerdown(c) = e
      \/ TryPowerdown(c) = f /\ c.apVoteOn /\ c.powerdownReady
  BY DEF TryPowerdown, FinishPowerdown
<1> HIDE DEF e, f
<1> QED
  BY <1>1, <1>2, <1>3 DEF SamePower

LEMMA CompleteFacts ==
    ASSUME NEW c \in CpRecord
    PROVE  \A d \in CompletePowerdown(c) :
               /\ ~d.poweringDown /\ ~d.apVoteOn /\ d.activeSeq = c.activeSeq
               /\ d.returnState = c.returnState /\ d.state = c.returnState
<1> DEFINE e == [c EXCEPT !.poweringDown = FALSE, !.apVoteOn = FALSE,
                          !.activeJob = "NONE", !.state = c.returnState]
<1>1. /\ e \in CpRecord /\ ~e.poweringDown /\ ~e.apVoteOn
      /\ e.activeSeq = c.activeSeq
      /\ e.returnState = c.returnState /\ e.state = c.returnState
  <2>1. "NONE" \in Jobs /\ c.returnState \in CpStates
    BY DEF CpRecord, Jobs
  <2> QED
    BY <2>1 DEF CpRecord
<1>2. CompletePowerdown(c) \subseteq ArmDetect(e) \cup {e}
  BY DEF CompletePowerdown
<1> HIDE DEF e
<1> QED
  BY <1>1, <1>2, AlarmFacts DEF SamePower

LEMMA StartWifiFacts ==
    ASSUME NEW c \in CpRecord, StartWifi(c)
    PROVE  /\ SamePower(c, cp') /\ cp'.sleepVoted = c.sleepVoted
           /\ cp'.state \in {c.state, "RETRY_WAIT"}
<1>1. cp' = c \/ cp' \in EnterRetry(c)
  BY DEF StartWifi
<1> QED
  BY <1>1, AlarmFacts DEF SamePower

\* A step that keeps the power fields and goes to a state outside the jobs.
LEMMA KeepsIsContinues ==
    ASSUME SamePower(cp, cp'), cp'.sleepVoted => cp.sleepVoted \/ ~cp.apVoteOn,
           cp'.state \in JobStates => cp.state \in JobStates,
           shared'.seq = shared.seq
    PROVE  Continues
BY DEF SamePower, Continues

LEMMA ConnectWifiKinds ==
    ASSUME Typed, ConnectWifi, queue # <<>>, queue' = Tail(queue)
    PROVE  (Starts \/ Continues) /\ wire' \subseteq wire
<1> DEFINE c == [cp EXCEPT !.state = "WIFI_CONNECTING"]
<1>1. "WIFI_CONNECTING" \in CpStates /\ "WIFI_CONNECT" \in Jobs
  BY DEF CpStates, Jobs
<1>2. /\ c \in CpRecord /\ SamePower(cp, c) /\ c.sleepVoted = cp.sleepVoted
      /\ c.state = "WIFI_CONNECTING"
  BY <1>1 DEF Typed, CpRecord, SamePower
<1>3. \/ StartWifi(c) /\ UNCHANGED <<shared, wire>>
      \/ Launch(c, "WIFI_CONNECT", "WIFI_CONNECTING") /\ UNCHANGED toAp
  BY DEF ConnectWifi
<1> HIDE DEF c
<1>4. CASE StartWifi(c) /\ UNCHANGED <<shared, wire>>
  <2>1. /\ SamePower(c, cp') /\ cp'.sleepVoted = c.sleepVoted
        /\ cp'.state \in {"WIFI_CONNECTING", "RETRY_WAIT"}
    BY <1>2, <1>4, StartWifiFacts
  <2>2. SamePower(cp, cp')
    BY <1>2, <2>1 DEF SamePower
  <2> QED
    BY <1>2, <1>4, <2>1, <2>2, KeepsIsContinues DEF JobStates
<1>5. CASE Launch(c, "WIFI_CONNECT", "WIFI_CONNECTING")
  BY <1>1, <1>2, <1>5, LaunchFacts DEF Starts, SamePower, Returns
<1> QED
  BY <1>3, <1>4, <1>5

LEMMA StateChange ==
    ASSUME Typed, NEW x \in CpStates, cp' = [cp EXCEPT !.state = x]
    PROVE  SamePower(cp, cp') /\ cp'.sleepVoted = cp.sleepVoted /\ cp'.state = x
BY DEF Typed, CpRecord, SamePower

LEMMA EventKinds ==
    ASSUME Typed, Worker, ~HandleReport
    PROVE  /\ Starts \/ Completes \/ Continues
           /\ queue # <<>> /\ queue' = Tail(queue)
           /\ wire' \subseteq wire
<1>1. queue # <<>> /\ queue' = Tail(queue)
  BY DEF Worker, Take, IsNext, HandleBoot, HandleProvisionStart,
         HandleProvisionFail, HandleProvisionSuccess, HandleRetryTimeout,
         HandleWifiConnected, HandleConnectFail, HandleCloudRegistered,
         DropDetectTimer, HandleDetectTimer, HandleLiveStart, HandleIgnored,
         HandleFactoryReset, HandleOtaStart, HandleOtaFinish, HandlePoweredOff
<1>2. cp \in CpRecord /\ cp.state \in CpStates
  BY DEF Typed, CpRecord
<1>3. ASSUME NEW x \in CpStates \ JobStates, cp' = [cp EXCEPT !.state = x],
             UNCHANGED <<shared, wire>>
      PROVE  Continues /\ wire' \subseteq wire
  BY <1>3, StateChange, KeepsIsContinues
<1>4. ASSUME UNCHANGED <<cp, shared, wire>>
      PROVE  Continues /\ wire' \subseteq wire
  BY <1>4, KeepsIsContinues DEF SamePower
<1>5. ASSUME NEW job \in Jobs, NEW s \in Returns, Launch(cp, job, s)
      PROVE  Starts /\ wire' \subseteq wire
  BY <1>1, <1>2, <1>5, LaunchFacts DEF Starts, Returns, CpStates
<1>6. CASE HandleBoot
  <2>1. {"FACTORY_RESETTING", "OTA_UPGRADING"} \subseteq CpStates \ JobStates
    BY DEF CpStates, JobStates
  <2>2. {"WIFI_CONNECT", "QR_PROVISION"} \subseteq Jobs
    BY DEF Jobs
  <2>3. {"WIFI_CONNECTING", "UNPROVISIONED"} \subseteq Returns
    BY DEF Returns
  <2>4. \/ \E x \in {"FACTORY_RESETTING", "OTA_UPGRADING"} :
              cp' = [cp EXCEPT !.state = x] /\ UNCHANGED <<shared, wire>>
        \/ Launch(cp, "WIFI_CONNECT", "WIFI_CONNECTING")
        \/ Launch(cp, "QR_PROVISION", "UNPROVISIONED")
    BY <1>6 DEF HandleBoot
  <2> QED
    BY <1>1, <1>3, <1>5, <2>1, <2>2, <2>3, <2>4
<1>7. CASE \/ HandleProvisionStart \/ HandleProvisionFail \/ HandleWifiConnected
           \/ HandleFactoryReset \/ HandleOtaStart \/ HandleOtaFinish
  <2>1. {"PROVISIONING", "UNPROVISIONED", "CLOUD_REGISTERING", "FACTORY_RESETTING",
         "OTA_UPGRADING", "BOOT_INIT"} \subseteq CpStates \ JobStates
    BY DEF CpStates, JobStates
  <2>2. \E x \in {"PROVISIONING", "UNPROVISIONED", "CLOUD_REGISTERING",
                  "FACTORY_RESETTING", "OTA_UPGRADING", "BOOT_INIT"} :
            cp' = [cp EXCEPT !.state = x] /\ UNCHANGED <<shared, wire>>
    BY <1>7 DEF HandleProvisionStart, HandleProvisionFail, HandleWifiConnected,
                HandleFactoryReset, HandleOtaStart, HandleOtaFinish
  <2> QED
    BY <1>1, <1>3, <2>1, <2>2
<1>8. CASE HandleProvisionSuccess \/ HandleRetryTimeout
  BY <1>1, <1>8, ConnectWifiKinds DEF HandleProvisionSuccess, HandleRetryTimeout
<1>9. CASE HandleConnectFail
  <2>1. cp' \in EnterRetry(cp) /\ UNCHANGED <<shared, wire>>
    BY <1>9 DEF HandleConnectFail
  <2>2. SamePower(cp, cp') /\ cp'.state = "RETRY_WAIT"
        /\ cp'.sleepVoted = cp.sleepVoted
    BY <1>2, <2>1, AlarmFacts
  <2> QED
    BY <1>1, <2>1, <2>2, KeepsIsContinues DEF JobStates
<1>10. CASE HandleCloudRegistered
  <2>1. UNCHANGED <<shared, wire>>
    BY <1>10 DEF HandleCloudRegistered
  <2>2. CASE cp.apVoteOn
    <3>1. cp' = [cp EXCEPT !.state = "KEEPALIVE", !.returnState = "KEEPALIVE"]
      BY <1>10, <2>2 DEF HandleCloudRegistered
    <3>2. /\ cp'.apVoteOn = cp.apVoteOn /\ cp'.activeSeq = cp.activeSeq
          /\ cp'.returnState = "KEEPALIVE" /\ cp'.sleepVoted = cp.sleepVoted
          /\ cp'.poweringDown = cp.poweringDown
          /\ cp'.powerdownReady = cp.powerdownReady /\ cp'.state = "KEEPALIVE"
      BY <1>2, <3>1 DEF CpRecord
    <3> QED
      BY <1>1, <2>1, <3>2 DEF Continues, Returns, JobStates
  <2>3. CASE ~cp.apVoteOn
    <3> DEFINE d == [cp EXCEPT !.state = "KEEPALIVE"]
    <3>1. d \in CpRecord /\ SamePower(cp, d) /\ d.state = "KEEPALIVE"
      BY <1>2 DEF CpRecord, CpStates, SamePower
    <3>2. cp' \in ArmDetect(d)
      BY <1>10, <2>3 DEF HandleCloudRegistered
    <3> HIDE DEF d
    <3>3. SamePower(d, cp') /\ cp'.state = "KEEPALIVE"
      BY <3>1, <3>2, AlarmFacts
    <3>4. SamePower(cp, cp')
      BY <3>1, <3>3 DEF SamePower
    <3> QED
      BY <1>1, <2>1, <2>3, <3>3, <3>4, KeepsIsContinues DEF JobStates
  <2> QED
    BY <2>2, <2>3
<1>11. CASE DropDetectTimer \/ HandleIgnored
  BY <1>1, <1>4, <1>11 DEF DropDetectTimer, HandleIgnored
<1>12. CASE HandleDetectTimer
  <2> DEFINE c == [cp EXCEPT !.tickSeen = TRUE]
  <2>1. /\ c \in CpRecord /\ SamePower(cp, c) /\ c.state = cp.state
        /\ c.sleepVoted = cp.sleepVoted
    BY <1>2 DEF CpRecord, SamePower
  <2>2. \/ cp' = c /\ UNCHANGED <<shared, wire>>
        \/ cp.state \in DetectStates /\ Launch(c, "MOTION_CHECK", cp.state)
        \/ ~cp.apVoteOn /\ cp' \in VoteSleep(c) /\ UNCHANGED <<shared, wire>>
    BY <1>12 DEF HandleDetectTimer
  <2> HIDE DEF c
  <2>3. CASE cp' = c /\ UNCHANGED <<shared, wire>>
    BY <1>1, <2>1, <2>3, KeepsIsContinues
  <2>4. CASE cp.state \in DetectStates /\ Launch(c, "MOTION_CHECK", cp.state)
    <3>1. "MOTION_CHECK" \in Jobs /\ cp.state \in Returns
      BY <2>4 DEF Jobs, Returns, DetectStates
    <3> QED
      BY <1>1, <1>2, <2>1, <2>4, <3>1, LaunchFacts DEF Starts, SamePower
  <2>5. CASE ~cp.apVoteOn /\ cp' \in VoteSleep(c) /\ UNCHANGED <<shared, wire>>
    <3>1. SamePower(c, cp') /\ cp'.state = cp.state
      BY <2>1, <2>5, AlarmFacts
    <3>2. SamePower(cp, cp')
      BY <2>1, <3>1 DEF SamePower
    <3> QED
      BY <1>1, <2>5, <3>1, <3>2, KeepsIsContinues
  <2> QED
    BY <2>2, <2>3, <2>4, <2>5
<1>13. CASE HandleLiveStart
  <2>1. "LIVE_STREAM" \in Jobs /\ "KEEPALIVE" \in Returns
    BY DEF Jobs, Returns
  <2>2. \/ Launch(cp, "LIVE_STREAM", "KEEPALIVE")
        \/ UNCHANGED <<cp, shared, wire>>
    BY <1>13 DEF HandleLiveStart
  <2> QED
    BY <1>1, <1>4, <1>5, <2>1, <2>2
<1>14. CASE HandlePoweredOff
  <2>1. wire' = wire /\ Head(queue).id = "AP_POWERED_OFF"
    BY <1>14 DEF HandlePoweredOff, Take, IsNext
  <2>2. CASE cp.poweringDown
    <3>1. cp' \in CompletePowerdown(cp) /\ shared' = [shared EXCEPT !.job = "NONE"]
      BY <1>14, <2>2 DEF HandlePoweredOff
    <3>2. shared'.seq = shared.seq
      BY <3>1 DEF Typed, Shared
    <3>3. Completes
      BY <1>1, <1>2, <2>1, <2>2, <3>1, <3>2, CompleteFacts DEF Completes
    <3> QED
      BY <1>1, <2>1, <3>3
  <2>3. CASE ~cp.poweringDown
    <3>1. UNCHANGED <<cp, shared, wire>>
      BY <1>14, <2>1, <2>3 DEF HandlePoweredOff
    <3> QED
      BY <1>1, <1>4, <3>1
  <2> QED
    BY <2>2, <2>3
<1> QED
  BY <1>6, <1>7, <1>8, <1>9, <1>10, <1>11, <1>12, <1>13, <1>14 DEF Worker

\* A report that is handled by aov_cp_try_powerdown after the changes in c.
LEMMA TryIsContinues ==
    ASSUME NEW c \in CpRecord, cp' = TryPowerdown(c),
           c.apVoteOn = cp.apVoteOn, c.activeSeq = cp.activeSeq,
           c.returnState = cp.returnState, c.sleepVoted = cp.sleepVoted,
           c.poweringDown = cp.poweringDown,
           cp.powerdownReady => c.powerdownReady,
           c.powerdownReady =>
             cp.powerdownReady \/ Head(queue).report = "POWERDOWN_READY",
           NextIsCurrentReport,
           shared'.seq = shared.seq
    PROVE  Continues
<1>1. /\ cp'.apVoteOn = c.apVoteOn /\ cp'.activeSeq = c.activeSeq
      /\ cp'.returnState = c.returnState /\ cp'.sleepVoted = c.sleepVoted
      /\ cp'.powerdownReady = c.powerdownReady
      /\ c.poweringDown => cp'.poweringDown
      /\ cp'.poweringDown => c.poweringDown \/ (c.apVoteOn /\ c.powerdownReady)
  BY TryFacts
<1> QED
  BY <1>1 DEF Continues

LEMMA ReportKinds ==
    ASSUME Typed, HandleReport
    PROVE  /\ Continues
           /\ queue # <<>>
           /\ \/ queue' = Tail(queue)
              \/ \E id \in Quiet : queue' = PushTo(Tail(queue), Plain(id))
           /\ wire' = wire
<1>1. /\ queue # <<>>
      /\ \/ queue' = Tail(queue)
         \/ \E id \in Quiet : queue' = PushTo(Tail(queue), Plain(id))
  BY DEF HandleReport, StaleReport, BootReady, WifiConnected, WifiConnectFailed,
         WorkDone, LastGrayReady, PowerdownReady, MotionDetected, ApError,
         Take, TakeReport, NextReport, IsNext, PostTo, Quiet, PlainEvents,
         ProductEvents
<1>2. wire' = wire
  BY DEF HandleReport, StaleReport, BootReady, WifiConnected, WifiConnectFailed,
         WorkDone, LastGrayReady, PowerdownReady, MotionDetected, ApError
<1>3. cp \in CpRecord /\ shared \in Shared
  BY DEF Typed
<1>4. ASSUME UNCHANGED <<cp, shared>> PROVE Continues
  BY <1>4, KeepsIsContinues DEF SamePower
<1>5. CASE StaleReport \/ WifiConnectFailed
  BY <1>1, <1>2, <1>4, <1>5 DEF StaleReport, WifiConnectFailed
<1>6. CASE BootReady
  <2> DEFINE c == [cp EXCEPT !.oneshotArmed = FALSE, !.state = "WIFI_CONNECTING"]
             d == [cp EXCEPT !.state = "AP_WORKING",
                             !.oneshotArmed = cp.activeJob = "MOTION_CHECK" /\ @]
  <2>1. /\ c \in CpRecord /\ SamePower(cp, c) /\ c.sleepVoted = cp.sleepVoted
        /\ c.state = "WIFI_CONNECTING"
    BY <1>3 DEF CpRecord, CpStates, SamePower
  <2>2. SamePower(cp, d) /\ d.sleepVoted = cp.sleepVoted
    BY <1>3 DEF CpRecord, SamePower
  <2>3. StartWifi(c) \/ cp' = d
    BY <1>6 DEF BootReady
  <2>4. shared' = shared /\ NextIsCurrentReport
    BY <1>6 DEF BootReady, TakeReport, NextReport, NextIsCurrentReport, ReportIds
  <2> HIDE DEF c, d
  <2>5. CASE StartWifi(c)
    <3>1. /\ SamePower(c, cp') /\ cp'.sleepVoted = c.sleepVoted
          /\ cp'.state \in {"WIFI_CONNECTING", "RETRY_WAIT"}
      BY <2>1, <2>5, StartWifiFacts
    <3>2. SamePower(cp, cp')
      BY <2>1, <3>1 DEF SamePower
    <3> QED
      BY <1>1, <1>2, <2>1, <2>4, <3>1, <3>2, KeepsIsContinues DEF JobStates
  <2>6. CASE cp' = d
    BY <1>1, <1>2, <2>2, <2>4, <2>6 DEF Continues, SamePower
  <2> QED
    BY <2>3, <2>5, <2>6
<1>7. CASE WifiConnected
  <2>1. cp' = [cp EXCEPT !.activeJob = "MOTION_CHECK",
                         !.returnState = "CLOUD_REGISTERING"]
    BY <1>7 DEF WifiConnected
  <2>2. /\ cp'.apVoteOn = cp.apVoteOn /\ cp'.activeSeq = cp.activeSeq
        /\ cp'.returnState = "CLOUD_REGISTERING" /\ cp'.sleepVoted = cp.sleepVoted
        /\ cp'.poweringDown = cp.poweringDown
        /\ cp'.powerdownReady = cp.powerdownReady /\ cp'.state = cp.state
    BY <1>3, <2>1 DEF CpRecord
  <2>3. shared'.seq = shared.seq
    BY <1>3, <1>7 DEF WifiConnected, Shared
  <2> QED
    BY <1>1, <1>2, <2>2, <2>3 DEF Continues, Returns
<1>8. CASE WorkDone
  <2> DEFINE c == [cp EXCEPT !.workComplete = TRUE, !.state = "AP_POWERDOWN"]
  <2>1. c \in CpRecord /\ SamePower(cp, c) /\ c.sleepVoted = cp.sleepVoted
    BY <1>3 DEF CpRecord, CpStates, SamePower
  <2>2. cp' = TryPowerdown(c) /\ shared' = shared /\ NextIsCurrentReport
    BY <1>8 DEF WorkDone, TakeReport, NextReport, NextIsCurrentReport, ReportIds
  <2> HIDE DEF c
  <2> QED
    BY <1>1, <1>2, <2>1, <2>2, TryIsContinues DEF SamePower
<1>9. CASE LastGrayReady
  <2> DEFINE c == [cp EXCEPT !.lastGrayReady = TRUE]
  <2>1. c \in CpRecord /\ SamePower(cp, c) /\ c.sleepVoted = cp.sleepVoted
    BY <1>3 DEF CpRecord, SamePower
  <2>2. cp' = TryPowerdown(c) /\ NextIsCurrentReport
    BY <1>9 DEF LastGrayReady, TakeReport, NextReport, NextIsCurrentReport, ReportIds
  <2>3. shared'.seq = shared.seq
    BY <1>3, <1>9 DEF LastGrayReady, Shared
  <2> HIDE DEF c
  <2> QED
    BY <1>1, <1>2, <2>1, <2>2, <2>3, TryIsContinues DEF SamePower
<1>10. CASE PowerdownReady
  <2> DEFINE c == [cp EXCEPT !.powerdownReady = TRUE]
  <2>1. /\ c \in CpRecord /\ c.sleepVoted = cp.sleepVoted
        /\ c.apVoteOn = cp.apVoteOn /\ c.activeSeq = cp.activeSeq
        /\ c.returnState = cp.returnState /\ c.poweringDown = cp.poweringDown
        /\ c.powerdownReady
    BY <1>3 DEF CpRecord
  <2>2. cp' = TryPowerdown(c) /\ shared' = shared /\ NextIsCurrentReport
    BY <1>10 DEF PowerdownReady, TakeReport, NextReport, NextIsCurrentReport, ReportIds
  <2>3. Head(queue).report = "POWERDOWN_READY"
    BY <1>10 DEF PowerdownReady, TakeReport, NextReport
  <2> HIDE DEF c
  <2> QED
    BY <1>1, <1>2, <2>1, <2>2, <2>3, TryIsContinues
<1>11. CASE MotionDetected
  <2>1. cp' = [cp EXCEPT !.abortingJob = TRUE] /\ shared' = shared
    BY <1>11 DEF MotionDetected
  <2>2. SamePower(cp, cp') /\ cp'.sleepVoted = cp.sleepVoted /\ cp'.state = cp.state
    BY <1>3, <2>1 DEF CpRecord, SamePower
  <2> QED
    BY <1>1, <1>2, <2>1, <2>2, KeepsIsContinues
<1>12. CASE ApError
  <2> DEFINE c == [cp EXCEPT !.abortingJob = TRUE, !.workComplete = TRUE]
  <2>1. c \in CpRecord /\ SamePower(cp, c) /\ c.sleepVoted = cp.sleepVoted
    BY <1>3 DEF CpRecord, SamePower
  <2>2. cp' = TryPowerdown(c) /\ shared' = shared /\ NextIsCurrentReport
    BY <1>12 DEF ApError, TakeReport, NextReport, NextIsCurrentReport, ReportIds
  <2> HIDE DEF c
  <2> QED
    BY <1>1, <1>2, <2>1, <2>2, TryIsContinues DEF SamePower
<1> QED
  BY <1>5, <1>6, <1>7, <1>8, <1>9, <1>10, <1>11, <1>12 DEF HandleReport

LEMMA InputKinds ==
    ASSUME Typed, DetectTick \/ OneshotFires \/ ProductEvent \/ WifiCommand
    PROVE  Continues /\ Advances /\ wire' = wire
<1>1. cp \in CpRecord
  BY DEF Typed
<1>2. ASSUME UNCHANGED <<cp, shared>> PROVE Continues
  BY <1>2, KeepsIsContinues DEF SamePower
<1>3. CASE DetectTick
  <2>1. cp' = [cp EXCEPT !.sleepVoted = FALSE] /\ shared' = shared /\ wire' = wire
    BY <1>3 DEF DetectTick
  <2>2. SamePower(cp, cp') /\ ~cp'.sleepVoted /\ cp'.state = cp.state
    BY <1>1, <2>1 DEF CpRecord, SamePower
  <2>3. Advances
    BY <1>3 DEF DetectTick, Post, PostTo, Advances, Quiet, PlainEvents
  <2> QED
    BY <2>1, <2>2, <2>3, KeepsIsContinues
<1>4. CASE OneshotFires
  <2>1. cp' = [cp EXCEPT !.oneshotArmed = FALSE] /\ shared' = shared /\ wire' = wire
    BY <1>4 DEF OneshotFires
  <2>2. SamePower(cp, cp') /\ cp'.sleepVoted = cp.sleepVoted /\ cp'.state = cp.state
    BY <1>1, <2>1 DEF CpRecord, SamePower
  <2>3. Advances
    BY <1>4 DEF OneshotFires, Post, PostTo, Advances, Quiet, PlainEvents
  <2> QED
    BY <2>1, <2>2, <2>3, KeepsIsContinues
<1>5. CASE ProductEvent
  <2>1. UNCHANGED <<cp, shared, wire>>
    BY <1>5 DEF ProductEvent
  <2>2. PICK id \in ProductEvents : Post(Plain(id))
    BY <1>5 DEF ProductEvent
  <2>3. id \in Quiet
    BY <2>2 DEF Quiet, PlainEvents, ProductEvents
  <2>4. Advances
    BY <2>2, <2>3 DEF Post, PostTo, Advances
  <2> QED
    BY <1>2, <2>1, <2>4
<1>6. CASE WifiCommand
  BY <1>2, <1>6 DEF WifiCommand, ipcVars, Advances
<1> QED
  BY <1>3, <1>4, <1>5, <1>6

-----------------------------------------------------------------------------
(* The sleep vote.                                                         *)

LEMMA SleepVoteStep ==
    Typed /\ SleepVoteOnlyApDown /\ [Next]_vars => SleepVoteOnlyApDown'
<1> SUFFICES ASSUME Typed, SleepVoteOnlyApDown, [Next]_vars
             PROVE  SleepVoteOnlyApDown'
  OBVIOUS
<1> USE DEF SleepVoteOnlyApDown
<1>1. ASSUME Starts \/ Completes \/ Continues PROVE SleepVoteOnlyApDown'
  BY <1>1 DEF Starts, Completes, Continues
<1>2. CASE CpStep
  BY <1>1, <1>2, EventKinds, ReportKinds, InputKinds DEF CpStep
<1>3. CASE ApStep \/ Transport \/ PowerCut
  BY <1>3 DEF ApStep, Transport, PowerCut
<1>4. CASE PowerOn
  BY <1>4 DEF PowerOn, cpVars
<1>5. CASE UserStep
  BY <1>1, <1>5, InputKinds DEF UserStep
<1>6. CASE Restart
  BY <1>6 DEF Restart, CpReset
<1>7. CASE UNCHANGED vars
  BY <1>7 DEF vars
<1> QED
  BY <1>2, <1>3, <1>4, <1>5, <1>6, <1>7 DEF Next

\* aov_cp_vote_rtc_sleep: whatever fails, and however many jobs and pictures
\* there are, the CP never holds its sleep vote while the AP is voted on.
THEOREM SleepVoteSafe == Spec => []SleepVoteOnlyApDown
<1>1. Init => SleepVoteOnlyApDown
  BY DEF Init, CpInit, CpReset, SleepVoteOnlyApDown
<1> QED
  BY <1>1, TypedAlways, SleepVoteStep, PTL DEF Spec

-----------------------------------------------------------------------------
(* What the AP's steps do, as far as reports and quiescence go.            *)

Silent == {"off", "query", "idle", "done"}
Handed == {"QR_PROVISION", "WIFI_CONNECT"}   \* jobs that become motion checks

\* The AP sends at most one report, about its own job, and only one of its
\* steps promises that it is ready to lose its power.
ApReports ==
    /\ ap'.pc = "off" <=> ap.pc = "off"
    /\ shared'.seq = shared.seq
    /\ wire' = wire \/ "late" \in Faults
    /\ \/ queue' = queue
       \/ \E rid \in ReportIds, f \in Picture :
             /\ queue' = PushTo(queue, Report(rid, ap.seq, f))
             /\ ap.pc # "off" /\ (ap.pc \notin Silent \/ ap.job \in Handed)
             /\ rid = "POWERDOWN_READY" => ap.pc = "ready" /\ ap'.pc \in {"final", "done"}

\* The job and its number are read once, from the shared environment.
ApPage ==
    \/ ap.pc = "query" /\ ap'.seq = shared.seq
    \/ /\ ap'.seq = ap.seq
       /\ ap'.pc \notin Silent => ap.pc \notin Silent \/ ap.job \in Handed
       /\ ap'.job \in Handed => ap.job \in Handed

\* The camera is off from the end of the job on.
ApStops ==
    /\ ap'.pc \in {"final", "done"} =>
          ap.pc \in {"ready", "final", "done"} /\ ap'.camera = ap.camera
    /\ ap'.pc = "ready" =>
          \/ ap.pc \in {"lastGray", "ready"} /\ ap'.camera = ap.camera
          \/ ap.pc = "abort" /\ ("stop" \in Faults \/ ~ap'.camera)
    /\ ap'.pc = "lastGray" =>
          \/ ap.pc = "lastGray" /\ ap'.camera = ap.camera
          \/ "stop" \in Faults \/ ~ap'.camera
    /\ ap'.pc \in {"off", "query"} => ap'.pc = ap.pc /\ ap'.camera = ap.camera
    /\ ap.pc \in {"final", "done"} =>
          \/ ap'.pc \in {"final", "done"}
          \/ "QR_DONE" \in Inputs /\ ap.job \in Handed
    /\ ap'.pc \in {"failing", "abort", "ready", "final", "done"} =>
          /\ ap'.job = ap.job
          /\ \/ ap.pc \in {"failing", "abort", "ready", "final", "done"}
             \/ ap.job \notin Handed \/ "camera" \in Faults

ApMoves == ApReports /\ ApPage /\ ApStops

LEMMA GotoFacts ==
    ASSUME ap \in ApRecord
    PROVE  \A pc \in Pcs : LET a == Goto(pc)
                           IN  /\ a.pc = pc /\ a.seq = ap.seq /\ a.job = ap.job
                               /\ a.camera = ap.camera
BY DEF Goto, ApRecord

\* What sending a report does to the queue and the transport.
LEMMA TellFacts ==
    ASSUME NEW rid \in ReportIds, NEW f \in Picture, Tell(rid, f)
    PROVE  /\ queue' \in {queue, PushTo(queue, Report(rid, ap.seq, f))}
           /\ wire' = wire \/ "late" \in Faults
           /\ shared' = shared
BY DEF Tell, SendReport, Delivered, NotDelivered, Post, PostTo

\* A step that keeps the job and its number, and sends report rid or nothing.
LEMMA StepMoves ==
    ASSUME ap.pc # "off", ap'.pc # "off",
           ap'.seq = ap.seq, ap'.job = ap.job,
           NEW rid \in ReportIds, NEW f \in Picture,
           \/ queue' = queue
           \/ /\ queue' = PushTo(queue, Report(rid, ap.seq, f))
              /\ ap.pc \notin Silent \/ ap.job \in Handed,
           rid = "POWERDOWN_READY" => ap.pc = "ready" /\ ap'.pc \in {"final", "done"},
           wire' = wire \/ "late" \in Faults, shared'.seq = shared.seq,
           ap'.pc \notin Silent => ap.pc \notin Silent,
           ApStops
    PROVE  ApMoves
BY DEF ApMoves, ApReports, ApPage

LEMMA JobMoves ==
    ASSUME Typed, ApInv, JobStep
    PROVE  ApMoves
<1>1. ap \in ApRecord /\ shared \in Shared /\ NoFrame \in Picture /\ ap.cur \in Picture
  BY DEF Typed, ApInv, ApTypeOK, ApRecord, Picture
<1>2. ASSUME UNCHANGED ipcVars
      PROVE  queue' = queue /\ wire' = wire /\ shared' = shared
  BY <1>2 DEF ipcVars
<1>3. "BOOT_READY" \in ReportIds /\ "BOOT_READY" # "POWERDOWN_READY"
  BY DEF ReportIds
<1>4. ASSUME shared' = [shared EXCEPT !.buffer = ap.cur]
      PROVE  shared'.seq = shared.seq
  BY <1>1, <1>4 DEF Shared
<1>5. \A rid \in ReportIds, f \in Picture :
          Tell(rid, f) => /\ queue' \in {queue, PushTo(queue, Report(rid, ap.seq, f))}
                          /\ wire' = wire \/ "late" \in Faults
                          /\ shared' = shared
  BY TellFacts
<1>6. CASE QueryEnv
  <2>1. /\ ap.pc = "query" /\ queue' = queue /\ wire' = wire /\ shared' = shared
    BY <1>2, <1>6 DEF QueryEnv
  <2>2. \/ ap' = [ap EXCEPT !.pc = "hello", !.seq = shared.seq, !.job = shared.job]
        \/ ap' = Goto("idle")
    BY <1>6 DEF QueryEnv
  <2>3. \/ ap'.pc = "hello" /\ ap'.seq = shared.seq
        \/ ap'.pc = "idle" /\ ap'.seq = ap.seq /\ ap'.job = ap.job
    <3>1. CASE ap' = [ap EXCEPT !.pc = "hello", !.seq = shared.seq, !.job = shared.job]
      BY <1>1, <3>1 DEF ApRecord
    <3>2. CASE ap' = Goto("idle")
      BY <1>1, <3>2, GotoFacts DEF Pcs
    <3> QED
      BY <2>2, <3>1, <3>2
  <2> QED
    BY <2>1, <2>3 DEF ApMoves, ApReports, ApPage, ApStops, Silent
<1>7. CASE Hello
  <2>1. /\ ap.pc = "hello" /\ ap'.pc = "dispatch"
        /\ ap'.seq = ap.seq /\ ap'.job = ap.job
    BY <1>1, <1>7, GotoFacts DEF Hello, Pcs
  <2>2. Tell("BOOT_READY", NoFrame)
    BY <1>7 DEF Hello
  <2> QED
    BY <1>1, <1>3, <1>5, <2>1, <2>2, StepMoves DEF ApStops, Silent
<1>8. CASE Dispatch
  <2>1. /\ ap.pc = "dispatch" /\ queue' = queue /\ wire' = wire /\ shared' = shared
    BY <1>2, <1>8 DEF Dispatch
  <2>2. \/ ap' = [ap EXCEPT !.pc = "idle", !.camera = TRUE]
        \/ ap' \in {Goto("idle"), Goto("capture")}
        \/ ap' = Goto("failing") /\ (ap.job \notin Handed \/ "camera" \in Faults)
    BY <1>8 DEF Dispatch, Fails, Handed
  <2>3. /\ ap'.seq = ap.seq /\ ap'.job = ap.job
        /\ \/ ap'.pc \in {"idle", "capture"}
           \/ ap'.pc = "failing" /\ (ap.job \notin Handed \/ "camera" \in Faults)
    <3>1. CASE ap' = [ap EXCEPT !.pc = "idle", !.camera = TRUE]
      BY <1>1, <3>1 DEF ApRecord
    <3>2. CASE ap' \in {Goto("idle"), Goto("capture")}
      BY <1>1, <3>2, GotoFacts DEF Pcs
    <3>3. CASE ap' = Goto("failing") /\ (ap.job \notin Handed \/ "camera" \in Faults)
      BY <1>1, <3>3, GotoFacts DEF Pcs
    <3> QED
      BY <2>2, <3>1, <3>2, <3>3
  <2> QED
    BY <1>1, <1>3, <2>1, <2>3, StepMoves DEF ApStops, Silent
<1>9. CASE Capture \/ SecondSample \/ Advance
  <2>1. /\ ap.pc \in {"capture", "second", "advance"} /\ queue' = queue /\ wire' = wire
        /\ shared'.seq = shared.seq
    BY <1>2, <1>4, <1>9 DEF Capture, SecondSample, Advance
  <2>2. ap' \in Captures(ap, "compare") \cup Captures(ap, "second")
    BY <1>9 DEF Capture, SecondSample, Advance
  <2>3. /\ ap'.pc \in {"compare", "second", "failing"}
        /\ ap'.seq = ap.seq /\ ap'.job = ap.job
    BY <1>1, <2>2, CaptureTypes DEF Pcs
  <2>4. ap.job \notin Handed
    BY <2>1 DEF ApInv, QuietOK, Handed
  <2> QED
    BY <1>1, <1>3, <2>1, <2>3, <2>4, StepMoves DEF ApStops, Silent
<1>10. CASE CompareFails
  <2>1. /\ ap.pc = "compare" /\ queue' = queue /\ wire' = wire /\ shared' = shared
        /\ ap'.pc = "failing" /\ ap'.seq = ap.seq /\ ap'.job = ap.job
    BY <1>1, <1>2, <1>10, GotoFacts DEF CompareFails, Pcs
  <2>2. ap.job \notin Handed
    BY <2>1 DEF ApInv, QuietOK, Handed
  <2> QED
    BY <1>1, <1>3, <2>1, <2>2, StepMoves DEF ApStops, Silent
<1>11. CASE SeesMotion
  <2>1. ap' = [ap EXCEPT !.pc = "advance", !.quiet = 0, !.seen = TRUE, !.stir = @ + 1]
    BY <1>11 DEF SeesMotion
  <2>2. ap.pc = "compare" /\ ap'.pc = "advance" /\ ap'.seq = ap.seq /\ ap'.job = ap.job
    BY <1>1, <1>11, <2>1 DEF SeesMotion, ApRecord
  <2>3. \/ queue' = queue /\ wire' = wire /\ shared' = shared
        \/ Tell("MOTION_DETECTED", NoFrame)
    BY <1>2, <1>11 DEF SeesMotion
  <2>4. "MOTION_DETECTED" \in ReportIds
    BY DEF ReportIds
  <2> QED
    BY <1>1, <1>5, <2>2, <2>3, <2>4, StepMoves DEF ApStops, Silent
<1>12. CASE SeesNoMotion
  <2>1. ap.pc = "compare" /\ queue' = queue /\ wire' = wire /\ shared' = shared
    BY <1>2, <1>12 DEF SeesNoMotion
  <2>2. \/ ap' = Goto("save")
        \/ \E pc \in {"save", "advance"} :
              ap' = [ap EXCEPT !.quiet = ap.quiet + 1, !.pc = pc]
    BY <1>12 DEF SeesNoMotion
  <2>3. ap'.pc \in {"save", "advance"} /\ ap'.seq = ap.seq /\ ap'.job = ap.job
    BY <1>1, <2>2, GotoFacts, ZenonT(60) DEF ApRecord, Pcs
  <2> QED
    BY <1>1, <1>3, <2>1, <2>3, StepMoves DEF ApStops, Silent
<1>13. CASE SaveGrayAndStop
  <2>1. /\ ap.pc = "save" /\ queue' = queue /\ wire' = wire
        /\ shared'.seq = shared.seq
    BY <1>4, <1>13 DEF SaveGrayAndStop
  <2>2. /\ ap'.pc = "lastGray" /\ ap'.seq = ap.seq /\ ap'.job = ap.job
        /\ "stop" \in Faults \/ ~ap'.camera
    BY <1>1, <1>13, StopTypes DEF SaveGrayAndStop, Pcs
  <2> QED
    BY <1>1, <1>3, <2>1, <2>2, StepMoves DEF ApStops, Silent
<1>14. CASE AbortStop
  <2>1. /\ ap.pc = "abort" /\ queue' = queue /\ wire' = wire /\ shared' = shared
    BY <1>2, <1>14 DEF AbortStop
  <2>2. /\ ap'.pc = "ready" /\ ap'.seq = ap.seq /\ ap'.job = ap.job
        /\ "stop" \in Faults \/ ~ap'.camera
    BY <1>1, <1>14, StopTypes DEF AbortStop, Pcs
  <2> QED
    BY <1>1, <1>3, <2>1, <2>2, StepMoves DEF ApStops, Silent
<1>15. CASE SendLastGray
  <2>1. /\ ap.pc = "lastGray" /\ ap'.pc = "ready" /\ ap'.seq = ap.seq
        /\ ap'.job = ap.job /\ ap'.camera = ap.camera
    BY <1>1, <1>15, GotoFacts DEF SendLastGray, Pcs
  <2>2. Tell("LAST_GRAY_READY", ap.cur) /\ "LAST_GRAY_READY" \in ReportIds
    BY <1>15 DEF SendLastGray, ReportIds
  <2>3. ap.job \notin Handed
    BY <2>1 DEF ApInv, QuietOK, Handed
  <2> QED
    BY <1>1, <1>5, <2>1, <2>2, <2>3, StepMoves DEF ApStops, Silent
<1>16. CASE SendError
  <2>1. ap' = [ap EXCEPT !.pc = "abort", !.failed = TRUE]
    BY <1>16 DEF SendError
  <2>2. /\ ap.pc = "failing" /\ ap'.pc = "abort" /\ ap'.seq = ap.seq
        /\ ap'.job = ap.job
    BY <1>1, <1>16, <2>1 DEF SendError, ApRecord
  <2>3. Tell("ERROR", NoFrame) /\ "ERROR" \in ReportIds
    BY <1>16 DEF SendError, ReportIds
  <2> QED
    BY <1>1, <1>5, <2>2, <2>3, StepMoves DEF ApStops, Silent
<1>17. CASE SendPowerdownReady
  <2>1. /\ ap.pc = "ready" /\ ap'.pc \in {"final", "done"} /\ ap'.seq = ap.seq
        /\ ap'.job = ap.job /\ ap'.camera = ap.camera
    BY <1>1, <1>17, GotoFacts DEF SendPowerdownReady, Pcs
  <2>2. Tell("POWERDOWN_READY", NoFrame) /\ "POWERDOWN_READY" \in ReportIds
    BY <1>17 DEF SendPowerdownReady, ReportIds
  <2> QED
    BY <1>1, <1>5, <2>1, <2>2, StepMoves DEF ApStops, Silent
<1>18. CASE SendFinal
  <2>1. /\ ap.pc = "final" /\ ap'.pc = "done" /\ ap'.seq = ap.seq
        /\ ap'.job = ap.job /\ ap'.camera = ap.camera
    BY <1>1, <1>18, GotoFacts DEF SendFinal, Pcs
  <2>2. PICK rid \in {"EVENT_DONE", "NO_MOTION"} : Tell(rid, NoFrame)
    BY <1>18 DEF SendFinal
  <2>3. rid \in ReportIds /\ rid # "POWERDOWN_READY"
    BY <2>2 DEF ReportIds
  <2> QED
    BY <1>1, <1>5, <2>1, <2>2, <2>3, StepMoves DEF ApStops, Silent
<1> QED
  BY <1>6, <1>7, <1>8, <1>9, <1>10, <1>11, <1>12, <1>13, <1>14, <1>15, <1>16,
     <1>17, <1>18 DEF JobStep

LEMMA WifiMoves ==
    ASSUME Typed, ApInv, WifiStep \/ ("QR_DONE" \in Inputs /\ CompleteQr)
    PROVE  ApMoves
<1>1. ap \in ApRecord /\ NoFrame \in Picture
  BY DEF ApInv, ApTypeOK, Picture
<1>2. {"WIFI_CONNECTED", "WIFI_CONNECT_FAILED"} \subseteq ReportIds \ {"POWERDOWN_READY"}
  BY DEF ReportIds
<1>3. ap.job \in Handed => ap.pc # "off"
  BY DEF ApInv, QuietOK, Handed
\* A step that changes neither the job nor its progress.
<1>4. ASSUME ap'.pc = ap.pc, ap'.seq = ap.seq, ap'.job = ap.job,
             ap'.camera = ap.camera, shared' = shared, wire' = wire \/ "late" \in Faults,
             \/ queue' = queue
             \/ /\ ap.job \in Handed
                /\ \E rid \in ReportIds \ {"POWERDOWN_READY"} :
                      queue' = PushTo(queue, Report(rid, ap.seq, NoFrame))
      PROVE  ApMoves
  <2>1. ApPage
    BY <1>4 DEF ApPage
  <2>2. ApStops
    BY <1>4 DEF ApStops
  <2>3. ApReports
    BY <1>1, <1>3, <1>4 DEF ApReports
  <2> QED
    BY <2>1, <2>2, <2>3 DEF ApMoves
<1>5. CASE WifiRequest
  <2>1. ap' = [ap EXCEPT !.wifiQ = WifiPush(@, "connect")]
    BY <1>5 DEF WifiRequest
  <2>2. /\ ap'.pc = ap.pc /\ ap'.seq = ap.seq /\ ap'.job = ap.job
        /\ ap'.camera = ap.camera
    BY <1>1, <2>1 DEF ApRecord
  <2>3. /\ shared' = shared
        /\ \/ queue' = queue /\ wire' = wire
           \/ ap.job \in Handed /\ SendReport(Report("WIFI_CONNECT_FAILED", ap.seq, NoFrame))
    BY <1>5 DEF WifiRequest, WaitsForWifi, Handed
  <2> QED
    BY <1>2, <1>4, <2>2, <2>3 DEF SendReport, Delivered, NotDelivered, Post, PostTo
<1>6. CASE WifiConnect
  <2>1. ap' = [ap EXCEPT !.wifiQ = Tail(@), !.connecting = TRUE]
    BY <1>6 DEF WifiConnect
  <2>2. /\ ap'.pc = ap.pc /\ ap'.seq = ap.seq /\ ap'.job = ap.job
        /\ ap'.camera = ap.camera
    BY <1>1, <2>1 DEF ApRecord
  <2> QED
    BY <1>4, <1>6, <2>2 DEF WifiConnect, ipcVars
<1>7. CASE WifiMotion
  <2> DEFINE q == Tail(ap.wifiQ)
  <2>1. ap' = IF ReadyForMotion
              THEN [ap EXCEPT !.wifiQ = q, !.job = "MOTION_CHECK",
                              !.pc = "capture", !.runner = "worker"]
              ELSE [ap EXCEPT !.wifiQ = q]
    BY <1>7 DEF WifiMotion
  <2>2. shared' = shared /\ queue' = queue /\ wire' = wire
    BY <1>7 DEF WifiMotion, ipcVars
  <2> HIDE DEF q
  <2>3. CASE ReadyForMotion
    <3>1. ap.pc = "idle" /\ ap.job \in Handed
      BY <2>3 DEF ReadyForMotion, WaitsForWifi, Handed
    <3>2. /\ ap'.pc = "capture" /\ ap'.seq = ap.seq /\ ap'.job = "MOTION_CHECK"
      BY <1>1, <2>1, <2>3 DEF ApRecord
    <3> QED
      BY <2>2, <3>1, <3>2 DEF ApMoves, ApReports, ApPage, ApStops, Silent, Handed
  <2>4. CASE ~ReadyForMotion
    <3>1. /\ ap'.pc = ap.pc /\ ap'.seq = ap.seq /\ ap'.job = ap.job
          /\ ap'.camera = ap.camera
      BY <1>1, <2>1, <2>4 DEF ApRecord
    <3> QED
      BY <1>4, <2>2, <3>1
  <2> QED
    BY <2>3, <2>4
<1>8. CASE WifiDown
  <2>1. ap' = [ap EXCEPT !.connecting = FALSE]
    BY <1>8 DEF WifiDown
  <2>2. /\ ap'.pc = ap.pc /\ ap'.seq = ap.seq /\ ap'.job = ap.job
        /\ ap'.camera = ap.camera
    BY <1>1, <2>1 DEF ApRecord
  <2>3. \/ ap.job \in Handed /\ Tell("WIFI_CONNECT_FAILED", NoFrame)
        \/ UNCHANGED ipcVars
    BY <1>8 DEF WifiDown, WaitsForWifi, Handed
  <2> QED
    BY <1>2, <1>4, <2>2, <2>3 DEF Tell, SendReport, Delivered, NotDelivered, Post,
                                  PostTo, ipcVars
<1>9. CASE WifiUp
  <2> DEFINE q == WifiPush(ap.wifiQ, "motion")
  <2>1. \/ ap' = [ap EXCEPT !.connecting = FALSE, !.wifiQ = q]
        \/ ap' = [ap EXCEPT !.connecting = FALSE]
    BY <1>9 DEF WifiUp
  <2> HIDE DEF q
  <2>2. /\ ap'.pc = ap.pc /\ ap'.seq = ap.seq /\ ap'.job = ap.job
        /\ ap'.camera = ap.camera
    BY <1>1, <2>1 DEF ApRecord
  <2>3. /\ shared' = shared
        /\ \/ queue' = queue /\ wire' = wire
           \/ ap.job \in Handed /\ SendReport(Report("WIFI_CONNECTED", ap.seq, NoFrame))
    BY <1>9 DEF WifiUp, WaitsForWifi, Handed, SendReport
  <2> QED
    BY <1>2, <1>4, <2>2, <2>3 DEF SendReport, Delivered, NotDelivered, Post, PostTo
<1>10. CASE "QR_DONE" \in Inputs /\ CompleteQr
  <2> DEFINE a == [ap EXCEPT !.job = "WIFI_CONNECT", !.pc = "idle",
                             !.camera = FALSE, !.failed = FALSE]
             r == Report("WIFI_CONNECTED", ap.seq, NoFrame)
  <2>1. /\ ap.pc \in {"idle", "done"} /\ ap.job \in Handed
        /\ shared' = shared /\ SendReport(r)
    BY <1>10 DEF CompleteQr, SendReport, Handed
  <2>2. \/ ap' = [a EXCEPT !.job = "MOTION_CHECK", !.pc = "capture",
                           !.runner = "main"]
        \/ ap' = a
    BY <1>10 DEF CompleteQr
  <2>3. a \in ApRecord /\ a.pc = "idle" /\ a.seq = ap.seq
    BY <1>1 DEF ApRecord, Jobs, Pcs
  <2>4. \E rid \in ReportIds \ {"POWERDOWN_READY"} :
            queue' \in {queue, PushTo(queue, Report(rid, ap.seq, NoFrame))}
    BY <1>2, <2>1 DEF SendReport, Delivered, NotDelivered, Post, PostTo
  <2>5. wire' = wire \/ "late" \in Faults
    BY <2>1 DEF SendReport, Delivered, NotDelivered
  <2> HIDE DEF a, r
  <2>6. ap'.seq = ap.seq /\ ap'.pc \in {"idle", "capture"}
    <3>1. CASE ap' = a
      BY <2>3, <3>1
    <3>2. CASE ap' = [a EXCEPT !.job = "MOTION_CHECK", !.pc = "capture",
                               !.runner = "main"]
      BY <2>3, <3>2 DEF ApRecord
    <3> QED
      BY <2>2, <3>1, <3>2
  <2>7. ApReports
    BY <1>1, <1>3, <2>1, <2>4, <2>5, <2>6 DEF ApReports
  <2>8. ApPage
    BY <2>1, <2>6 DEF ApPage
  <2>9. ApStops
    BY <1>10, <2>1, <2>6 DEF ApStops
  <2> QED
    BY <2>7, <2>8, <2>9 DEF ApMoves
<1> QED
  BY <1>5, <1>6, <1>7, <1>8, <1>9, <1>10 DEF WifiStep, WifiWorker

-----------------------------------------------------------------------------
(* How the queue moves: k elements are taken, at most one is appended.     *)

Shifts(k, S) ==
    \A i \in 1 .. Len(queue') :
        IF i + k <= Len(queue) THEN queue'[i] = queue[i + k]
        ELSE i = Len(queue') /\ queue'[i] \in S

LEMMA TailShifts ==
    ASSUME Typed, queue # <<>>, queue' = Tail(queue)
    PROVE  \A S : Shifts(1, S)
BY DEF Typed, Queues, Shifts

LEMMA PushShifts ==
    ASSUME Typed, NEW e, queue' = PushTo(queue, e)
    PROVE  Shifts(0, {e})
BY DEF Typed, Queues, Shifts, PushTo

LEMMA TailPushShifts ==
    ASSUME Typed, queue # <<>>, NEW e, queue' = PushTo(Tail(queue), e)
    PROVE  Shifts(1, {e})
<1> DEFINE t == Tail(queue)
<1>1. queue \in Seq(Event) /\ Len(queue) \in Nat \ {0}
  BY DEF Typed, Queues
<1>2. /\ t \in Seq(Event) /\ Len(t) = Len(queue) - 1
      /\ \A i \in 1 .. Len(queue) - 1 : t[i] = queue[i + 1]
  BY <1>1
<1>3. queue' = IF Len(t) < QueueDepth THEN Append(t, e) ELSE t
  BY DEF PushTo
<1> HIDE DEF t
<1>4. CASE queue' = t
  BY <1>1, <1>2, <1>4 DEF Shifts
<1>5. CASE queue' = Append(t, e)
  <2>1. /\ Len(queue') = Len(queue) /\ queue'[Len(queue)] = e
        /\ \A i \in 1 .. Len(queue) - 1 : queue'[i] = t[i]
    BY <1>1, <1>2, <1>5
  <2> QED
    BY <1>1, <1>2, <2>1 DEF Shifts
<1> QED
  BY <1>3, <1>4, <1>5

LEMMA KeepShifts ==
    ASSUME Typed, queue' = queue
    PROVE  \A S : Shifts(0, S)
BY DEF Typed, Queues, Shifts

\* The steps of the CP append nothing that JobInv and QuiesceInv speak of.
Others == {e \in Event : e.id \notin {"AP_REPORT", "AP_POWERED_OFF"}}

LEMMA AdvanceShifts ==
    ASSUME Typed, Advances
    PROVE  \E k \in {0, 1} : Shifts(k, Others) /\ (k = 1 => queue # <<>>)
<1>1. \A id \in Quiet : {Plain(id)} \subseteq Others
  BY PlainIsEvent DEF Quiet, Plain, Others, PlainEvents, ProductEvents
<1>2. \A k, S : S \subseteq Others /\ Shifts(k, S) => Shifts(k, Others)
  BY DEF Shifts
<1>3. CASE queue # <<>> /\ queue' = Tail(queue)
  BY <1>3, TailShifts
<1>4. CASE \E id \in Quiet : queue # <<>> /\ queue' = PushTo(Tail(queue), Plain(id))
  BY <1>1, <1>2, <1>4, TailPushShifts
<1>5. CASE \E id \in Quiet : queue' = PushTo(queue, Plain(id))
  <2>1. PICK id \in Quiet : queue' = PushTo(queue, Plain(id))
    BY <1>5
  <2>2. Shifts(0, {Plain(id)})
    BY <2>1, PushShifts
  <2> QED
    BY <1>1, <1>2, <2>1, <2>2
<1>6. CASE UNCHANGED queue
  BY <1>6, KeepShifts
<1> QED
  BY <1>3, <1>4, <1>5, <1>6 DEF Advances

-----------------------------------------------------------------------------
(* JobInv: the queue holds only what concerns the one AP job there is.     *)

\* Every step of the CP, seen through its effect on the job and the queue.
CpMoves ==
    /\ Starts \/ Completes \/ Continues
    /\ \E k \in {0, 1} : Shifts(k, Others) /\ (k = 1 => queue # <<>>)
    /\ wire' \subseteq wire /\ ap' = ap

LEMMA CpStepMoves ==
    ASSUME Typed, \/ CpStep
                  \/ (ProductEvent \/ WifiCommand) /\ UNCHANGED ap
    PROVE  CpMoves
<1>1. CASE Worker /\ UNCHANGED ap
  <2>1. CASE HandleReport
    BY <1>1, <2>1, ReportKinds, AdvanceShifts DEF CpMoves, Advances
  <2>2. CASE ~HandleReport
    <3>1. /\ Starts \/ Completes \/ Continues
          /\ queue # <<>> /\ queue' = Tail(queue) /\ wire' \subseteq wire
      BY <1>1, <2>2, EventKinds
    <3> QED
      BY <1>1, <3>1, TailShifts DEF CpMoves
  <2> QED
    BY <2>1, <2>2
<1>2. CASE /\ DetectTick \/ OneshotFires \/ ProductEvent \/ WifiCommand
           /\ UNCHANGED ap
  BY <1>2, InputKinds, AdvanceShifts DEF CpMoves
<1> QED
  BY <1>1, <1>2 DEF CpStep

\* After a step that takes k elements, a queued element is an old one or new.
LEMMA OldOrNew ==
    ASSUME Typed, NEW k \in {0, 1}, NEW S, Shifts(k, S), Len(queue') \in Nat,
           NEW i \in 1 .. Len(queue')
    PROVE  \/ /\ i + k \in 1 .. Len(queue) /\ queue'[i] = queue[i + k]
           \/ i = Len(queue') /\ queue'[i] \in S
BY DEF Shifts, Typed, Queues

LEMMA JobInvCp ==
    ASSUME Typed, Typed', ApInv, JobInv, CpMoves
    PROVE  JobInv'
<1>1. PICK k \in {0, 1} : Shifts(k, Others) /\ (k = 1 => queue # <<>>)
  BY DEF CpMoves
<1>2. Len(queue) \in Nat /\ Len(queue') \in Nat
  BY DEF Typed, Queues
<1>3. \A i \in 1 .. Len(queue') :
        \/ i + k \in 1 .. Len(queue) /\ queue'[i] = queue[i + k]
        \/ i = Len(queue') /\ queue'[i] \in Others
  BY <1>1, <1>2, OldOrNew
<1>4. wire' = {}
  BY DEF CpMoves, JobInv
<1>5. queue # <<>> => 1 \in 1 .. Len(queue) /\ Head(queue) = queue[1]
  BY <1>2 DEF Typed, Queues
<1>6. CASE Starts
  <2>1. ap.pc = "off"
    BY <1>6 DEF Starts, JobInv, SamePage
  <2>2. ap.job \notin Handed
    BY <2>1 DEF ApInv, QuietOK, Handed
  <2>3. \A i \in 1 .. Len(queue) : queue[i].id # "AP_REPORT"
    BY <1>6 DEF Starts, JobInv, ReportsCurrent
  <2>4. ReportsCurrent'
    BY <1>3, <2>3 DEF ReportsCurrent, Others
  <2>5. PoweredOffLast'
    <3> SUFFICES ASSUME NEW i \in 1 .. Len(queue)', queue'[i].id = "AP_POWERED_OFF"
                 PROVE  /\ cp'.poweringDown /\ ap'.pc = "off"
                        /\ \A j \in i + 1 .. Len(queue)' :
                             queue'[j].id \notin {"AP_REPORT", "AP_POWERED_OFF"}
      BY DEF PoweredOffLast
    <3>1. /\ i + k \in 1 .. Len(queue) /\ queue'[i] = queue[i + k]
      BY <1>3 DEF Others
    <3>2. cp.poweringDown /\ \A j \in i + k + 1 .. Len(queue) :
                queue[j].id \notin {"AP_REPORT", "AP_POWERED_OFF"}
      BY <3>1 DEF JobInv, PoweredOffLast
    <3>3. ASSUME NEW j \in i + 1 .. Len(queue')
          PROVE  queue'[j].id \notin {"AP_REPORT", "AP_POWERED_OFF"}
      <4>1. \/ j + k \in 1 .. Len(queue) /\ queue'[j] = queue[j + k]
            \/ queue'[j] \in Others
        BY <1>2, <1>3, <3>3
      <4> QED
        BY <1>2, <3>2, <4>1 DEF Others
    <3> QED
      BY <1>6, <2>1, <3>2, <3>3 DEF Starts, CpMoves
  <2>6. SamePage'
    BY <1>6, <2>1, <2>2 DEF Starts, CpMoves, SamePage, Handed
  <2> QED
    BY <1>4, <1>6, <2>4, <2>5, <2>6 DEF Starts, JobInv, ReturnsOutside, Returns,
                                        JobStatesVoteOn
<1>7. CASE Completes
  <2>1. /\ 1 \in 1 .. Len(queue) /\ queue[1].id = "AP_POWERED_OFF"
    BY <1>5, <1>7 DEF Completes
  <2>2. /\ ap.pc = "off"
        /\ \A j \in 2 .. Len(queue) :
              queue[j].id \notin {"AP_REPORT", "AP_POWERED_OFF"}
    BY <2>1 DEF JobInv, PoweredOffLast
  <2>3. Shifts(1, Others)
    BY <1>7, TailShifts DEF Completes
  <2>4. \A i \in 1 .. Len(queue') :
            queue'[i].id \notin {"AP_REPORT", "AP_POWERED_OFF"}
    BY <1>2, <2>2, <2>3, OldOrNew DEF Others
  <2>5. ap.job \notin Handed
    BY <2>2 DEF ApInv, QuietOK, Handed
  <2>6. ReportsCurrent' /\ PoweredOffLast'
    BY <2>4 DEF ReportsCurrent, PoweredOffLast
  <2>7. SamePage'
    BY <1>7, <2>2, <2>5 DEF Completes, CpMoves, SamePage, Handed
  <2>8. ReturnsOutside' /\ JobStatesVoteOn'
    BY <1>7 DEF Completes, JobInv, ReturnsOutside, JobStatesVoteOn
  <2> QED
    BY <1>4, <2>6, <2>7, <2>8 DEF JobInv
<1>8. CASE Continues
  <2>1. ReportsCurrent'
    BY <1>3, <1>8 DEF Continues, JobInv, ReportsCurrent, Others
  <2>2. PoweredOffLast'
    <3> SUFFICES ASSUME NEW i \in 1 .. Len(queue)', queue'[i].id = "AP_POWERED_OFF"
                 PROVE  /\ cp'.poweringDown /\ ap'.pc = "off"
                        /\ \A j \in i + 1 .. Len(queue)' :
                             queue'[j].id \notin {"AP_REPORT", "AP_POWERED_OFF"}
      BY DEF PoweredOffLast
    <3>1. /\ i + k \in 1 .. Len(queue) /\ queue'[i] = queue[i + k]
      BY <1>3 DEF Others
    <3>2. /\ cp.poweringDown /\ ap.pc = "off"
          /\ \A j \in i + k + 1 .. Len(queue) :
                queue[j].id \notin {"AP_REPORT", "AP_POWERED_OFF"}
      BY <3>1 DEF JobInv, PoweredOffLast
    <3>3. ASSUME NEW j \in i + 1 .. Len(queue')
          PROVE  queue'[j].id \notin {"AP_REPORT", "AP_POWERED_OFF"}
      <4>1. \/ j + k \in 1 .. Len(queue) /\ queue'[j] = queue[j + k]
            \/ queue'[j] \in Others
        BY <1>2, <1>3, <3>3
      <4> QED
        BY <1>2, <3>2, <4>1 DEF Others
    <3> QED
      BY <1>8, <3>2, <3>3 DEF Continues, CpMoves
  <2>3. SamePage'
    BY <1>8 DEF Continues, CpMoves, JobInv, SamePage
  <2>4. ReturnsOutside'
    BY <1>8 DEF Continues, JobInv, ReturnsOutside, Returns
  <2>5. NextIsCurrentReport => cp.apVoteOn
    BY <1>5 DEF NextIsCurrentReport, NextReport, IsNext, JobInv, ReportsCurrent
  <2>6. JobStatesVoteOn'
    BY <1>8, <2>5 DEF Continues, JobInv, JobStatesVoteOn, JobStates
  <2> QED
    BY <1>4, <2>1, <2>2, <2>3, <2>4, <2>6 DEF JobInv
<1> QED
  BY <1>6, <1>7, <1>8 DEF CpMoves

\* A step of the AP, in terms of the queue.
LEMMA ApShifts ==
    ASSUME Typed, ApInv, ApReports
    PROVE  \/ queue' = queue
           \/ \E rid \in ReportIds, f \in Picture :
                 /\ Shifts(0, {Report(rid, ap.seq, f)})
                 /\ ap.pc # "off" /\ (ap.pc \notin Silent \/ ap.job \in Handed)
                 /\ rid = "POWERDOWN_READY" =>
                       ap.pc = "ready" /\ ap'.pc \in {"final", "done"}
<1>1. \A e : queue' = PushTo(queue, e) => Shifts(0, {e})
  BY PushShifts
<1> QED
  BY <1>1 DEF ApReports

LEMMA JobInvAp ==
    ASSUME Typed, Typed', ApInv, JobInv, ApMoves, cp' = cp, "late" \notin Faults
    PROVE  JobInv'
<1>1. Len(queue) \in Nat /\ Len(queue') \in Nat
  BY DEF Typed, Queues
<1>2. wire' = {} /\ shared'.seq = shared.seq /\ (ap'.pc = "off" <=> ap.pc = "off")
  BY DEF ApMoves, ApReports, JobInv
<1>3. SamePage'
  BY <1>2 DEF ApMoves, ApPage, JobInv, SamePage, Silent, Handed
<1>4. ReturnsOutside' /\ JobStatesVoteOn'
  BY DEF JobInv, ReturnsOutside, JobStatesVoteOn
<1>5. CASE queue' = queue
  <2>1. ReportsCurrent' /\ PoweredOffLast'
    BY <1>2, <1>5 DEF JobInv, ReportsCurrent, PoweredOffLast
  <2> QED
    BY <1>2, <1>3, <1>4, <2>1 DEF JobInv
<1>6. CASE \E rid \in ReportIds, f \in Picture :
              /\ Shifts(0, {Report(rid, ap.seq, f)})
              /\ ap.pc # "off" /\ (ap.pc \notin Silent \/ ap.job \in Handed)
  <2>1. PICK rid \in ReportIds, f \in Picture : Shifts(0, {Report(rid, ap.seq, f)})
    BY <1>6
  <2>2. /\ ap.pc # "off" /\ cp.apVoteOn /\ ap.seq = cp.activeSeq
    BY <1>6 DEF JobInv, SamePage, Silent, Handed
  <2>3. \A i \in 1 .. Len(queue') :
          \/ i \in 1 .. Len(queue) /\ queue'[i] = queue[i]
          \/ queue'[i].id = "AP_REPORT" /\ queue'[i].seq = cp.activeSeq
    BY <1>1, <2>1, <2>2 DEF Shifts, Report
  <2>4. ReportsCurrent'
    BY <2>2, <2>3 DEF JobInv, ReportsCurrent
  <2>5. PoweredOffLast'
    BY <2>2, <2>3 DEF JobInv, PoweredOffLast
  <2> QED
    BY <1>2, <1>3, <1>4, <2>4, <2>5 DEF JobInv
<1> QED
  BY <1>5, <1>6, ApShifts DEF ApMoves

LEMMA JobInvPower ==
    ASSUME Typed, Typed', ApInv, JobInv, PowerOn \/ PowerCut \/ Restart
    PROVE  JobInv'
<1>1. Len(queue) \in Nat /\ Len(queue') \in Nat
  BY DEF Typed, Queues
<1>2. ApOff.pc = "off" /\ ApOff.job = "NORMAL_BOOT"
  BY DEF ApOff
<1>3. CASE PowerOn
  <2>1. /\ ap'.pc = "query" /\ ap'.job = "NORMAL_BOOT"
    BY <1>3 DEF PowerOn, ApOff
  <2>2. cp.apVoteOn /\ ~cp.poweringDown /\ UNCHANGED <<queue, wire, shared, cp>>
    BY <1>3 DEF PowerOn, cpVars, ipcVars
  <2>3. SamePage'
    BY <2>1, <2>2 DEF JobInv, SamePage
  <2>4. ReportsCurrent' /\ PoweredOffLast'
    BY <2>2 DEF JobInv, ReportsCurrent, PoweredOffLast
  <2>5. wire' = {} /\ ReturnsOutside' /\ JobStatesVoteOn'
    BY <2>2 DEF JobInv, ReturnsOutside, JobStatesVoteOn
  <2> QED
    BY <2>3, <2>4, <2>5 DEF JobInv
<1>4. CASE PowerCut
  <2>1. /\ ap.pc # "off" /\ cp.poweringDown /\ ap'.pc = "off"
        /\ ap'.job = "NORMAL_BOOT" /\ UNCHANGED <<wire, shared, cp>>
    BY <1>2, <1>4 DEF PowerCut
  <2>2. Shifts(0, {Plain("AP_POWERED_OFF")})
    BY <1>4, PushShifts DEF PowerCut, Post, PostTo
  <2>3. \A i \in 1 .. Len(queue') :
          \/ i \in 1 .. Len(queue) /\ queue'[i] = queue[i]
          \/ i = Len(queue') /\ queue'[i].id = "AP_POWERED_OFF"
    BY <1>1, <2>2 DEF Shifts, Plain
  <2>4. \A i \in 1 .. Len(queue) : queue[i].id # "AP_POWERED_OFF"
    BY <2>1 DEF JobInv, PoweredOffLast
  <2>5. ReportsCurrent'
    BY <2>1, <2>3 DEF JobInv, ReportsCurrent
  <2>6. PoweredOffLast'
    BY <1>1, <2>1, <2>3, <2>4 DEF PoweredOffLast
  <2>7. SamePage'
    BY <2>1 DEF JobInv, SamePage
  <2>8. wire' = {} /\ ReturnsOutside' /\ JobStatesVoteOn'
    BY <2>1 DEF JobInv, ReturnsOutside, JobStatesVoteOn
  <2> QED
    BY <2>5, <2>6, <2>7, <2>8 DEF JobInv
<1>5. CASE Restart
  <2>1. /\ queue' = <<Plain("BOOT")>> /\ wire' = {} /\ cp' = CpReset /\ ap' = ApOff
    BY <1>5 DEF Restart
  <2>2. \A i \in 1 .. Len(queue') : queue'[i].id = "BOOT"
    BY <2>1 DEF Plain
  <2>3. ReportsCurrent' /\ PoweredOffLast'
    BY <2>2 DEF ReportsCurrent, PoweredOffLast
  <2>4. SamePage' /\ ReturnsOutside' /\ JobStatesVoteOn'
    BY <1>2, <2>1 DEF SamePage, ReturnsOutside, JobStatesVoteOn, CpReset
  <2> QED
    BY <2>1, <2>3, <2>4 DEF JobInv
<1> QED
  BY <1>3, <1>4, <1>5

LEMMA JobInvInit == Init => JobInv
<1> SUFFICES ASSUME Init PROVE JobInv
  OBVIOUS
<1>1. /\ queue = <<Plain("BOOT")>> /\ wire = {} /\ cp = CpReset /\ ap = ApOff
  BY DEF Init, CpInit, IpcInit, ApInit
<1>2. \A i \in 1 .. Len(queue) : queue[i].id = "BOOT"
  BY <1>1 DEF Plain
<1>3. ReportsCurrent /\ PoweredOffLast
  BY <1>2 DEF ReportsCurrent, PoweredOffLast
<1>4. SamePage /\ ReturnsOutside /\ JobStatesVoteOn
  BY <1>1 DEF SamePage, ReturnsOutside, JobStatesVoteOn, CpReset, ApOff
<1> QED
  BY <1>1, <1>3, <1>4 DEF JobInv

\* The steps of the system, sorted by who takes them.
LEMMA Sorted ==
    ASSUME Typed, ApInv, Next, wire = {}
    PROVE  \/ CpMoves
           \/ ApMoves /\ cp' = cp
           \/ PowerOn \/ PowerCut \/ Restart
<1>1. CASE CpStep \/ ((ProductEvent \/ WifiCommand) /\ UNCHANGED ap)
  BY <1>1, CpStepMoves
<1>2. CASE ApStep
  BY <1>2, JobMoves, WifiMoves DEF ApStep
<1>3. CASE "QR_DONE" \in Inputs /\ CompleteQr /\ UNCHANGED <<device, cp>>
  BY <1>3, WifiMoves
<1>4. ~Transport
  BY DEF Transport, LateArrival
<1> QED
  BY <1>1, <1>2, <1>3, <1>4 DEF Next, UserStep

LEMMA JobInvStep ==
    ASSUME "late" \notin Faults
    PROVE  Typed /\ ApInv /\ Typed' /\ JobInv /\ [Next]_vars => JobInv'
<1> SUFFICES ASSUME Typed, ApInv, Typed', JobInv, [Next]_vars PROVE JobInv'
  OBVIOUS
<1>1. CASE Next
  <2>1. wire = {}
    BY DEF JobInv
  <2> QED
    BY <1>1, <2>1, Sorted, JobInvCp, JobInvAp, JobInvPower
<1>2. CASE UNCHANGED vars
  BY <1>2 DEF vars, JobInv, ReportsCurrent, PoweredOffLast, SamePage,
              ReturnsOutside, JobStatesVoteOn
<1> QED
  BY <1>1, <1>2

\* aov_cp_handle_ap_report: every report that is queued is about the active job,
\* whose AP is voted on, and a power-off event is the last word of its AP.
THEOREM JobInvAlways ==
    ASSUME "late" \notin Faults
    PROVE  Spec => []JobInv
<1>1. Init => JobInv
  BY JobInvInit
<1>2. Typed /\ ApInv /\ Typed' /\ JobInv /\ [Next]_vars => JobInv'
  BY JobInvStep
<1> QED
  BY <1>1, <1>2, TypedAlways, PTL DEF Spec

\* aov_cp_handle_ap_report and aov_cp_complete_ap_powerdown: unless transfers
\* that failed arrive all the same, no report of a finished job is left to
\* bring a job state back while the AP is voted off.
THEOREM JobStatesSafe ==
    ASSUME "late" \notin Faults
    PROVE  Spec => []JobStatesVoteOn
<1>1. JobInv => JobStatesVoteOn
  BY DEF JobInv
<1> QED
  BY <1>1, JobInvAlways, PTL

-----------------------------------------------------------------------------
(* QuiesceInv: an AP that promised to be quiesced stays so until it is off.*)

LEMMA QuiesceCp ==
    ASSUME Typed, Typed', JobInv, QuiesceInv, CpMoves
    PROVE  QuiesceInv'
<1>1. PICK k \in {0, 1} : Shifts(k, Others) /\ (k = 1 => queue # <<>>)
  BY DEF CpMoves
<1>2. Len(queue) \in Nat /\ Len(queue') \in Nat
  BY DEF Typed, Queues
<1>3. \A i \in 1 .. Len(queue') :
        \/ i + k \in 1 .. Len(queue) /\ queue'[i] = queue[i + k]
        \/ queue'[i].id # "AP_REPORT"
  BY <1>1, <1>2, OldOrNew DEF Others
<1>4. NextIsCurrentReport => /\ 1 \in 1 .. Len(queue)
                             /\ queue[1].id = "AP_REPORT" /\ queue[1] = Head(queue)
  BY <1>2 DEF NextIsCurrentReport, NextReport, IsNext, Typed, Queues
<1>5. ap' = ap
  BY DEF CpMoves
<1>6. /\ ap'.pc \in {"off", "query", "lastGray", "ready", "final", "done"} => ~ap'.camera
      /\ ap'.pc \in {"failing", "abort", "ready", "final", "done"} /\ "QR_DONE" \in Inputs
            => ap'.job \notin {"QR_PROVISION", "WIFI_CONNECT"}
  BY <1>5 DEF QuiesceInv
<1>7. CASE Starts
  <2>1. \A i \in 1 .. Len(queue) : queue[i].id # "AP_REPORT"
    BY <1>7 DEF Starts, JobInv, ReportsCurrent
  <2>2. ~Promised'
    BY <1>3, <1>7, <2>1 DEF Starts, Promised
  <2>3. ~cp'.poweringDown
    BY <1>7 DEF Starts, QuiesceInv
  <2> QED
    BY <1>6, <2>2, <2>3 DEF QuiesceInv
<1>8. CASE Completes
  <2>1. \A j \in 2 .. Len(queue) : queue[j].id # "AP_REPORT"
    <3>1. 1 \in 1 .. Len(queue) /\ queue[1].id = "AP_POWERED_OFF"
      BY <1>2, <1>8 DEF Completes, Typed, Queues
    <3> QED
      BY <3>1 DEF JobInv, PoweredOffLast
  <2>2. Shifts(1, Others)
    BY <1>8, TailShifts DEF Completes
  <2>3. \A i \in 1 .. Len(queue') : queue'[i].id # "AP_REPORT"
    BY <1>2, <2>1, <2>2, OldOrNew DEF Others
  <2>4. ~Promised' /\ ~cp'.poweringDown
    BY <1>8, <2>3 DEF Completes, Promised
  <2> QED
    BY <1>6, <2>4 DEF QuiesceInv
<1>9. CASE Continues
  <2>1. Promised' => Promised
    <3>1. CASE cp'.apVoteOn /\ cp'.powerdownReady
      BY <1>4, <1>9, <3>1 DEF Continues, Promised
    <3>2. CASE \E i \in 1 .. Len(queue') : /\ queue'[i].id = "AP_REPORT"
                                           /\ queue'[i].report = "POWERDOWN_READY"
      BY <1>3, <3>2 DEF Promised
    <3> QED
      BY <3>1, <3>2 DEF Promised
  <2>2. Quiesced => Quiesced'
    BY <1>5, <1>9 DEF Quiesced, Continues
  <2>3. cp'.poweringDown => cp'.apVoteOn /\ cp'.powerdownReady
    BY <1>9 DEF Continues, QuiesceInv
  <2> QED
    BY <1>6, <2>1, <2>2, <2>3 DEF QuiesceInv
<1> QED
  BY <1>7, <1>8, <1>9 DEF CpMoves

LEMMA QuiesceAp ==
    ASSUME Typed, Typed', ApInv, QuiesceInv, ApMoves, cp' = cp,
           "stop" \notin Faults, "camera" \in Faults => "QR_DONE" \notin Inputs
    PROVE  QuiesceInv'
<1>1. Len(queue) \in Nat /\ Len(queue') \in Nat
  BY DEF Typed, Queues
<1>2. ap'.pc \in {"off", "query", "lastGray", "ready", "final", "done"} => ~ap'.camera
  BY DEF ApMoves, ApStops, QuiesceInv
<1>3. ap'.pc \in {"failing", "abort", "ready", "final", "done"} /\ "QR_DONE" \in Inputs
         => ap'.job \notin {"QR_PROVISION", "WIFI_CONNECT"}
  BY DEF ApMoves, ApStops, QuiesceInv, Handed
<1>4. cp'.poweringDown => cp'.apVoteOn /\ cp'.powerdownReady
  BY DEF QuiesceInv
<1>5. ASSUME Promised PROVE Quiesced'
  <2>1. Quiesced
    BY <1>5 DEF QuiesceInv
  <2>2. CASE ap.pc \in {"final", "done"}
    BY <1>2, <2>2 DEF ApMoves, ApStops, QuiesceInv, Quiesced, Handed
  <2>3. CASE ap.pc = "off" /\ cp.poweringDown
    BY <1>2, <2>3 DEF ApMoves, ApReports, Quiesced
  <2> QED
    BY <2>1, <2>2, <2>3 DEF Quiesced
<1>6. ASSUME Promised', ~Promised PROVE Quiesced'
  <2>1. PICK i \in 1 .. Len(queue') : /\ queue'[i].id = "AP_REPORT"
                                      /\ queue'[i].report = "POWERDOWN_READY"
    BY <1>6 DEF Promised
  <2>2. queue' # queue
    BY <1>6, <2>1 DEF Promised
  <2>3. PICK rid \in ReportIds, f \in Picture :
          /\ Shifts(0, {Report(rid, ap.seq, f)})
          /\ rid = "POWERDOWN_READY" => ap'.pc \in {"final", "done"}
    BY <2>2, ApShifts DEF ApMoves
  <2>4. \/ i \in 1 .. Len(queue) /\ queue'[i] = queue[i]
        \/ queue'[i].report = rid
    BY <1>1, <2>1, <2>3 DEF Shifts, Report
  <2>5. rid = "POWERDOWN_READY"
    BY <1>6, <2>1, <2>4 DEF Promised
  <2> QED
    BY <1>2, <2>3, <2>5 DEF Quiesced
<1> QED
  BY <1>2, <1>3, <1>4, <1>5, <1>6 DEF QuiesceInv

LEMMA QuiescePower ==
    ASSUME Typed, Typed', QuiesceInv, PowerOn \/ PowerCut \/ Restart
    PROVE  QuiesceInv'
<1>1. ApOff.pc = "off" /\ ApOff.job = "NORMAL_BOOT" /\ ~ApOff.camera
  BY DEF ApOff
<1>2. CASE PowerOn
  <2>1. /\ ap.pc = "off" /\ ~cp.poweringDown /\ UNCHANGED <<queue, cp>>
        /\ ap'.pc = "query" /\ ~ap'.camera
    BY <1>2 DEF PowerOn, ApOff, cpVars, ipcVars
  <2>2. ~Promised'
    BY <2>1 DEF QuiesceInv, Quiesced, Promised
  <2> QED
    BY <2>1, <2>2 DEF QuiesceInv
<1>3. CASE PowerCut
  BY <1>1, <1>3 DEF PowerCut, QuiesceInv, Quiesced
<1>4. CASE Restart
  <2>1. /\ queue' = <<Plain("BOOT")>> /\ cp' = CpReset /\ ap' = ApOff
    BY <1>4 DEF Restart
  <2>2. ~Promised' /\ ~cp'.poweringDown
    BY <2>1 DEF Promised, CpReset, Plain
  <2> QED
    BY <1>1, <2>1, <2>2 DEF QuiesceInv
<1> QED
  BY <1>2, <1>3, <1>4

LEMMA QuiesceInit == Init => QuiesceInv
<1> SUFFICES ASSUME Init PROVE QuiesceInv
  OBVIOUS
<1>1. /\ queue = <<Plain("BOOT")>> /\ cp = CpReset /\ ap = ApOff
  BY DEF Init, CpInit, IpcInit, ApInit
<1>2. ~Promised /\ ~cp.poweringDown
  BY <1>1 DEF Promised, CpReset, Plain
<1> QED
  BY <1>1, <1>2 DEF QuiesceInv, ApOff

LEMMA QuiesceStep ==
    ASSUME "late" \notin Faults, "stop" \notin Faults,
           "camera" \in Faults => "QR_DONE" \notin Inputs
    PROVE  /\ Typed /\ ApInv /\ Typed' /\ JobInv /\ QuiesceInv /\ [Next]_vars
           => QuiesceInv'
<1> SUFFICES ASSUME Typed, ApInv, Typed', JobInv, QuiesceInv, [Next]_vars
             PROVE  QuiesceInv'
  OBVIOUS
<1>1. CASE Next
  <2>1. wire = {}
    BY DEF JobInv
  <2> QED
    BY <1>1, <2>1, Sorted, QuiesceCp, QuiesceAp, QuiescePower
<1>2. CASE UNCHANGED vars
  BY <1>2 DEF vars, QuiesceInv, Promised, Quiesced
<1> QED
  BY <1>1, <1>2

\* aov_cp_try_powerdown and aov_ap_stop_and_report_ready: however reports are
\* lost and ticks, live requests and product events fall between them, the CP
\* cuts the power only of an AP that has finished its job and whose camera is
\* off.  Stopping the camera must not fail, for the AP does not look at the
\* result, and nobody completes a QR job that has already failed.
THEOREM PowerOffSafe ==
    ASSUME "late" \notin Faults, "stop" \notin Faults,
           "camera" \in Faults => "QR_DONE" \notin Inputs
    PROVE  Spec => []PowerOffOnlyWhenQuiesced
<1>1. Init => QuiesceInv
  BY QuiesceInit
<1>2. /\ Typed /\ ApInv /\ Typed' /\ JobInv /\ QuiesceInv /\ [Next]_vars
      => QuiesceInv'
  BY QuiesceStep
<1>3. QuiesceInv => PowerOffOnlyWhenQuiesced
  BY DEF QuiesceInv, Promised, Quiesced, PowerOffOnlyWhenQuiesced
<1>4. Spec => []JobInv
  BY JobInvAlways
<1> QED
  BY <1>1, <1>2, <1>3, <1>4, TypedAlways, PTL DEF Spec

=============================================================================
