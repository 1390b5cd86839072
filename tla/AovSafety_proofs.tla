-------------------------- MODULE AovSafety_proofs --------------------------
(***************************************************************************)
(* Theorems about AovSystem that need to know what each step does to the   *)
(* device record, to the alarms, to the flags of the job and to the last   *)
(* picture; see AovInductive for the invariants.                           *)
(***************************************************************************)
EXTENDS AovSystem_proofs

-----------------------------------------------------------------------------
(* The record of the device.                                               *)

\* What becomes of the record while it is loaded or worked on.
Saves ==
    \/ device' = device
    \/ \E d \in {device, Load(device)} :
          \/ device' = d
          \/ \E s \in CpStates \ {"FACTORY_RESETTING"} : device' \in Commits(d, s)
          \/ device' \in ResetRequested(d)
    \/ device.loaded /\ device' \in SetWifi(device) \cup ClearWifi(device)
    \/ device' = Cold(device.flash)

LEMMA DeviceSteps ==
    ASSUME Typed, ReturnsOutside, [Next]_vars
    PROVE  Saves
<1>1. ASSUME device' = device PROVE Saves
  BY <1>1 DEF Saves
<1>2. {"UNPROVISIONED", "KEEPALIVE", "OTA_UPGRADING"} \cup {cp.returnState}
          \subseteq CpStates \ {"FACTORY_RESETTING"}
  BY DEF CpStates, ReturnsOutside
<1>3. CASE Worker
  <2>1. CASE HandleBoot
    BY <1>2, <2>1 DEF HandleBoot, Saves
  <2>2. CASE HandleProvisionFail \/ HandleCloudRegistered \/ HandleOtaStart
    BY <1>2, <2>2 DEF HandleProvisionFail, HandleCloudRegistered, HandleOtaStart, Saves
  <2>3. CASE HandleFactoryReset
    BY <2>3 DEF HandleFactoryReset, Saves
  <2>4. CASE HandlePoweredOff
    BY <1>1, <1>2, <2>4 DEF HandlePoweredOff, Saves
  <2>5. CASE HandleReport
    BY <1>1, <2>5 DEF HandleReport, StaleReport, BootReady, WifiConnected,
       WifiConnectFailed, WorkDone, LastGrayReady, PowerdownReady, MotionDetected,
       ApError
  <2>6. CASE \/ HandleProvisionStart \/ HandleProvisionSuccess \/ HandleRetryTimeout
             \/ HandleWifiConnected \/ HandleConnectFail \/ DropDetectTimer
             \/ HandleDetectTimer \/ HandleLiveStart \/ HandleIgnored
             \/ HandleOtaFinish
    BY <1>1, <2>6 DEF HandleProvisionStart, HandleProvisionSuccess,
       HandleRetryTimeout, HandleWifiConnected, HandleConnectFail, DropDetectTimer,
       HandleDetectTimer, HandleLiveStart, HandleIgnored, HandleOtaFinish
  <2> QED
    BY <1>3, <2>1, <2>2, <2>3, <2>4, <2>5, <2>6 DEF Worker
<1>4. CASE WifiCommand
  BY <1>4 DEF WifiCommand, Saves
<1>5. CASE Restart
  BY <1>5 DEF Restart, Saves
<1>6. CASE \/ DetectTick \/ OneshotFires \/ ProductEvent \/ ApStep \/ PowerOn
           \/ PowerCut \/ Transport \/ UNCHANGED <<device, cp>> \/ UNCHANGED vars
  BY <1>1, <1>6 DEF DetectTick, OneshotFires, ProductEvent, ApStep, PowerOn, PowerCut,
     Transport, cpVars, vars
<1> QED
  BY <1>3, <1>4, <1>5, <1>6 DEF Next, CpStep, UserStep

\* The states a job returns to are none in which the record is being reset.
LEMMA ReturnsStep == Typed /\ ReturnsOutside /\ [Next]_vars => ReturnsOutside'
<1> SUFFICES ASSUME Typed, ReturnsOutside, [Next]_vars PROVE ReturnsOutside'
  OBVIOUS
<1> USE DEF ReturnsOutside
<1>1. ASSUME Starts \/ Completes \/ Continues PROVE ReturnsOutside'
  BY <1>1 DEF Starts, Completes, Continues, Returns
<1>2. CASE CpStep
  BY <1>1, <1>2, EventKinds, ReportKinds, InputKinds DEF CpStep
<1>3. CASE ApStep \/ Transport \/ PowerCut
  BY <1>3 DEF ApStep, Transport, PowerCut
<1>4. CASE PowerOn
  BY <1>4 DEF PowerOn, cpVars
<1>5. CASE UserStep
  BY <1>1, <1>5, InputKinds DEF UserStep
<1>6. CASE Restart
  BY <1>6 DEF Restart, CpReset
<1>7. CASE UNCHANGED vars
  BY <1>7 DEF vars
<1> QED
  BY <1>2, <1>3, <1>4, <1>5, <1>6, <1>7 DEF Next

\* What each write does to a record d, written in full or in part.
LEMMA PersistedFacts ==
    ASSUME NEW r \in Store, NEW s \in CpStates
    PROVE  /\ r.reset => Persisted(r, s).reset
           /\ s # "FACTORY_RESETTING" => Persisted(r, s).reset = r.reset
           /\ Persisted(r, s) \in Store
<1>1. Persisted(r, s) \in {r, [r EXCEPT !.boot = "UNPROVISIONED"],
                           [r EXCEPT !.boot = "PROVISIONED"],
                           [r EXCEPT !.boot = "OTA_PENDING", !.ota = TRUE]}
      \/ /\ s = "FACTORY_RESETTING"
         /\ Persisted(r, s) = [r EXCEPT !.boot = "RESET_PENDING", !.reset = TRUE]
  BY Zenon DEF Persisted
<1> QED
  BY <1>1 DEF Store, Boots

LEMMA OverwriteFacts ==
    ASSUME NEW d \in DeviceRecord, NEW r \in Store
    PROVE  \A x \in Overwrites(d, r) :
               /\ x \in DeviceRecord /\ x.loaded = d.loaded /\ x.ram = r
               /\ x.flash = r \/ (x.flash = d.flash /\ "flash" \in Faults)
<1>1. \A x \in Overwrites(d, r) :
          \/ x = [d EXCEPT !.ram = r, !.flash = r]
          \/ x = [d EXCEPT !.ram = r] /\ "flash" \in Faults
  BY DEF Overwrites
<1> QED
  BY <1>1 DEF DeviceRecord

LEMMA CommitFacts ==
    ASSUME NEW d \in DeviceRecord, NEW s \in CpStates
    PROVE  \A x \in Commits(d, s) :
               LET r == Persisted(d.ram, s)
               IN  /\ x \in DeviceRecord /\ x.loaded = d.loaded
                   /\ \/ x = d
                      \/ d.loaded /\ x.ram = r /\ x.flash = r
                      \/ /\ d.loaded /\ x.ram = d.ram /\ x.flash = r
                         /\ "flash" \in Faults
<1> DEFINE r == Persisted(d.ram, s)
<1>1. d.ram \in Store /\ r \in Store
  <2>1. d.ram \in Store
    BY DEF DeviceRecord
  <2> QED
    BY <2>1, PersistedFacts
<1>2. \A x \in Commits(d, s) :
          \/ x = d
          \/ d.loaded /\ x = [d EXCEPT !.ram = r, !.flash = r]
          \/ d.loaded /\ x = [d EXCEPT !.flash = r] /\ "flash" \in Faults
  BY DEF Commits
<1> HIDE DEF r
<1>3. \A x \in Commits(d, s) :
          /\ x \in DeviceRecord /\ x.loaded = d.loaded
          /\ \/ x = d
             \/ d.loaded /\ x.ram = r /\ x.flash = r
             \/ d.loaded /\ x.ram = d.ram /\ x.flash = r /\ "flash" \in Faults
  BY <1>1, <1>2 DEF DeviceRecord
<1> QED
  BY <1>3 DEF r

LEMMA ResetFacts ==
    ASSUME NEW d \in DeviceRecord
    PROVE  \A x \in ResetRequested(d) :
               /\ x.ram.reset /\ x.loaded = d.loaded
               /\ d.flash.reset => x.flash.reset
               /\ x.flash = x.ram \/ "flash" \in Faults
<1> SUFFICES ASSUME NEW x \in ResetRequested(d)
             PROVE  /\ x.ram.reset /\ x.loaded = d.loaded
                    /\ d.flash.reset => x.flash.reset
                    /\ x.flash = x.ram \/ "flash" \in Faults
  OBVIOUS
<1>1. "FACTORY_RESETTING" \in CpStates /\ d.ram \in Store
  BY DEF CpStates, DeviceRecord
<1>2. PICK y \in Commits(d, "FACTORY_RESETTING") : x \in FactoryReset(y)
  BY DEF ResetRequested
<1> DEFINE r == [y.ram EXCEPT !.boot = "RESET_PENDING", !.reset = TRUE]
           p == Persisted(d.ram, "FACTORY_RESETTING")
<1>3. p.reset
  BY <1>1, Zenon DEF Persisted, Store
<1> HIDE DEF p
<1>4. /\ y \in DeviceRecord /\ y.loaded = d.loaded
      /\ y.flash = d.flash \/ y.flash = p
  BY <1>1, <1>2, CommitFacts DEF p
<1>5. r \in Store /\ r.reset
  BY <1>4 DEF DeviceRecord, Store, Boots
<1>6. x \in Overwrites(y, r)
  BY <1>2 DEF FactoryReset
<1> HIDE DEF r
<1>7. /\ x.loaded = y.loaded /\ x.ram = r
      /\ x.flash = r \/ (x.flash = y.flash /\ "flash" \in Faults)
  BY <1>4, <1>5, <1>6, OverwriteFacts
<1> QED
  BY <1>3, <1>4, <1>5, <1>7

LEMMA WifiCommandFacts ==
    ASSUME NEW d \in DeviceRecord
    PROVE  \A x \in SetWifi(d) \cup ClearWifi(d) :
               /\ x.ram.reset = d.ram.reset /\ x.loaded = d.loaded
               /\ x.flash = x.ram \/ (x.flash = d.flash /\ "flash" \in Faults)
<1>1. d.ram \in Store
  BY DEF DeviceRecord
<1> DEFINE a == [d.ram EXCEPT !.cred = TRUE, !.boot = "PROVISIONED"]
           b == [d.ram EXCEPT !.cred = FALSE, !.bind = FALSE,
                              !.boot = "UNPROVISIONED"]
<1>2. a \in Store /\ a.reset = d.ram.reset
  BY <1>1 DEF Store, Boots
<1>3. b \in Store /\ b.reset = d.ram.reset
  BY <1>1 DEF Store, Boots
<1>4. SetWifi(d) = Overwrites(d, a) /\ ClearWifi(d) = Overwrites(d, b)
  BY DEF SetWifi, ClearWifi
<1> HIDE DEF a, b
<1> QED
  BY <1>2, <1>3, <1>4, OverwriteFacts

LEMMA LoadFacts ==
    ASSUME NEW d \in DeviceRecord
    PROVE  /\ Load(d) \in DeviceRecord
           /\ Load(d).loaded /\ Load(d).ram = d.flash /\ Load(d).flash = d.flash
           /\ ~Cold(d.flash).loaded /\ Cold(d.flash).flash = d.flash
<1>1. Load(d) \in DeviceRecord
  BY DeviceTypes
<1> QED
  BY <1>1 DEF Load, Cold, DeviceRecord

\* A write that follows the rules keeps a pending reset in flash and in RAM.
LEMMA RecordSaved ==
    ASSUME device \in DeviceRecord, Saves,
           device.loaded /\ device.flash.reset => device.ram.reset
    PROVE  /\ device.flash.reset => device'.flash.reset
           /\ device'.loaded /\ device'.flash.reset => device'.ram.reset
<1> DEFINE Keeps(d) == d.loaded /\ d.flash.reset => d.ram.reset
<1>1. Load(device) \in DeviceRecord /\ Keeps(Load(device))
      /\ Load(device).flash = device.flash
  BY LoadFacts
<1>2. ASSUME NEW d \in DeviceRecord, Keeps(d), d.flash = device.flash,
             \/ device' = d
             \/ \E s \in CpStates \ {"FACTORY_RESETTING"} : device' \in Commits(d, s)
             \/ device' \in ResetRequested(d)
      PROVE  /\ device.flash.reset => device'.flash.reset
             /\ Keeps(device')
  <2>1. CASE device' = d
    BY <1>2, <2>1
  <2>2. CASE \E s \in CpStates \ {"FACTORY_RESETTING"} : device' \in Commits(d, s)
    <3>1. PICK s \in CpStates \ {"FACTORY_RESETTING"} : device' \in Commits(d, s)
      BY <2>2
    <3> DEFINE r == Persisted(d.ram, s)
    <3>2. r.reset = d.ram.reset
      <4>1. d.ram \in Store
        BY <1>2 DEF DeviceRecord
      <4> QED
        BY <3>1, <4>1, PersistedFacts
    <3>3. /\ device'.loaded = d.loaded
          /\ \/ device' = d
             \/ d.loaded /\ device'.ram = r /\ device'.flash = r
             \/ d.loaded /\ device'.ram = d.ram /\ device'.flash = r
      BY <1>2, <3>1, CommitFacts
    <3> HIDE DEF r
    <3> QED
      BY <1>2, <3>2, <3>3
  <2>3. CASE device' \in ResetRequested(d)
    BY <1>2, <2>3, ResetFacts
  <2> QED
    BY <1>2, <2>1, <2>2, <2>3
<1>3. CASE device.loaded /\ device' \in SetWifi(device) \cup ClearWifi(device)
  BY <1>3, WifiCommandFacts
<1>4. CASE device' = Cold(device.flash)
  BY <1>4, LoadFacts
<1> QED
  BY <1>1, <1>2, <1>3, <1>4 DEF Saves

LEMMA RecordInit == Init => RecordInv /\ RecordWrittenThrough
<1> SUFFICES ASSUME Init PROVE RecordInv /\ RecordWrittenThrough
  OBVIOUS
<1>1. cp = CpReset /\ ~device.loaded
  BY DEF Init, CpInit, DeviceInit, Cold
<1> QED
  BY <1>1 DEF RecordInv, ReturnsOutside, CpReset, RecordWrittenThrough

LEMMA RecordStep ==
    Typed /\ RecordInv /\ [Next]_vars
      => RecordInv' /\ (device.flash.reset => device'.flash.reset)
<1> SUFFICES ASSUME Typed, RecordInv, [Next]_vars
             PROVE  RecordInv' /\ (device.flash.reset => device'.flash.reset)
  OBVIOUS
<1>1. device \in DeviceRecord /\ ReturnsOutside
  BY DEF Typed, RecordInv
<1>2. Saves
  BY <1>1, DeviceSteps
<1>3. ReturnsOutside'
  BY <1>1, ReturnsStep
<1> QED
  BY <1>1, <1>2, <1>3, RecordSaved DEF RecordInv

\* aov_device_factory_reset: whatever writes fail and whenever the chip
\* restarts, a factory reset that was once promised in flash stays promised.
THEOREM ResetSurvives == Spec => PendingResetSurvives
<1>1. Typed /\ RecordInv /\ [Next]_vars
        => [device.flash.reset => device'.flash.reset]_device
  BY RecordStep
<1>2. Typed /\ RecordInv /\ [Next]_vars => RecordInv'
  BY RecordStep
<1>3. Init => RecordInv
  BY RecordInit
<1> QED
  BY <1>1, <1>2, <1>3, TypedAlways, PTL DEF Spec, PendingResetSurvives

\* Without failing writes every write reaches RAM and flash.
LEMMA WrittenStep ==
    ASSUME "flash" \notin Faults
    PROVE  Typed /\ ReturnsOutside /\ RecordWrittenThrough /\ [Next]_vars
             => RecordWrittenThrough'
<1> SUFFICES ASSUME Typed, ReturnsOutside, RecordWrittenThrough, [Next]_vars
             PROVE  RecordWrittenThrough'
  OBVIOUS
<1> USE DEF RecordWrittenThrough
<1>1. device \in DeviceRecord
  BY DEF Typed
<1>2. /\ Load(device) \in DeviceRecord /\ Load(device).loaded
      /\ Load(device).ram = Load(device).flash
  BY <1>1, LoadFacts
<1>3. ASSUME NEW d \in DeviceRecord, d.loaded => d.ram = d.flash,
             \/ device' = d
             \/ \E s \in CpStates \ {"FACTORY_RESETTING"} : device' \in Commits(d, s)
             \/ device' \in ResetRequested(d)
      PROVE  device'.loaded => device'.ram = device'.flash
  BY <1>3, CommitFacts, ResetFacts
<1>4. CASE device.loaded /\ device' \in SetWifi(device) \cup ClearWifi(device)
  BY <1>1, <1>4, WifiCommandFacts
<1>5. CASE device' = Cold(device.flash)
  BY <1>1, <1>5, LoadFacts
<1> QED
  BY <1>1, <1>2, <1>3, <1>4, <1>5, DeviceSteps DEF Saves

\* aov_device_state_commit and the aov_wifi command: as long as the flash can
\* be written, what the CP works with is what a restart will load.
THEOREM RecordSafe ==
    ASSUME "flash" \notin Faults
    PROVE  Spec => []RecordWrittenThrough
<1>1. Init => ReturnsOutside /\ RecordWrittenThrough
  BY RecordInit DEF RecordInv
<1>2. Typed /\ ReturnsOutside /\ RecordWrittenThrough /\ [Next]_vars
        => ReturnsOutside' /\ RecordWrittenThrough'
  BY ReturnsStep, WrittenStep
<1> QED
  BY <1>1, <1>2, TypedAlways, PTL DEF Spec

-----------------------------------------------------------------------------
(* What the CP's steps do to the alarms, the flags of the job and the      *)
(* picture.                                                                *)

\* The same fields, as far as the job and its reports go.
SameJob(c, d) ==
    /\ SamePower(c, d)
    /\ d.workComplete = c.workComplete /\ d.lastGrayReady = c.lastGrayReady
    /\ d.abortingJob = c.abortingJob

SamePicture ==
    /\ shared'.valid = shared.valid /\ shared'.described = shared.described
    /\ shared'.buffer = shared.buffer

Taken == queue # <<>> /\ queue' = Tail(queue) /\ lost' = lost

\* A job is started.
Launched ==
    /\ ~cp.apVoteOn /\ cp'.apVoteOn
    /\ cp'.poweringDown = cp.poweringDown
    /\ cp'.activeSeq = NextSeq(cp.activeSeq)
    /\ ~cp'.workComplete /\ ~cp'.powerdownReady /\ ~cp'.abortingJob
    /\ cp'.state = "AP_BOOTING" /\ cp'.detectArmed = cp.detectArmed
    /\ shared'.seq = cp'.activeSeq /\ SamePicture
    /\ Forget(cp'.activeSeq)
    /\ Taken /\ Head(queue).id # "AP_REPORT"

\* The power of the AP is gone.
Completed ==
    /\ cp.poweringDown /\ ~cp'.poweringDown /\ ~cp'.apVoteOn
    /\ cp'.activeSeq = cp.activeSeq
    /\ cp'.returnState = cp.returnState /\ cp'.state = cp.returnState
    /\ cp.detectArmed => cp'.detectArmed
    /\ \/ "pm" \in Faults \/ cp.returnState \notin {"KEEPALIVE", "CLOUD_REGISTERING"}
       \/ cp'.detectArmed
    /\ shared'.seq = shared.seq /\ SamePicture /\ wire' = wire
    /\ Taken /\ Head(queue).id = "AP_POWERED_OFF"

\* An event that leaves the job as it is.
Handled ==
    /\ cp'.apVoteOn = cp.apVoteOn /\ cp'.activeSeq = cp.activeSeq
    /\ cp'.poweringDown = cp.poweringDown
    /\ cp'.powerdownReady = cp.powerdownReady
    /\ cp'.workComplete = cp.workComplete /\ cp'.abortingJob = cp.abortingJob
    /\ cp'.returnState = cp.returnState \/ cp'.returnState = "KEEPALIVE"
    /\ cp.detectArmed => cp'.detectArmed
    /\ cp'.state \in {"KEEPALIVE", "CLOUD_REGISTERING"} =>
          \/ cp.apVoteOn \/ cp'.detectArmed \/ "pm" \in Faults
          \/ cp'.state = cp.state \/ Head(queue).id = "WIFI_CONNECTED"
    /\ cp'.state = "RETRY_WAIT" =>
          \/ cp'.oneshotArmed \/ "pm" \in Faults
          \/ /\ cp.state = "RETRY_WAIT" /\ cp'.oneshotArmed = cp.oneshotArmed
             /\ Head(queue).id # "RETRY_TIMEOUT"
    /\ shared' = shared /\ wire' = wire
    /\ Taken /\ Head(queue).id # "AP_REPORT"

\* An alarm fires, the product or its console speaks up.
Inserts == PlainEvents \ {"AP_POWERED_OFF", "WIFI_CONNECTED"}
Inserted ==
    /\ SameJob(cp, cp') /\ cp'.state = cp.state /\ cp'.detectArmed = cp.detectArmed
    /\ lost => lost'
    /\ \/ queue' = queue
       \/ \E id \in Inserts : queue' = PushTo(queue, Plain(id))
    /\ \/ cp'.oneshotArmed = cp.oneshotArmed
       \/ /\ queue' = PushTo(queue, Plain("RETRY_TIMEOUT"))
          /\ lost' \/ Len(queue) < QueueDepth
    /\ shared' = shared /\ wire' = wire

LEMMA AlarmWays ==
    ASSUME NEW c \in CpRecord
    PROVE  /\ \A d \in VoteSleep(c) :
                 /\ SameJob(c, d) /\ d.state = c.state
                 /\ d.detectArmed = c.detectArmed /\ d.oneshotArmed = c.oneshotArmed
           /\ \A d \in ArmDetect(c) :
                 /\ SameJob(c, d) /\ d.state = c.state
                 /\ d.oneshotArmed = c.oneshotArmed
                 /\ c.detectArmed => d.detectArmed
                 /\ "pm" \in Faults \/ d.detectArmed
           /\ \A d \in EnterRetry(c) :
                 /\ SameJob(c, d) /\ d.state = "RETRY_WAIT"
                 /\ d.detectArmed = c.detectArmed
                 /\ "pm" \in Faults \/ d.oneshotArmed
<1>1. \A d \in VoteSleep(c) :
          /\ SameJob(c, d) /\ d.state = c.state
          /\ d.detectArmed = c.detectArmed /\ d.oneshotArmed = c.oneshotArmed
  BY DEF VoteSleep, SameJob, SamePower, CpRecord
<1>2. \A d \in ArmDetect(c) :
          /\ SameJob(c, d) /\ d.state = c.state
          /\ d.oneshotArmed = c.oneshotArmed
          /\ c.detectArmed => d.detectArmed
          /\ "pm" \in Faults \/ d.detectArmed
  BY DEF ArmDetect, SameJob, SamePower, CpRecord
<1>3. \A d \in EnterRetry(c) :
          /\ SameJob(c, d) /\ d.state = "RETRY_WAIT"
          /\ d.detectArmed = c.detectArmed
          /\ "pm" \in Faults \/ d.oneshotArmed
  <2> DEFINE e == [c EXCEPT !.state = "RETRY_WAIT"]
  <2>1. /\ e \in CpRecord /\ SameJob(c, e) /\ e.state = "RETRY_WAIT"
        /\ e.detectArmed = c.detectArmed
    BY DEF SameJob, SamePower, CpRecord, CpStates
  <2> HIDE DEF e
  <2>2. \A d \in ArmOneshot(e) :
            /\ SameJob(e, d) /\ d.state = e.state /\ d.detectArmed = e.detectArmed
            /\ "pm" \in Faults \/ d.oneshotArmed
    BY <2>1 DEF ArmOneshot, SameJob, SamePower, CpRecord
  <2> QED
    BY <2>1, <2>2 DEF EnterRetry, SameJob, SamePower, e
<1> QED
  BY <1>1, <1>2, <1>3

LEMMA LaunchWays ==
    ASSUME Typed, NEW c \in CpRecord, NEW job \in Jobs, NEW s \in CpStates,
           Launch(c, job, s), SameJob(cp, c), c.detectArmed = cp.detectArmed,
           Taken, Head(queue).id # "AP_REPORT"
    PROVE  Launched
<1> DEFINE e == ResetJobFlags(c)
           f == NewJob(e, job, s)
           d == StartApJob(c, job, s)
<1>1. /\ e \in CpRecord /\ e.poweringDown = c.poweringDown
      /\ e.activeSeq = c.activeSeq /\ e.detectArmed = c.detectArmed
      /\ ~e.workComplete /\ ~e.powerdownReady /\ ~e.abortingJob
  BY DEF ResetJobFlags, CpRecord
<1>2. /\ f \in CpRecord /\ f.poweringDown = c.poweringDown
      /\ f.activeSeq = NextSeq(c.activeSeq) /\ f.detectArmed = c.detectArmed
      /\ ~f.workComplete /\ ~f.powerdownReady /\ ~f.abortingJob
      /\ f.state = "AP_BOOTING"
  <2> HIDE DEF e
  <2>1. NextSeq(e.activeSeq) \in Seqs /\ "AP_BOOTING" \in CpStates
    BY <1>1, NextSeqIsSeq DEF CpRecord, CpStates
  <2> QED
    BY <1>1, <2>1 DEF NewJob, CpRecord
<1>3. d = [f EXCEPT !.sleepVoted = FALSE, !.apVoteOn = TRUE]
  BY DEF StartApJob
<1> HIDE DEF e, f
<1>4. /\ d.apVoteOn /\ d.poweringDown = c.poweringDown
      /\ d.activeSeq = NextSeq(c.activeSeq) /\ d.detectArmed = c.detectArmed
      /\ ~d.workComplete /\ ~d.powerdownReady /\ ~d.abortingJob
      /\ d.state = "AP_BOOTING"
  BY <1>2, <1>3 DEF CpRecord
<1>5. /\ ~c.apVoteOn /\ cp' = d /\ Forget(d.activeSeq)
      /\ shared' = [shared EXCEPT !.seq = d.activeSeq, !.job = job]
  BY DEF Launch
<1> HIDE DEF d
<1>6. shared'.seq = cp'.activeSeq /\ SamePicture
  BY <1>5 DEF Typed, Shared, SamePicture
<1> QED
  BY <1>4, <1>5, <1>6 DEF Launched, SameJob, SamePower

\* An event that leaves cp as it is, up to a change of the state to s.
LEMMA HandledState ==
    ASSUME SameJob(cp, cp'), cp.detectArmed => cp'.detectArmed,
           shared' = shared, wire' = wire, Taken, Head(queue).id # "AP_REPORT",
           \/ cp'.state \notin {"KEEPALIVE", "CLOUD_REGISTERING", "RETRY_WAIT"}
           \/ /\ cp'.state = cp.state /\ cp'.oneshotArmed = cp.oneshotArmed
              /\ Head(queue).id # "RETRY_TIMEOUT"
           \/ cp'.state = "KEEPALIVE" /\ (cp'.detectArmed \/ "pm" \in Faults)
           \/ cp'.state = "CLOUD_REGISTERING" /\ Head(queue).id = "WIFI_CONNECTED"
           \/ cp'.state = "RETRY_WAIT" /\ (cp'.oneshotArmed \/ "pm" \in Faults)
    PROVE  Handled
BY DEF SameJob, SamePower, Handled

LEMMA StartWifiWays ==
    ASSUME NEW c \in CpRecord, StartWifi(c)
    PROVE  /\ SameJob(c, cp') /\ cp'.detectArmed = c.detectArmed
           /\ \/ cp'.state = c.state /\ cp'.oneshotArmed = c.oneshotArmed
              \/ cp'.state = "RETRY_WAIT" /\ (cp'.oneshotArmed \/ "pm" \in Faults)
<1>1. cp' = c \/ cp' \in EnterRetry(c)
  BY DEF StartWifi
<1> QED
  BY <1>1, AlarmWays DEF SameJob, SamePower

LEMMA ConnectWifiWays ==
    ASSUME Typed, ConnectWifi, Taken, Head(queue).id # "AP_REPORT"
    PROVE  Launched \/ Handled
<1> DEFINE c == [cp EXCEPT !.state = "WIFI_CONNECTING"]
<1>1. "WIFI_CONNECTING" \in CpStates /\ "WIFI_CONNECT" \in Jobs
  BY DEF CpStates, Jobs
<1>2. /\ c \in CpRecord /\ SameJob(cp, c) /\ c.detectArmed = cp.detectArmed
      /\ c.state = "WIFI_CONNECTING"
  BY <1>1 DEF Typed, CpRecord, SameJob, SamePower
<1>3. \/ StartWifi(c) /\ UNCHANGED <<shared, wire>>
      \/ Launch(c, "WIFI_CONNECT", "WIFI_CONNECTING")
  BY DEF ConnectWifi
<1> HIDE DEF c
<1>4. CASE StartWifi(c) /\ UNCHANGED <<shared, wire>>
  <2>1. /\ SameJob(cp, cp') /\ cp'.detectArmed = cp.detectArmed
        /\ \/ cp'.state = "WIFI_CONNECTING"
           \/ cp'.state = "RETRY_WAIT" /\ (cp'.oneshotArmed \/ "pm" \in Faults)
    BY <1>2, <1>4, StartWifiWays DEF SameJob, SamePower
  <2> QED
    BY <1>4, <2>1, HandledState
<1>5. CASE Launch(c, "WIFI_CONNECT", "WIFI_CONNECTING")
  BY <1>1, <1>2, <1>5, LaunchWays
<1> QED
  BY <1>3, <1>4, <1>5

LEMMA CompleteWays ==
    ASSUME NEW c \in CpRecord
    PROVE  \A d \in CompletePowerdown(c) :
               /\ ~d.poweringDown /\ ~d.apVoteOn /\ d.activeSeq = c.activeSeq
               /\ d.returnState = c.returnState /\ d.state = c.returnState
               /\ c.detectArmed => d.detectArmed
               /\ \/ "pm" \in Faults \/ d.detectArmed
                  \/ c.returnState \notin {"KEEPALIVE", "CLOUD_REGISTERING"}
<1> DEFINE e == [c EXCEPT !.poweringDown = FALSE, !.apVoteOn = FALSE,
                          !.activeJob = "NONE", !.state = c.returnState]
<1>1. /\ e \in CpRecord /\ ~e.poweringDown /\ ~e.apVoteOn
      /\ e.activeSeq = c.activeSeq /\ e.detectArmed = c.detectArmed
      /\ e.returnState = c.returnState /\ e.state = c.returnState
  <2>1. "NONE" \in Jobs /\ c.returnState \in CpStates
    BY DEF CpRecord, Jobs
  <2> QED
    BY <2>1 DEF CpRecord
<1>2. CompletePowerdown(c) = IF c.returnState \in {"KEEPALIVE", "CLOUD_REGISTERING"}
                             THEN ArmDetect(e) ELSE {e}
  BY DEF CompletePowerdown
<1> HIDE DEF e
<1> QED
  BY <1>1, <1>2, AlarmWays DEF SameJob, SamePower

LEMMA TakenEvent ==
    ASSUME NEW id, id # "AP_REPORT", Take(id)
    PROVE  Taken /\ Head(queue).id = id /\ Head(queue).id # "AP_REPORT"
BY DEF Take, IsNext, Taken

LEMMA EventWays ==
    ASSUME Typed, Worker, ~HandleReport
    PROVE  Launched \/ Completed \/ Handled
<1>1. cp \in CpRecord /\ cp.state \in CpStates
  BY DEF Typed, CpRecord
<1>2. ASSUME NEW id, id # "AP_REPORT", Take(id), UNCHANGED <<shared, wire>>,
             NEW x \in CpStates, cp' = [cp EXCEPT !.state = x],
             \/ x \notin {"KEEPALIVE", "CLOUD_REGISTERING", "RETRY_WAIT"}
             \/ x = "CLOUD_REGISTERING" /\ id = "WIFI_CONNECTED"
      PROVE  Handled
  <2>1. SameJob(cp, cp') /\ cp'.state = x /\ cp'.detectArmed = cp.detectArmed
    BY <1>1, <1>2 DEF CpRecord, SameJob, SamePower
  <2> QED
    BY <1>2, <2>1, TakenEvent, HandledState
<1>3. ASSUME NEW id, id \notin {"AP_REPORT", "RETRY_TIMEOUT"}, Take(id),
             UNCHANGED <<cp, shared, wire>>
      PROVE  Handled
  BY <1>3, TakenEvent, HandledState DEF SameJob, SamePower
<1>4. ASSUME NEW id, id # "AP_REPORT", Take(id),
             NEW job \in Jobs, NEW s \in CpStates, Launch(cp, job, s)
      PROVE  Launched
  BY <1>1, <1>4, TakenEvent, LaunchWays DEF SameJob, SamePower
<1>5. CASE HandleBoot
  <2>1. {"FACTORY_RESETTING", "OTA_UPGRADING", "UNPROVISIONED", "WIFI_CONNECTING"}
            \subseteq CpStates
    BY DEF CpStates
  <2>2. {"WIFI_CONNECT", "QR_PROVISION"} \subseteq Jobs
    BY DEF Jobs
  <2>3. /\ Take("BOOT")
        /\ \/ \E x \in {"FACTORY_RESETTING", "OTA_UPGRADING"} :
                 cp' = [cp EXCEPT !.state = x] /\ UNCHANGED <<shared, wire>>
           \/ Launch(cp, "WIFI_CONNECT", "WIFI_CONNECTING")
           \/ Launch(cp, "QR_PROVISION", "UNPROVISIONED")
    BY <1>5 DEF HandleBoot
  <2> QED
    BY <1>2, <1>4, <2>1, <2>2, <2>3
<1>6. CASE \/ HandleProvisionStart \/ HandleProvisionFail \/ HandleWifiConnected
           \/ HandleFactoryReset \/ HandleOtaStart \/ HandleOtaFinish
  <2>1. {"PROVISIONING", "UNPROVISIONED", "CLOUD_REGISTERING", "FACTORY_RESETTING",
         "OTA_UPGRADING", "BOOT_INIT"} \subseteq CpStates
    BY DEF CpStates
  <2>2. UNCHANGED <<shared, wire>>
    BY <1>6 DEF HandleProvisionStart, HandleProvisionFail, HandleWifiConnected,
                HandleFactoryReset, HandleOtaStart, HandleOtaFinish
  <2>3. \/ \E x \in {"PROVISIONING", "UNPROVISIONED", "FACTORY_RESETTING",
                     "OTA_UPGRADING", "BOOT_INIT"} :
             /\ cp' = [cp EXCEPT !.state = x]
             /\ \E id \in PlainEvents : Take(id)
        \/ cp' = [cp EXCEPT !.state = "CLOUD_REGISTERING"] /\ Take("WIFI_CONNECTED")
    BY <1>6 DEF HandleProvisionStart, HandleProvisionFail, HandleWifiConnected,
                HandleFactoryReset, HandleOtaStart, HandleOtaFinish,
                PlainEvents, ProductEvents
  <2>4. "AP_REPORT" \notin PlainEvents
    BY DEF PlainEvents, ProductEvents
  <2>5. CASE cp' = [cp EXCEPT !.state = "CLOUD_REGISTERING"] /\ Take("WIFI_CONNECTED")
    BY <1>2, <2>1, <2>2, <2>5
  <2>6. CASE \E x \in {"PROVISIONING", "UNPROVISIONED", "FACTORY_RESETTING",
                       "OTA_UPGRADING", "BOOT_INIT"} :
                /\ cp' = [cp EXCEPT !.state = x]
                /\ \E id \in PlainEvents : Take(id)
    BY <1>2, <2>1, <2>2, <2>4, <2>6
  <2> QED
    BY <2>3, <2>5, <2>6
<1>7. CASE HandleProvisionSuccess \/ HandleRetryTimeout
  <2>1. ConnectWifi /\ Taken /\ Head(queue).id # "AP_REPORT"
    BY <1>7, TakenEvent DEF HandleProvisionSuccess, HandleRetryTimeout
  <2> QED
    BY <2>1, ConnectWifiWays
<1>8. CASE HandleConnectFail
  <2>1. /\ cp' \in EnterRetry(cp) /\ UNCHANGED <<shared, wire>>
        /\ Taken /\ Head(queue).id # "AP_REPORT"
    BY <1>8, TakenEvent DEF HandleConnectFail
  <2>2. /\ SameJob(cp, cp') /\ cp'.state = "RETRY_WAIT"
        /\ cp'.detectArmed = cp.detectArmed
        /\ "pm" \in Faults \/ cp'.oneshotArmed
    BY <1>1, <2>1, AlarmWays
  <2> QED
    BY <2>1, <2>2, HandledState
<1>9. CASE HandleCloudRegistered
  <2>1. UNCHANGED <<shared, wire>> /\ Taken /\ Head(queue).id # "AP_REPORT"
    BY <1>9, TakenEvent DEF HandleCloudRegistered
  <2>2. CASE cp.apVoteOn
    <3>1. cp' = [cp EXCEPT !.state = "KEEPALIVE", !.returnState = "KEEPALIVE"]
      BY <1>9, <2>2 DEF HandleCloudRegistered
    <3>2. /\ cp'.apVoteOn = cp.apVoteOn /\ cp'.activeSeq = cp.activeSeq
          /\ cp'.poweringDown = cp.poweringDown
          /\ cp'.powerdownReady = cp.powerdownReady
          /\ cp'.workComplete = cp.workComplete /\ cp'.abortingJob = cp.abortingJob
          /\ cp'.returnState = "KEEPALIVE" /\ cp'.detectArmed = cp.detectArmed
          /\ cp'.state = "KEEPALIVE"
      BY <1>1, <3>1 DEF CpRecord
    <3> QED
      BY <2>1, <2>2, <3>2 DEF Handled
  <2>3. CASE ~cp.apVoteOn
    <3> DEFINE d == [cp EXCEPT !.state = "KEEPALIVE"]
    <3>1. /\ d \in CpRecord /\ SameJob(cp, d) /\ d.state = "KEEPALIVE"
          /\ d.detectArmed = cp.detectArmed
      BY <1>1 DEF CpRecord, CpStates, SameJob, SamePower
    <3>2. cp' \in ArmDetect(d)
      BY <1>9, <2>3 DEF HandleCloudRegistered
    <3> HIDE DEF d
    <3>3. /\ SameJob(d, cp') /\ cp'.state = "KEEPALIVE"
          /\ d.detectArmed => cp'.detectArmed
          /\ "pm" \in Faults \/ cp'.detectArmed
      BY <3>1, <3>2, AlarmWays
    <3>4. SameJob(cp, cp')
      BY <3>1, <3>3 DEF SameJob, SamePower
    <3> QED
      BY <2>1, <3>1, <3>3, <3>4, HandledState
  <2> QED
    BY <2>2, <2>3
<1>10. CASE DropDetectTimer \/ HandleIgnored
  BY <1>3, <1>10 DEF DropDetectTimer, HandleIgnored
<1>11. CASE HandleDetectTimer
  <2> DEFINE c == [cp EXCEPT !.tickSeen = TRUE]
  <2>1. /\ c \in CpRecord /\ SameJob(cp, c) /\ c.state = cp.state
        /\ c.detectArmed = cp.detectArmed /\ c.oneshotArmed = cp.oneshotArmed
    BY <1>1 DEF CpRecord, SameJob, SamePower
  <2>2. /\ Taken /\ Head(queue).id = "DETECT_TIMER"
        /\ \/ cp' = c /\ UNCHANGED <<shared, wire>>
           \/ Launch(c, "MOTION_CHECK", cp.state)
           \/ cp' \in VoteSleep(c) /\ UNCHANGED <<shared, wire>>
    BY <1>11, TakenEvent DEF HandleDetectTimer
  <2> HIDE DEF c
  <2>3. CASE cp' = c /\ UNCHANGED <<shared, wire>>
    BY <2>1, <2>2, <2>3, HandledState
  <2>4. CASE Launch(c, "MOTION_CHECK", cp.state)
    <3>1. "MOTION_CHECK" \in Jobs
      BY DEF Jobs
    <3> QED
      BY <1>1, <2>1, <2>2, <2>4, <3>1, LaunchWays
  <2>5. CASE cp' \in VoteSleep(c) /\ UNCHANGED <<shared, wire>>
    <3>1. /\ SameJob(c, cp') /\ cp'.state = c.state
          /\ cp'.detectArmed = c.detectArmed /\ cp'.oneshotArmed = c.oneshotArmed
      BY <2>1, <2>5, AlarmWays
    <3>2. SameJob(cp, cp')
      BY <2>1, <3>1 DEF SameJob, SamePower
    <3> QED
      BY <2>1, <2>2, <2>5, <3>1, <3>2, HandledState
  <2> QED
    BY <2>2, <2>3, <2>4, <2>5
<1>12. CASE HandleLiveStart
  <2>1. "LIVE_STREAM" \in Jobs /\ "KEEPALIVE" \in CpStates
    BY DEF Jobs, CpStates
  <2>2. /\ Take("LIVE_START")
        /\ \/ Launch(cp, "LIVE_STREAM", "KEEPALIVE")
           \/ UNCHANGED <<cp, shared, wire>>
    BY <1>12 DEF HandleLiveStart
  <2> QED
    BY <1>3, <1>4, <2>1, <2>2
<1>13. CASE HandlePoweredOff
  <2>1. Take("AP_POWERED_OFF") /\ wire' = wire
    BY <1>13 DEF HandlePoweredOff
  <2>2. CASE cp.poweringDown
    <3>1. cp' \in CompletePowerdown(cp) /\ shared' = [shared EXCEPT !.job = "NONE"]
      BY <1>13, <2>2 DEF HandlePoweredOff
    <3>2. shared'.seq = shared.seq /\ SamePicture
      BY <3>1 DEF Typed, Shared, SamePicture
    <3>3. Taken /\ Head(queue).id = "AP_POWERED_OFF"
      BY <2>1, TakenEvent
    <3> QED
      BY <1>1, <2>1, <2>2, <3>1, <3>2, <3>3, CompleteWays DEF Completed
  <2>3. CASE ~cp.poweringDown
    <3>1. UNCHANGED <<cp, shared, wire>>
      BY <1>13, <2>1, <2>3 DEF HandlePoweredOff
    <3> QED
      BY <1>3, <2>1, <3>1
  <2> QED
    BY <2>2, <2>3
<1> QED
  BY <1>5, <1>6, <1>7, <1>8, <1>9, <1>10, <1>11, <1>12, <1>13 DEF Worker

LEMMA InputWays ==
    ASSUME Typed, DetectTick \/ OneshotFires \/ ProductEvent \/ WifiCommand
    PROVE  Inserted
<1>1. cp \in CpRecord
  BY DEF Typed
<1>2. CASE DetectTick
  <2>1. /\ cp' = [cp EXCEPT !.sleepVoted = FALSE] /\ shared' = shared /\ wire' = wire
        /\ Post(Plain("DETECT_TIMER"))
    BY <1>2 DEF DetectTick
  <2>2. /\ SameJob(cp, cp') /\ cp'.state = cp.state
        /\ cp'.detectArmed = cp.detectArmed /\ cp'.oneshotArmed = cp.oneshotArmed
    BY <1>1, <2>1 DEF CpRecord, SameJob, SamePower
  <2>3. "DETECT_TIMER" \in Inserts
    BY DEF Inserts, PlainEvents
  <2> QED
    BY <2>1, <2>2, <2>3 DEF Inserted, Post, PostTo
<1>3. CASE OneshotFires
  <2>1. /\ cp' = [cp EXCEPT !.oneshotArmed = FALSE] /\ shared' = shared /\ wire' = wire
        /\ Post(Plain("RETRY_TIMEOUT"))
    BY <1>3 DEF OneshotFires
  <2>2. SameJob(cp, cp') /\ cp'.state = cp.state /\ cp'.detectArmed = cp.detectArmed
    BY <1>1, <2>1 DEF CpRecord, SameJob, SamePower
  <2>3. "RETRY_TIMEOUT" \in Inserts
    BY DEF Inserts, PlainEvents
  <2>4. lost' \/ Len(queue) < QueueDepth
    <3>1. Len(queue) >= QueueDepth => lost'
      BY <2>1, Zenon DEF Post, PostTo
    <3>2. Len(queue) \in Nat /\ QueueDepth \in Nat
      BY IpcAssumption DEF Typed, Queues, IpcAssumption
    <3> QED
      BY <3>1, <3>2
  <2> QED
    BY <2>1, <2>2, <2>3, <2>4 DEF Inserted, Post, PostTo
<1>4. CASE ProductEvent
  <2>1. UNCHANGED <<cp, shared, wire>>
    BY <1>4 DEF ProductEvent
  <2>2. PICK id \in ProductEvents : Post(Plain(id))
    BY <1>4 DEF ProductEvent
  <2>3. id \in Inserts
    BY <2>2 DEF Inserts, PlainEvents, ProductEvents
  <2> QED
    BY <2>1, <2>2, <2>3 DEF Inserted, Post, PostTo, SameJob, SamePower
<1>5. CASE WifiCommand
  BY <1>5 DEF WifiCommand, ipcVars, Inserted, SameJob, SamePower
<1> QED
  BY <1>2, <1>3, <1>4, <1>5

\* What a report does that is about the active job.
Noted(rid) ==
    /\ cp.workComplete => cp'.workComplete
    /\ cp'.workComplete =>
          cp.workComplete \/ rid \in {"NO_MOTION", "EVENT_DONE", "ERROR"}
    /\ cp.powerdownReady => cp'.powerdownReady
    /\ cp'.powerdownReady => cp.powerdownReady \/ rid = "POWERDOWN_READY"
    /\ cp'.abortingJob => cp.abortingJob \/ rid \in {"MOTION_DETECTED", "ERROR"}
    /\ cp.poweringDown => cp'.poweringDown
    /\ cp'.poweringDown =>
          cp.poweringDown \/ (cp'.workComplete /\ cp'.powerdownReady /\ cp.apVoteOn)
    /\ cp'.state = "RETRY_WAIT" =>
          \/ cp'.oneshotArmed \/ "pm" \in Faults
          \/ /\ cp.state = "RETRY_WAIT"
             /\ \/ cp'.oneshotArmed = cp.oneshotArmed
                \/ cp.poweringDown \/ ~cp.apVoteOn
    /\ IF rid = "LAST_GRAY_READY"
       THEN shared'.valid /\ shared'.described = Head(queue).frame
       ELSE shared'.valid = shared.valid /\ shared'.described = shared.described

Heard ==
    /\ queue # <<>> /\ Head(queue).id = "AP_REPORT"
    /\ \/ queue' = Tail(queue)
       \/ queue' = PushTo(Tail(queue), Plain("WIFI_CONNECT_FAIL"))
       \/ /\ queue' = PushTo(Tail(queue), Plain("WIFI_CONNECTED"))
          /\ Head(queue).seq = cp.activeSeq
          /\ cp'.returnState = "CLOUD_REGISTERING"
    /\ lost => lost'
    /\ wire' = wire
    /\ cp'.apVoteOn = cp.apVoteOn /\ cp'.activeSeq = cp.activeSeq
    /\ cp'.detectArmed = cp.detectArmed
    /\ cp'.returnState \in {cp.returnState, "CLOUD_REGISTERING"}
    /\ cp'.state \in {"KEEPALIVE", "CLOUD_REGISTERING"} => cp'.state = cp.state
    /\ shared'.seq = shared.seq /\ shared'.buffer = shared.buffer
    /\ \/ Head(queue).seq # cp.activeSeq /\ cp' = cp /\ shared' = shared
       \/ Head(queue).seq = cp.activeSeq /\ Noted(Head(queue).report)

LEMMA TryWays ==
    ASSUME NEW c \in CpRecord
    PROVE  LET d == TryPowerdown(c)
           IN  /\ d.apVoteOn = c.apVoteOn /\ d.activeSeq = c.activeSeq
               /\ d.returnState = c.returnState /\ d.detectArmed = c.detectArmed
               /\ d.powerdownReady = c.powerdownReady
               /\ d.workComplete = c.workComplete /\ d.abortingJob = c.abortingJob
               /\ c.poweringDown => d.poweringDown
               /\ d.poweringDown =>
                     c.poweringDown \/ (c.workComplete /\ c.powerdownReady /\ c.apVoteOn)
               /\ \/ d.state = "AP_POWERDOWN"
                  \/ /\ d.state = c.state
                     /\ \/ d.oneshotArmed = c.oneshotArmed
                        \/ c.poweringDown \/ ~c.apVoteOn
<1> DEFINE e == [c EXCEPT !.oneshotArmed = FALSE]
<1>1. e \in CpRecord /\ SameJob(c, e) /\ e.state = c.state
      /\ e.detectArmed = c.detectArmed
  BY DEF SameJob, SamePower, CpRecord
<1> DEFINE f == [e EXCEPT !.poweringDown = TRUE, !.state = "AP_POWERDOWN"]
<1>2. /\ f.apVoteOn = c.apVoteOn /\ f.activeSeq = c.activeSeq
      /\ f.returnState = c.returnState /\ f.detectArmed = c.detectArmed
      /\ f.powerdownReady = c.powerdownReady /\ f.workComplete = c.workComplete
      /\ f.abortingJob = c.abortingJob /\ f.poweringDown /\ f.state = "AP_POWERDOWN"
  <2> HIDE DEF e
  <2> QED
    BY <1>1 DEF SameJob, SamePower, CpRecord
<1>3. \/ TryPowerdown(c) = c
      \/ TryPowerdown(c) = e /\ (c.poweringDown \/ ~c.apVoteOn)
      \/ /\ TryPowerdown(c) = f
         /\ c.apVoteOn /\ c.powerdownReady /\ c.workComplete
  BY DEF TryPowerdown, FinishPowerdown
<1> HIDE DEF e, f
<1> QED
  BY <1>1, <1>2, <1>3 DEF SameJob, SamePower

LEMMA ReportWays ==
    ASSUME Typed, HandleReport
    PROVE  Heard
<1>1. cp \in CpRecord /\ shared \in Shared
  BY DEF Typed
<1>2. \A ids : TakeReport(ids) =>
          /\ queue # <<>> /\ Head(queue).id = "AP_REPORT" /\ Head(queue).report \in ids
          /\ Head(queue).seq = cp.activeSeq
          /\ queue' = Tail(queue) /\ lost' = lost
  BY DEF TakeReport, NextReport, IsNext
<1>3. CASE StaleReport
  BY <1>3 DEF StaleReport, Take, IsNext, Heard
<1>4. CASE BootReady
  <2> DEFINE c == [cp EXCEPT !.oneshotArmed = FALSE, !.state = "WIFI_CONNECTING"]
             d == [cp EXCEPT !.state = "AP_WORKING",
                             !.oneshotArmed = cp.activeJob = "MOTION_CHECK" /\ @]
  <2>1. /\ c \in CpRecord /\ SameJob(cp, c) /\ c.detectArmed = cp.detectArmed
        /\ c.state = "WIFI_CONNECTING"
    BY <1>1 DEF CpRecord, CpStates, SameJob, SamePower
  <2>2. SameJob(cp, d) /\ d.detectArmed = cp.detectArmed /\ d.state = "AP_WORKING"
    BY <1>1 DEF CpRecord, SameJob, SamePower
  <2>3. /\ StartWifi(c) \/ cp' = d
        /\ TakeReport({"BOOT_READY"}) /\ UNCHANGED <<wire, shared>>
    BY <1>4 DEF BootReady
  <2> HIDE DEF c, d
  <2>4. /\ SameJob(cp, cp') /\ cp'.detectArmed = cp.detectArmed
        /\ cp'.state \notin {"KEEPALIVE", "CLOUD_REGISTERING"}
        /\ cp'.state = "RETRY_WAIT" => cp'.oneshotArmed \/ "pm" \in Faults
    BY <2>1, <2>2, <2>3, StartWifiWays DEF SameJob, SamePower
  <2> QED
    BY <1>2, <2>3, <2>4 DEF Heard, Noted, SameJob, SamePower
<1>5. CASE WifiConnected
  <2>1. /\ cp' = [cp EXCEPT !.activeJob = "MOTION_CHECK",
                            !.returnState = "CLOUD_REGISTERING"]
        /\ shared' = [shared EXCEPT !.job = "MOTION_CHECK"]
        /\ wire' = wire /\ NextReport({"WIFI_CONNECTED"})
        /\ PostTo(Tail(queue), Plain("WIFI_CONNECTED"))
    BY <1>5 DEF WifiConnected
  <2>2. /\ cp'.apVoteOn = cp.apVoteOn /\ cp'.activeSeq = cp.activeSeq
        /\ cp'.returnState = "CLOUD_REGISTERING" /\ cp'.detectArmed = cp.detectArmed
        /\ cp'.poweringDown = cp.poweringDown /\ cp'.workComplete = cp.workComplete
        /\ cp'.powerdownReady = cp.powerdownReady /\ cp'.state = cp.state
        /\ cp'.abortingJob = cp.abortingJob /\ cp'.oneshotArmed = cp.oneshotArmed
    BY <1>1, <2>1 DEF CpRecord
  <2>3. /\ shared'.seq = shared.seq /\ shared'.buffer = shared.buffer
        /\ shared'.valid = shared.valid /\ shared'.described = shared.described
    BY <1>1, <2>1 DEF Shared
  <2> QED
    BY <2>1, <2>2, <2>3 DEF Heard, Noted, NextReport, IsNext, PostTo
<1>6. CASE WifiConnectFailed
  <2>1. /\ UNCHANGED <<cp, shared, wire>> /\ NextReport({"WIFI_CONNECT_FAILED"})
        /\ PostTo(Tail(queue), Plain("WIFI_CONNECT_FAIL"))
    BY <1>6 DEF WifiConnectFailed
  <2> QED
    BY <2>1 DEF Heard, Noted, NextReport, IsNext, PostTo
<1>7. CASE WorkDone
  <2> DEFINE c == [cp EXCEPT !.workComplete = TRUE, !.state = "AP_POWERDOWN"]
  <2>1. /\ c \in CpRecord /\ SamePower(cp, c) /\ c.detectArmed = cp.detectArmed
        /\ c.workComplete /\ c.abortingJob = cp.abortingJob
        /\ c.state = "AP_POWERDOWN"
    BY <1>1 DEF CpRecord, CpStates, SamePower
  <2>2. /\ cp' = TryPowerdown(c) /\ UNCHANGED <<shared, wire>>
        /\ TakeReport({"NO_MOTION", "EVENT_DONE"})
    BY <1>7 DEF WorkDone
  <2> HIDE DEF c
  <2> QED
    BY <1>2, <2>1, <2>2, TryWays DEF Heard, Noted, SamePower
<1>8. CASE LastGrayReady
  <2> DEFINE c == [cp EXCEPT !.lastGrayReady = TRUE]
  <2>1. /\ c \in CpRecord /\ SamePower(cp, c) /\ c.detectArmed = cp.detectArmed
        /\ c.workComplete = cp.workComplete /\ c.abortingJob = cp.abortingJob
        /\ c.state = cp.state /\ c.oneshotArmed = cp.oneshotArmed
    BY <1>1 DEF CpRecord, SamePower
  <2>2. /\ cp' = TryPowerdown(c) /\ wire' = wire
        /\ shared' = [shared EXCEPT !.valid = TRUE, !.described = Head(queue).frame]
        /\ TakeReport({"LAST_GRAY_READY"})
    BY <1>8 DEF LastGrayReady
  <2>3. /\ shared'.seq = shared.seq /\ shared'.buffer = shared.buffer
        /\ shared'.valid /\ shared'.described = Head(queue).frame
    BY <1>1, <2>2 DEF Shared
  <2>4. /\ queue # <<>> /\ Head(queue).id = "AP_REPORT"
        /\ Head(queue).report = "LAST_GRAY_READY" /\ Head(queue).seq = cp.activeSeq
        /\ queue' = Tail(queue) /\ lost' = lost
    BY <1>2, <2>2
  <2> HIDE DEF c
  <2>5. Noted("LAST_GRAY_READY")
    BY <2>1, <2>2, <2>3, TryWays DEF Noted, SamePower
  <2>6. /\ cp'.apVoteOn = cp.apVoteOn /\ cp'.activeSeq = cp.activeSeq
        /\ cp'.detectArmed = cp.detectArmed /\ cp'.returnState = cp.returnState
        /\ cp'.state \in {cp.state, "AP_POWERDOWN"}
    BY <2>1, <2>2, TryWays DEF SamePower
  <2> QED
    BY <2>2, <2>3, <2>4, <2>5, <2>6 DEF Heard
<1>9. CASE PowerdownReady
  <2> DEFINE c == [cp EXCEPT !.powerdownReady = TRUE]
  <2>1. /\ c \in CpRecord /\ c.detectArmed = cp.detectArmed
        /\ c.apVoteOn = cp.apVoteOn /\ c.activeSeq = cp.activeSeq
        /\ c.returnState = cp.returnState /\ c.poweringDown = cp.poweringDown
        /\ c.workComplete = cp.workComplete /\ c.abortingJob = cp.abortingJob
        /\ c.powerdownReady
        /\ c.state = cp.state /\ c.oneshotArmed = cp.oneshotArmed
    BY <1>1 DEF CpRecord
  <2>2. /\ cp' = TryPowerdown(c) /\ UNCHANGED <<shared, wire>>
        /\ TakeReport({"POWERDOWN_READY"})
    BY <1>9 DEF PowerdownReady
  <2> HIDE DEF c
  <2> QED
    BY <1>2, <2>1, <2>2, TryWays DEF Heard, Noted
<1>10. CASE MotionDetected
  <2>1. /\ cp' = [cp EXCEPT !.abortingJob = TRUE] /\ UNCHANGED <<shared, wire>>
        /\ TakeReport({"MOTION_DETECTED"})
    BY <1>10 DEF MotionDetected
  <2>2. /\ SamePower(cp, cp') /\ cp'.detectArmed = cp.detectArmed
        /\ cp'.workComplete = cp.workComplete
        /\ cp'.state = cp.state /\ cp'.oneshotArmed = cp.oneshotArmed
    BY <1>1, <2>1 DEF CpRecord, SamePower
  <2> QED
    BY <1>2, <2>1, <2>2 DEF Heard, Noted, SamePower
<1>11. CASE ApError
  <2> DEFINE c == [cp EXCEPT !.abortingJob = TRUE, !.workComplete = TRUE]
  <2>1. /\ c \in CpRecord /\ SamePower(cp, c) /\ c.detectArmed = cp.detectArmed
        /\ c.workComplete /\ c.state = cp.state /\ c.oneshotArmed = cp.oneshotArmed
    BY <1>1 DEF CpRecord, SamePower
  <2>2. /\ cp' = TryPowerdown(c) /\ UNCHANGED <<shared, wire>>
        /\ TakeReport({"ERROR"})
    BY <1>11 DEF ApError
  <2> HIDE DEF c
  <2> QED
    BY <1>2, <2>1, <2>2, TryWays DEF Heard, Noted, SamePower
<1> QED
  BY <1>3, <1>4, <1>5, <1>6, <1>7, <1>8, <1>9, <1>10, <1>11 DEF HandleReport

\* Every step of the CP.
CpWays == (Launched \/ Completed \/ Handled \/ Heard \/ Inserted) /\ ap' = ap

LEMMA CpStepWays ==
    ASSUME Typed, \/ CpStep
                  \/ (ProductEvent \/ WifiCommand) /\ UNCHANGED ap
    PROVE  CpWays
BY EventWays, ReportWays, InputWays DEF CpStep, CpWays

-----------------------------------------------------------------------------
(* What the AP's steps do to the job, to its outcome and to the picture.   *)

Silently == queue' = queue /\ wire' = wire /\ lost' = lost
Copied == /\ shared'.seq = shared.seq /\ shared'.valid = shared.valid
          /\ shared'.described = shared.described /\ shared'.buffer = ap.cur
SameOutcome == ap'.job = ap.job /\ ap'.seen = ap.seen /\ ap'.failed = ap.failed

\* The job ends where it starts: there is none to run, or no QR camera.
DispatchFails ==
    ap.job \notin Handed \/ ("camera" \in Faults /\ ap.job = "QR_PROVISION")

\* From pc to another without a report.
Paths ==
    \/ ap'.pc = ap.pc /\ ap'.cur = ap.cur /\ shared' = shared
    \/ ap.pc = "dispatch" /\ ap'.pc \in {"idle", "capture"} /\ shared' = shared
    \/ /\ ap.pc = "dispatch" /\ ap'.pc = "failing" /\ shared' = shared
       /\ DispatchFails
    \/ /\ ap.pc = "capture" /\ shared' = shared
       /\ ap'.pc = IF shared.valid THEN "compare" ELSE "second"
    \/ ap.pc \in {"second", "advance"} /\ ap'.pc = "compare" /\ Copied
    \/ /\ ap.pc \in {"capture", "second", "compare", "advance"} /\ ap'.pc = "failing"
       /\ "camera" \in Faults
       /\ shared' = shared \/ (ap.pc \in {"second", "advance"} /\ Copied)
    \/ ap.pc = "compare" /\ ap'.pc \in {"advance", "save"} /\ shared' = shared
    \/ ap.pc = "save" /\ ap'.pc = "lastGray" /\ ap'.cur = ap.cur /\ Copied
    \/ ap.pc = "abort" /\ ap'.pc = "ready" /\ shared' = shared

Walks ==
    /\ Silently
    /\ ap'.seen = ap.seen \/ (ap.pc = "compare" /\ ap'.seen)
    /\ ap'.failed = ap.failed
    /\ \/ ap.pc = "query" /\ ap'.pc \in {"hello", "idle"} /\ shared' = shared
       \/ ap'.job = ap.job /\ Paths
       \/ /\ ap.pc = "idle" /\ ap'.pc = "capture" /\ shared' = shared
          /\ ap.job = "WIFI_CONNECT" /\ ap'.job = "MOTION_CHECK"

\* What is reported on the way from pc to another.
Says(rid, f) ==
    \/ rid = "BOOT_READY" /\ ap.pc = "hello" /\ ap'.pc = "dispatch" /\ SameOutcome
    \/ /\ rid = "MOTION_DETECTED" /\ ap.pc = "compare" /\ ap'.pc = "advance"
       /\ ap'.seen /\ ap'.failed = ap.failed /\ ap'.job = ap.job
    \/ /\ rid = "LAST_GRAY_READY" /\ ap.pc = "lastGray" /\ ap'.pc = "ready"
       /\ f = ap.cur /\ SameOutcome
    \/ /\ rid = "ERROR" /\ ap.pc = "failing" /\ ap'.pc = "abort"
       /\ ap'.failed /\ ap'.seen = ap.seen /\ ap'.job = ap.job
    \/ /\ rid = "POWERDOWN_READY" /\ ap.pc = "ready" /\ SameOutcome
       /\ ap'.pc = IF ap.failed THEN "done" ELSE "final"
    \/ /\ rid \in {"NO_MOTION", "EVENT_DONE"} /\ ap.pc = "final" /\ ap'.pc = "done"
       /\ SameOutcome
    \/ /\ rid \in {"WIFI_CONNECTED", "WIFI_CONNECT_FAILED"}
       /\ ap.job = "WIFI_CONNECT" /\ ap'.pc = ap.pc /\ ap'.cur = ap.cur /\ SameOutcome
    \/ /\ rid = "WIFI_CONNECTED" /\ "QR_DONE" \in Inputs
       /\ ap.pc \in {"idle", "done"} /\ ap'.pc \in {"idle", "capture"}
       /\ ap.job \in Handed /\ ap'.seen = ap.seen /\ ~ap'.failed

Speaks ==
    \E rid \in ReportIds, f \in Picture :
        /\ SendReport(Report(rid, ap.seq, f)) /\ shared' = shared
        /\ Says(rid, f)

ApWays == Walks \/ Speaks

\* The job's own record after a step of the thread that runs it.
SameBut(a) ==
    /\ a.job = ap.job /\ a.seq = ap.seq /\ a.seen = ap.seen /\ a.failed = ap.failed

LEMMA GotoWays ==
    ASSUME ap \in ApRecord
    PROVE  \A pc \in Pcs : /\ SameBut(Goto(pc)) /\ Goto(pc).pc = pc
                           /\ Goto(pc).cur = ap.cur
BY DEF Goto, ApRecord, SameBut

LEMMA CaptureWays ==
    ASSUME ap \in ApRecord, NEW pc \in Pcs
    PROVE  \A b \in Captures(ap, pc) :
               /\ SameBut(b)
               /\ b.pc = pc \/ (b.pc = "failing" /\ "camera" \in Faults)
<1> SUFFICES ASSUME NEW b \in Captures(ap, pc)
             PROVE  SameBut(b) /\ (b.pc = pc \/ (b.pc = "failing" /\ "camera" \in Faults))
  OBVIOUS
<1>1. CASE \E f \in Frames : b = [ap EXCEPT !.pc = pc, !.cur = f, !.camera = TRUE]
  BY <1>1, ZenonT(60) DEF ApRecord, SameBut
<1>2. CASE b = [ap EXCEPT !.pc = "failing", !.camera = TRUE] /\ "camera" \in Faults
  BY <1>2 DEF ApRecord, SameBut
<1> QED
  BY <1>1, <1>2 DEF Captures, Fails

LEMMA StopWays ==
    ASSUME ap \in ApRecord, NEW pc \in Pcs
    PROVE  \A b \in StopAll(Goto(pc)) : SameBut(b) /\ b.pc = pc /\ b.cur = ap.cur
<1> DEFINE a == Goto(pc)
<1>1. SameBut(a) /\ a.pc = pc /\ a.cur = ap.cur
  BY GotoWays
<1>2. a \in ApRecord
  BY DEF Goto, ApRecord
<1>3. \A b \in StopAll(a) : b = a \/ b = [a EXCEPT !.camera = FALSE]
  BY DEF StopAll
<1> HIDE DEF a
<1> QED
  BY <1>1, <1>2, <1>3 DEF a, SameBut, ApRecord

LEMMA JobWays ==
    ASSUME Typed, ApInv, JobStep
    PROVE  ApWays
<1>1. ap \in ApRecord /\ shared \in Shared /\ NoFrame \in Picture /\ ap.cur \in Picture
  BY DEF Typed, ApInv, ApTypeOK, ApRecord, Picture
<1>2. ASSUME UNCHANGED ipcVars
      PROVE  Silently /\ shared' = shared
  BY <1>2 DEF ipcVars, Silently
<1>3. ASSUME shared' = [shared EXCEPT !.buffer = ap.cur]
      PROVE  Copied
  BY <1>1, <1>3 DEF Shared, Copied
<1>4. ASSUME SameBut(ap'), Silently, Paths PROVE ApWays
  BY <1>4 DEF SameBut, ApWays, Walks
<1>5. ASSUME NEW rid \in ReportIds, NEW f \in Picture, Tell(rid, f), Says(rid, f)
      PROVE  ApWays
  BY <1>5 DEF Tell, ApWays, Speaks
<1>6. CASE QueryEnv
  <2>1. /\ ap.pc = "query" /\ Silently /\ shared' = shared
    BY <1>2, <1>6 DEF QueryEnv
  <2>2. \/ ap' = [ap EXCEPT !.pc = "hello", !.seq = shared.seq, !.job = shared.job]
        \/ ap' = Goto("idle")
    BY <1>6 DEF QueryEnv
  <2>3. /\ ap'.pc \in {"hello", "idle"}
        /\ ap'.seen = ap.seen /\ ap'.failed = ap.failed
    <3>1. CASE ap' = [ap EXCEPT !.pc = "hello", !.seq = shared.seq, !.job = shared.job]
      BY <1>1, <3>1 DEF ApRecord
    <3>2. CASE ap' = Goto("idle")
      BY <1>1, <3>2, GotoWays DEF Pcs, SameBut
    <3> QED
      BY <2>2, <3>1, <3>2
  <2> QED
    BY <2>1, <2>3 DEF ApWays, Walks
<1>7. CASE Hello
  <2>1. /\ ap.pc = "hello" /\ ap'.pc = "dispatch" /\ SameBut(ap')
        /\ Tell("BOOT_READY", NoFrame)
    BY <1>1, <1>7, GotoWays DEF Hello, Pcs
  <2>2. Says("BOOT_READY", NoFrame) /\ "BOOT_READY" \in ReportIds
    BY <2>1 DEF Says, SameOutcome, SameBut, ReportIds
  <2> QED
    BY <1>1, <1>5, <2>1, <2>2
<1>8. CASE Dispatch
  <2>1. ap.pc = "dispatch" /\ Silently /\ shared' = shared
    BY <1>2, <1>8 DEF Dispatch
  <2>2. \/ ap' = [ap EXCEPT !.pc = "idle", !.camera = TRUE]
        \/ ap' \in {Goto("idle"), Goto("capture")}
        \/ ap' = Goto("failing") /\ DispatchFails
    BY <1>8 DEF Dispatch, Fails, DispatchFails, Handed
  <2>3. /\ SameBut(ap')
        /\ \/ ap'.pc \in {"idle", "capture"}
           \/ ap'.pc = "failing" /\ DispatchFails
    <3>1. CASE ap' = [ap EXCEPT !.pc = "idle", !.camera = TRUE]
      BY <1>1, <3>1 DEF ApRecord, SameBut
    <3>2. CASE ap' \in {Goto("idle"), Goto("capture")}
      BY <1>1, <3>2, GotoWays DEF Pcs
    <3>3. CASE ap' = Goto("failing") /\ DispatchFails
      BY <1>1, <3>3, GotoWays DEF Pcs
    <3> QED
      BY <2>2, <3>1, <3>2, <3>3
  <2> QED
    BY <1>4, <2>1, <2>3 DEF Paths
<1>9. CASE Capture
  <2>1. ap.pc = "capture" /\ Silently /\ shared' = shared
    BY <1>2, <1>9 DEF Capture
  <2> DEFINE to == IF shared.valid THEN "compare" ELSE "second"
  <2>2. to \in Pcs /\ ap' \in Captures(ap, to)
    BY <1>9 DEF Capture, Pcs
  <2>3. SameBut(ap') /\ (ap'.pc = to \/ (ap'.pc = "failing" /\ "camera" \in Faults))
    BY <1>1, <2>2, CaptureWays
  <2> QED
    BY <1>4, <2>1, <2>3 DEF Paths
<1>10. CASE SecondSample \/ Advance
  <2>1. ap.pc \in {"second", "advance"} /\ Silently /\ Copied
    BY <1>3, <1>10 DEF SecondSample, Advance, Silently
  <2>2. "compare" \in Pcs /\ ap' \in Captures(ap, "compare")
    BY <1>10 DEF SecondSample, Advance, Pcs
  <2>3. SameBut(ap') /\ (ap'.pc = "compare" \/ (ap'.pc = "failing" /\ "camera" \in Faults))
    BY <1>1, <2>2, CaptureWays
  <2> QED
    BY <1>4, <2>1, <2>3 DEF Paths
<1>11. CASE CompareFails
  <2>1. /\ ap.pc = "compare" /\ "camera" \in Faults /\ Silently /\ shared' = shared
        /\ SameBut(ap') /\ ap'.pc = "failing"
    BY <1>1, <1>2, <1>11, GotoWays DEF CompareFails, Fails, Pcs
  <2> QED
    BY <1>4, <2>1 DEF Paths
<1>12. CASE SeesMotion
  <2>1. ap' = [ap EXCEPT !.pc = "advance", !.quiet = 0, !.seen = TRUE, !.stir = @ + 1]
    BY <1>12 DEF SeesMotion
  <2>2. /\ ap.pc = "compare" /\ ap'.pc = "advance" /\ ap'.seen
        /\ ap'.failed = ap.failed /\ ap'.job = ap.job
    BY <1>1, <1>12, <2>1 DEF SeesMotion, ApRecord
  <2>3. CASE Silently /\ shared' = shared
    BY <2>2, <2>3 DEF ApWays, Walks, Paths
  <2>4. CASE Tell("MOTION_DETECTED", NoFrame)
    <3>1. Says("MOTION_DETECTED", NoFrame) /\ "MOTION_DETECTED" \in ReportIds
      BY <2>2 DEF Says, ReportIds
    <3> QED
      BY <1>1, <1>5, <2>4, <3>1
  <2> QED
    BY <1>2, <1>12, <2>3, <2>4 DEF SeesMotion
<1>13. CASE SeesNoMotion
  <2>1. ap.pc = "compare" /\ Silently /\ shared' = shared
    BY <1>2, <1>13 DEF SeesNoMotion
  <2>2. \/ ap' = Goto("save")
        \/ \E pc \in {"save", "advance"} :
              ap' = [ap EXCEPT !.quiet = ap.quiet + 1, !.pc = pc]
    BY <1>13 DEF SeesNoMotion
  <2>3. ap'.pc \in {"save", "advance"} /\ SameBut(ap')
    <3>1. CASE ap' = Goto("save")
      BY <1>1, <3>1, GotoWays DEF Pcs
    <3>2. CASE \E pc \in {"save", "advance"} :
                  ap' = [ap EXCEPT !.quiet = ap.quiet + 1, !.pc = pc]
      BY <1>1, <3>2, ZenonT(60) DEF ApRecord, SameBut
    <3> QED
      BY <2>2, <3>1, <3>2
  <2> QED
    BY <1>4, <2>1, <2>3 DEF Paths
<1>14. CASE SaveGrayAndStop
  <2>1. ap.pc = "save" /\ Silently /\ Copied
    BY <1>3, <1>14 DEF SaveGrayAndStop, Silently
  <2>2. SameBut(ap') /\ ap'.pc = "lastGray" /\ ap'.cur = ap.cur
    BY <1>1, <1>14, StopWays DEF SaveGrayAndStop, Pcs
  <2> QED
    BY <1>4, <2>1, <2>2 DEF Paths
<1>15. CASE AbortStop
  <2>1. ap.pc = "abort" /\ Silently /\ shared' = shared
    BY <1>2, <1>15 DEF AbortStop
  <2>2. SameBut(ap') /\ ap'.pc = "ready"
    BY <1>1, <1>15, StopWays DEF AbortStop, Pcs
  <2> QED
    BY <1>4, <2>1, <2>2 DEF Paths
<1>16. CASE SendLastGray
  <2>1. /\ ap.pc = "lastGray" /\ ap'.pc = "ready" /\ SameBut(ap')
        /\ Tell("LAST_GRAY_READY", ap.cur)
    BY <1>1, <1>16, GotoWays DEF SendLastGray, Pcs
  <2>2. Says("LAST_GRAY_READY", ap.cur) /\ "LAST_GRAY_READY" \in ReportIds
    BY <2>1 DEF Says, SameOutcome, SameBut, ReportIds
  <2> QED
    BY <1>1, <1>5, <2>1, <2>2
<1>17. CASE SendError
  <2>1. ap' = [ap EXCEPT !.pc = "abort", !.failed = TRUE]
    BY <1>17 DEF SendError
  <2>2. /\ ap.pc = "failing" /\ ap'.pc = "abort" /\ ap'.failed
        /\ ap'.seen = ap.seen /\ ap'.job = ap.job
    BY <1>1, <1>17, <2>1 DEF SendError, ApRecord
  <2>3. Tell("ERROR", NoFrame) /\ Says("ERROR", NoFrame) /\ "ERROR" \in ReportIds
    BY <1>17, <2>2 DEF SendError, Says, ReportIds
  <2> QED
    BY <1>1, <1>5, <2>3
<1>18. CASE SendPowerdownReady
  <2>1. /\ ap.pc = "ready" /\ ap'.pc = (IF ap.failed THEN "done" ELSE "final")
        /\ SameBut(ap') /\ Tell("POWERDOWN_READY", NoFrame)
    BY <1>1, <1>18, GotoWays DEF SendPowerdownReady, Pcs
  <2>2. Says("POWERDOWN_READY", NoFrame) /\ "POWERDOWN_READY" \in ReportIds
    BY <2>1 DEF Says, SameOutcome, SameBut, ReportIds
  <2> QED
    BY <1>1, <1>5, <2>1, <2>2
<1>19. CASE SendFinal
  <2>1. PICK rid \in {"NO_MOTION", "EVENT_DONE"} : Tell(rid, NoFrame)
    BY <1>19 DEF SendFinal
  <2>2. ap.pc = "final" /\ ap'.pc = "done" /\ SameBut(ap')
    BY <1>1, <1>19, GotoWays DEF SendFinal, Pcs
  <2>3. Says(rid, NoFrame) /\ rid \in ReportIds
    BY <2>1, <2>2 DEF Says, SameOutcome, SameBut, ReportIds
  <2> QED
    BY <1>1, <1>5, <2>1, <2>3
<1> QED
  BY <1>6, <1>7, <1>8, <1>9, <1>10, <1>11, <1>12, <1>13, <1>14, <1>15, <1>16,
     <1>17, <1>18, <1>19 DEF JobStep

LEMMA WifiWays ==
    ASSUME Typed, ApInv, WifiStep \/ ("QR_DONE" \in Inputs /\ CompleteQr)
    PROVE  ApWays
<1>1. ap \in ApRecord /\ NoFrame \in Picture
  BY DEF ApInv, ApTypeOK, Picture
<1>2. {"WIFI_CONNECTED", "WIFI_CONNECT_FAILED"} \subseteq ReportIds
  BY DEF ReportIds
\* A step that changes neither the job nor its progress.
<1>3. ASSUME SameBut(ap'), ap'.pc = ap.pc, ap'.cur = ap.cur, shared' = shared,
             \/ Silently
             \/ /\ ap.job = "WIFI_CONNECT"
                /\ \E rid \in {"WIFI_CONNECTED", "WIFI_CONNECT_FAILED"} :
                      SendReport(Report(rid, ap.seq, NoFrame))
      PROVE  ApWays
  <2>1. CASE Silently
    BY <1>3, <2>1 DEF ApWays, Walks, Paths, SameBut
  <2>2. CASE /\ ap.job = "WIFI_CONNECT"
             /\ \E rid \in {"WIFI_CONNECTED", "WIFI_CONNECT_FAILED"} :
                   SendReport(Report(rid, ap.seq, NoFrame))
    <3>1. PICK rid \in {"WIFI_CONNECTED", "WIFI_CONNECT_FAILED"} :
              SendReport(Report(rid, ap.seq, NoFrame))
      BY <2>2
    <3>2. Says(rid, NoFrame)
      BY <1>3, <2>2 DEF Says, SameOutcome, SameBut
    <3> QED
      BY <1>1, <1>2, <1>3, <3>1, <3>2 DEF ApWays, Speaks
  <2> QED
    BY <1>3, <2>1, <2>2
<1>4. CASE WifiRequest
  <2>1. ap' = [ap EXCEPT !.wifiQ = WifiPush(@, "connect")]
    BY <1>4 DEF WifiRequest
  <2>2. SameBut(ap') /\ ap'.pc = ap.pc /\ ap'.cur = ap.cur
    BY <1>1, <2>1 DEF ApRecord, SameBut
  <2>3. /\ shared' = shared
        /\ \/ Silently
           \/ /\ ap.job = "WIFI_CONNECT"
              /\ SendReport(Report("WIFI_CONNECT_FAILED", ap.seq, NoFrame))
    BY <1>4 DEF WifiRequest, WaitsForWifi, Silently
  <2> QED
    BY <1>3, <2>2, <2>3
<1>5. CASE WifiConnect
  <2>1. ap' = [ap EXCEPT !.wifiQ = Tail(@), !.connecting = TRUE]
    BY <1>5 DEF WifiConnect
  <2>2. SameBut(ap') /\ ap'.pc = ap.pc /\ ap'.cur = ap.cur
    BY <1>1, <2>1 DEF ApRecord, SameBut
  <2> QED
    BY <1>3, <1>5, <2>2 DEF WifiConnect, ipcVars, Silently
<1>6. CASE WifiMotion
  <2> DEFINE q == Tail(ap.wifiQ)
  <2>1. ap' = IF ReadyForMotion
              THEN [ap EXCEPT !.wifiQ = q, !.job = "MOTION_CHECK",
                              !.pc = "capture", !.runner = "worker"]
              ELSE [ap EXCEPT !.wifiQ = q]
    BY <1>6 DEF WifiMotion
  <2>2. shared' = shared /\ Silently
    BY <1>6 DEF WifiMotion, ipcVars, Silently
  <2> HIDE DEF q
  <2>3. CASE ReadyForMotion
    <3>1. ap.pc = "idle" /\ ap.job = "WIFI_CONNECT"
      BY <2>3 DEF ReadyForMotion, WaitsForWifi
    <3>2. /\ ap'.pc = "capture" /\ ap'.job = "MOTION_CHECK"
          /\ ap'.seen = ap.seen /\ ap'.failed = ap.failed
      BY <1>1, <2>1, <2>3 DEF ApRecord
    <3> QED
      BY <2>2, <3>1, <3>2 DEF ApWays, Walks
  <2>4. CASE ~ReadyForMotion
    <3>1. SameBut(ap') /\ ap'.pc = ap.pc /\ ap'.cur = ap.cur
      BY <1>1, <2>1, <2>4 DEF ApRecord, SameBut
    <3> QED
      BY <1>3, <2>2, <3>1
  <2> QED
    BY <2>3, <2>4
<1>7. CASE WifiDown
  <2>1. ap' = [ap EXCEPT !.connecting = FALSE]
    BY <1>7 DEF WifiDown
  <2>2. SameBut(ap') /\ ap'.pc = ap.pc /\ ap'.cur = ap.cur
    BY <1>1, <2>1 DEF ApRecord, SameBut
  <2>3. /\ shared' = shared
        /\ \/ Silently
           \/ /\ ap.job = "WIFI_CONNECT"
              /\ SendReport(Report("WIFI_CONNECT_FAILED", ap.seq, NoFrame))
    BY <1>7 DEF WifiDown, WaitsForWifi, Tell, ipcVars, Silently
  <2> QED
    BY <1>3, <2>2, <2>3
<1>8. CASE WifiUp
  <2> DEFINE q == WifiPush(ap.wifiQ, "motion")
  <2>1. \/ ap' = [ap EXCEPT !.connecting = FALSE, !.wifiQ = q]
        \/ ap' = [ap EXCEPT !.connecting = FALSE]
    BY <1>8 DEF WifiUp
  <2> HIDE DEF q
  <2>2. SameBut(ap') /\ ap'.pc = ap.pc /\ ap'.cur = ap.cur
    BY <1>1, <2>1 DEF ApRecord, SameBut
  <2>3. /\ shared' = shared
        /\ \/ Silently
           \/ /\ ap.job = "WIFI_CONNECT"
              /\ SendReport(Report("WIFI_CONNECTED", ap.seq, NoFrame))
    BY <1>8 DEF WifiUp, WaitsForWifi, SendReport, Silently
  <2> QED
    BY <1>3, <2>2, <2>3
<1>9. CASE "QR_DONE" \in Inputs /\ CompleteQr
  <2> DEFINE a == [ap EXCEPT !.job = "WIFI_CONNECT", !.pc = "idle",
                             !.camera = FALSE, !.failed = FALSE]
             r == Report("WIFI_CONNECTED", ap.seq, NoFrame)
  <2>1. /\ ap.pc \in {"idle", "done"} /\ ap.job \in Handed
        /\ shared' = shared /\ SendReport(r)
    BY <1>9 DEF CompleteQr, SendReport, Handed
  <2>2. \/ ap' = [a EXCEPT !.job = "MOTION_CHECK", !.pc = "capture",
                           !.runner = "main"]
        \/ ap' = a
    BY <1>9 DEF CompleteQr
  <2>3. a \in ApRecord /\ a.pc = "idle" /\ a.seen = ap.seen /\ ~a.failed
    BY <1>1 DEF ApRecord, Jobs, Pcs
  <2> HIDE DEF a
  <2>4. ap'.pc \in {"idle", "capture"} /\ ap'.seen = ap.seen /\ ~ap'.failed
    BY <2>2, <2>3 DEF ApRecord
  <2>5. Says("WIFI_CONNECTED", NoFrame)
    BY <1>9, <2>1, <2>4 DEF Says
  <2> QED
    BY <1>1, <1>2, <2>1, <2>5 DEF ApWays, Speaks
<1> QED
  BY <1>4, <1>5, <1>6, <1>7, <1>8, <1>9 DEF WifiStep, WifiWorker

\* The steps of the system, sorted by who takes them.
LEMMA SortedWays ==
    ASSUME Typed, ApInv, Next
    PROVE  \/ CpWays /\ CpMoves
           \/ ApWays /\ ApMoves /\ cp' = cp
           \/ PowerOn \/ PowerCut \/ Restart \/ (Transport /\ UNCHANGED <<cp, ap>>)
<1>1. CASE CpStep \/ ((ProductEvent \/ WifiCommand) /\ UNCHANGED ap)
  BY <1>1, CpStepWays, CpStepMoves
<1>2. CASE ApStep
  BY <1>2, JobMoves, WifiMoves, JobWays, WifiWays DEF ApStep
<1>3. CASE "QR_DONE" \in Inputs /\ CompleteQr /\ UNCHANGED <<device, cp>>
  BY <1>3, WifiMoves, WifiWays
<1>4. CASE Transport
  BY <1>4 DEF Transport
<1> QED
  BY <1>1, <1>2, <1>3, <1>4 DEF Next, UserStep

-----------------------------------------------------------------------------
(* The detect alarm.                                                       *)

LEMMA PhaseStep ==
    ASSUME "crash" \notin Faults
    PROVE  Typed /\ [Next]_vars => (cp.detectArmed => cp'.detectArmed)
<1> SUFFICES ASSUME Typed, [Next]_vars, cp.detectArmed PROVE cp'.detectArmed
  OBVIOUS
<1>1. ASSUME CpWays PROVE cp'.detectArmed
  BY <1>1 DEF CpWays, Launched, Completed, Handled, Heard, Inserted
<1>2. CASE CpStep
  BY <1>1, <1>2, CpStepWays
<1>3. CASE UserStep
  BY <1>1, <1>3, CpStepWays DEF UserStep
<1>4. CASE ApStep \/ PowerOn \/ PowerCut \/ Transport \/ UNCHANGED vars
  BY <1>4 DEF ApStep, PowerOn, PowerCut, Transport, cpVars, vars
<1>5. ~Restart
  BY DEF Restart
<1> QED
  BY <1>2, <1>3, <1>4, <1>5 DEF Next

\* aov_cp_arm_detect_rtc: short of a restart, no job, no report and no refused
\* vote cancels the detect alarm once it has been registered.
THEOREM PhaseKept ==
    ASSUME "crash" \notin Faults
    PROVE  Spec => DetectPhaseKept
<1>1. Typed /\ [Next]_vars => [cp.detectArmed => cp'.detectArmed]_cp
  BY PhaseStep
<1> QED
  BY <1>1, TypedAlways, PTL DEF Spec, DetectPhaseKept

\* How the steps of the CP move the queue, element by element.
LEMMA WaysShift ==
    ASSUME Typed, CpWays
    PROVE  /\ Launched \/ Completed \/ Handled => \A S : Shifts(1, S)
           /\ Heard => \E id \in {"WIFI_CONNECT_FAIL", "WIFI_CONNECTED"} :
                 /\ Shifts(1, {Plain(id)})
                 /\ id = "WIFI_CONNECTED" =>
                       /\ Head(queue).seq = cp.activeSeq
                       /\ cp'.returnState = "CLOUD_REGISTERING"
           /\ Inserted => \E id \in Inserts : Shifts(0, {Plain(id)})
           /\ ~Inserted => queue # <<>>
<1>1. Launched \/ Completed \/ Handled => \A S : Shifts(1, S)
  BY TailShifts DEF Launched, Completed, Handled, Taken
<1>2. Heard => \E id \in {"WIFI_CONNECT_FAIL", "WIFI_CONNECTED"} :
                 /\ Shifts(1, {Plain(id)})
                 /\ id = "WIFI_CONNECTED" =>
                       /\ Head(queue).seq = cp.activeSeq
                       /\ cp'.returnState = "CLOUD_REGISTERING"
  BY TailShifts, TailPushShifts DEF Heard
<1>3. Inserted => \E id \in Inserts : Shifts(0, {Plain(id)})
  <2>1. "BOOT" \in Inserts
    BY DEF Inserts, PlainEvents
  <2> QED
    BY <2>1, KeepShifts, PushShifts DEF Inserted
<1>4. ~Inserted => queue # <<>>
  BY DEF CpWays, Launched, Completed, Handled, Heard, Taken
<1> QED
  BY <1>1, <1>2, <1>3, <1>4

LEMMA DetectCp ==
    ASSUME Typed, Typed', JobInv, DetectInv, CpWays, "pm" \notin Faults
    PROVE  DetectInv'
<1>1. Len(queue) \in Nat /\ Len(queue') \in Nat
  BY DEF Typed, Queues
<1>2. queue # <<>> => 1 \in 1 .. Len(queue) /\ Head(queue) = queue[1]
  BY <1>1 DEF Typed, Queues
<1>3. /\ DetectionArmed
      /\ \A i \in 1 .. Len(queue) :
            queue[i].id = "WIFI_CONNECTED" => cp.detectArmed \/ ReturnsToDetect
  BY DEF DetectInv
<1>4. ASSUME NEW k \in {0, 1}, NEW e, Shifts(k, {e}),
             e.id # "WIFI_CONNECTED" \/ ReturnsToDetect',
             cp.detectArmed \/ ReturnsToDetect => cp'.detectArmed \/ ReturnsToDetect',
             DetectionArmed'
      PROVE  DetectInv'
  <2> SUFFICES ASSUME NEW i \in 1 .. Len(queue'), queue'[i].id = "WIFI_CONNECTED"
               PROVE  cp'.detectArmed \/ ReturnsToDetect'
    BY <1>4 DEF DetectInv
  <2>1. \/ i + k \in 1 .. Len(queue) /\ queue'[i] = queue[i + k]
        \/ queue'[i] = e
    BY <1>1, <1>4, OldOrNew
  <2> QED
    BY <1>3, <1>4, <2>1
<1>5. CASE Launched
  <2>1. cp.detectArmed \/ ReturnsToDetect => cp'.detectArmed
    BY <1>5 DEF Launched, ReturnsToDetect
  <2>2. DetectionArmed'
    BY <1>5 DEF Launched, DetectionArmed
  <2>4. Shifts(1, {Plain("BOOT")}) /\ Plain("BOOT").id # "WIFI_CONNECTED"
    BY <1>5, WaysShift DEF Plain
  <2> QED
    BY <1>4, <2>1, <2>2, <2>4
<1>6. CASE Completed
  <2>1. cp.detectArmed \/ ReturnsToDetect => cp'.detectArmed
    BY <1>6 DEF Completed, ReturnsToDetect
  <2>2. DetectionArmed'
    BY <1>6 DEF Completed, DetectionArmed
  <2>4. Shifts(1, {Plain("BOOT")}) /\ Plain("BOOT").id # "WIFI_CONNECTED"
    BY <1>6, WaysShift DEF Plain
  <2> QED
    BY <1>4, <2>1, <2>2, <2>4
<1>7. CASE Handled
  <2>1. cp.detectArmed \/ ReturnsToDetect => cp'.detectArmed \/ ReturnsToDetect'
    BY <1>7 DEF Handled, ReturnsToDetect
  <2>2. Head(queue).id = "WIFI_CONNECTED" => cp.detectArmed \/ cp.apVoteOn
    BY <1>2, <1>3, <1>7 DEF Handled, Taken, ReturnsToDetect
  <2>3. DetectionArmed'
    BY <1>3, <1>7, <2>2 DEF Handled, DetectionArmed
  <2>4. Shifts(1, {Plain("BOOT")}) /\ Plain("BOOT").id # "WIFI_CONNECTED"
    BY <1>7, WaysShift DEF Plain
  <2> QED
    BY <1>4, <2>1, <2>3, <2>4
<1>8. CASE Heard
  <2>1. Head(queue).seq = cp.activeSeq => cp.apVoteOn
    BY <1>2, <1>8 DEF Heard, JobInv, ReportsCurrent
  <2>2. cp.detectArmed \/ ReturnsToDetect => cp'.detectArmed \/ ReturnsToDetect'
    BY <1>8 DEF Heard, ReturnsToDetect
  <2>3. DetectionArmed'
    BY <1>3, <1>8 DEF Heard, DetectionArmed
  <2>4. PICK id \in {"WIFI_CONNECT_FAIL", "WIFI_CONNECTED"} :
            /\ Shifts(1, {Plain(id)})
            /\ id = "WIFI_CONNECTED" =>
                  /\ Head(queue).seq = cp.activeSeq
                  /\ cp'.returnState = "CLOUD_REGISTERING"
    BY <1>8, WaysShift
  <2>5. Plain(id).id = "WIFI_CONNECTED" => ReturnsToDetect'
    BY <1>8, <2>1, <2>4 DEF Plain, Heard, ReturnsToDetect
  <2> QED
    BY <1>4, <2>2, <2>3, <2>4, <2>5
<1>9. CASE Inserted
  <2>1. cp.detectArmed \/ ReturnsToDetect => cp'.detectArmed \/ ReturnsToDetect'
    BY <1>9 DEF Inserted, SameJob, SamePower, ReturnsToDetect
  <2>2. DetectionArmed'
    BY <1>3, <1>9 DEF Inserted, SameJob, SamePower, DetectionArmed
  <2>3. PICK id \in Inserts : Shifts(0, {Plain(id)})
    BY <1>9, WaysShift
  <2>4. Plain(id).id # "WIFI_CONNECTED"
    BY <2>3 DEF Plain, Inserts
  <2> QED
    BY <1>4, <2>1, <2>2, <2>3, <2>4
<1> QED
  BY <1>5, <1>6, <1>7, <1>8, <1>9 DEF CpWays

\* Everything else at most appends an event that DetectInv does not speak of.
LEMMA DetectOther ==
    ASSUME Typed, Typed', DetectInv, cp' = cp,
           \/ queue' = queue
           \/ \E e : Shifts(0, {e}) /\ e.id # "WIFI_CONNECTED"
    PROVE  DetectInv'
<1>1. Len(queue) \in Nat /\ Len(queue') \in Nat
  BY DEF Typed, Queues
<1>2. \A i \in 1 .. Len(queue') :
          \/ i \in 1 .. Len(queue) /\ queue'[i] = queue[i]
          \/ queue'[i].id # "WIFI_CONNECTED"
  BY <1>1 DEF Shifts
<1> QED
  BY <1>2 DEF DetectInv, DetectionArmed, ReturnsToDetect

LEMMA DetectStep ==
    ASSUME "pm" \notin Faults
    PROVE  Typed /\ ApInv /\ Typed' /\ JobInv /\ DetectInv /\ [Next]_vars => DetectInv'
<1> SUFFICES ASSUME Typed, ApInv, Typed', JobInv, DetectInv, [Next]_vars
             PROVE  DetectInv'
  OBVIOUS
<1>1. CASE CpWays
  BY <1>1, DetectCp
<1>2. CASE ApMoves /\ cp' = cp
  <2>1. \A rid, f : Report(rid, ap.seq, f).id = "AP_REPORT"
    BY DEF Report
  <2> QED
    BY <1>2, <2>1, ApShifts, DetectOther DEF ApMoves
<1>3. CASE PowerOn \/ UNCHANGED vars
  BY <1>3, DetectOther DEF PowerOn, cpVars, ipcVars, vars
<1>4. CASE PowerCut
  <2>1. Shifts(0, {Plain("AP_POWERED_OFF")}) /\ cp' = cp
    BY <1>4, PushShifts DEF PowerCut, Post, PostTo
  <2>2. Plain("AP_POWERED_OFF").id # "WIFI_CONNECTED"
    BY DEF Plain
  <2> QED
    BY <2>1, <2>2, DetectOther
<1>5. CASE Restart
  BY <1>5 DEF Restart, CpReset, Plain, DetectInv, DetectionArmed
<1>6. ~Transport
  BY DEF JobInv, Transport, LateArrival
<1> QED
  BY <1>1, <1>2, <1>3, <1>4, <1>5, <1>6, SortedWays

\* aov_cp_complete_ap_powerdown and aov_cp_handle_event: in whatever order
\* registrations, reports and power-off come, once the product is connected or
\* registering and the AP is down, the alarm that wakes it again is registered.
\* The alarm must be available, for nobody tries again when it is not.
THEOREM DetectionSafe ==
    ASSUME "pm" \notin Faults, "late" \notin Faults
    PROVE  Spec => []DetectionArmed
<1>1. Init => DetectInv
  BY DEF Init, CpInit, IpcInit, CpReset, Plain, DetectInv, DetectionArmed
<1>2. Typed /\ ApInv /\ Typed' /\ JobInv /\ DetectInv /\ [Next]_vars => DetectInv'
  BY DetectStep
<1>3. DetectInv => DetectionArmed
  BY DEF DetectInv
<1>4. Spec => []JobInv
  BY JobInvAlways
<1> QED
  BY <1>1, <1>2, <1>3, <1>4, TypedAlways, PTL DEF Spec

-----------------------------------------------------------------------------
(* LateInv: whose late reports may let a motion check off its last picture. *)

LEMMA NextIsAnother == \A n \in Seqs : NextSeq(n) # n
BY IpcAssumption DEF Seqs, NextSeq

\* The queue after a step of the CP: what was there, and nothing that counts.
LEMMA CpQueue ==
    ASSUME Typed, Typed', CpMoves
    PROVE  \E k \in {0, 1} :
              \A i \in 1 .. Len(queue') :
                 \/ /\ i + k \in 1 .. Len(queue) /\ queue'[i] = queue[i + k]
                    /\ \A j \in 1 .. i - 1 :
                          j + k \in 1 .. i + k - 1 /\ queue'[j] = queue[j + k]
                 \/ queue'[i].id \notin {"AP_REPORT", "AP_POWERED_OFF"}
<1>1. PICK k \in {0, 1} : Shifts(k, Others)
  BY DEF CpMoves
<1>2. Len(queue) \in Nat /\ Len(queue') \in Nat
  BY DEF Typed, Queues
<1>3. \A i \in 1 .. Len(queue') :
        \/ i + k \in 1 .. Len(queue) /\ queue'[i] = queue[i + k]
        \/ i = Len(queue') /\ queue'[i] \in Others
  BY <1>1, <1>2, OldOrNew
<1>4. ASSUME NEW i \in 1 .. Len(queue'), NEW j \in 1 .. i - 1
      PROVE  j + k \in 1 .. i + k - 1 /\ queue'[j] = queue[j + k]
  BY <1>2, <1>3, <1>4
<1> QED
  BY <1>3, <1>4 DEF Others

LEMMA LateCp ==
    ASSUME Typed, Typed', ApInv, LateInv, CpWays, CpMoves
    PROVE  LateInv'
<1>1. PICK k \in {0, 1} :
        \A i \in 1 .. Len(queue') :
           \/ /\ i + k \in 1 .. Len(queue) /\ queue'[i] = queue[i + k]
              /\ \A j \in 1 .. i - 1 :
                    j + k \in 1 .. i + k - 1 /\ queue'[j] = queue[j + k]
           \/ queue'[i].id \notin {"AP_REPORT", "AP_POWERED_OFF"}
  BY CpQueue
<1>2. Len(queue) \in Nat /\ Len(queue') \in Nat /\ cp \in CpRecord
  BY DEF Typed, Queues
<1>3. queue # <<>> => 1 \in 1 .. Len(queue) /\ Head(queue) = queue[1]
  BY <1>2 DEF Typed, Queues
<1>4. ap' = ap
  BY DEF CpWays
<1>5. Outcomes'
  BY <1>4 DEF LateInv, Outcomes
<1>6. CASE Launched
  <2>1. ap.pc = "off" /\ ap.job \notin Handed
    BY <1>6 DEF Launched, LateInv, SamePage, ApInv, QuietOK, Handed
  <2>2. ~cp.poweringDown /\ ~cp'.poweringDown
    BY <1>6 DEF Launched, LateInv, PoweredOffOnce
  <2>3. \A i \in 1 .. Len(queue) :
           /\ queue[i].id # "AP_POWERED_OFF"
           /\ ~(queue[i].id = "AP_REPORT" /\ queue[i].seq = NextSeq(cp.activeSeq))
    BY <1>6, <2>2 DEF Launched, LateInv, PoweredOffOnce, NextIsFresh
  <2>4. \A i \in 1 .. Len(queue') :
           /\ queue'[i].id # "AP_POWERED_OFF"
           /\ ~(queue'[i].id = "AP_REPORT" /\ queue'[i].seq = cp'.activeSeq)
    BY <1>1, <1>6, <2>3 DEF Launched
  <2>5. /\ wire' \subseteq wire
        /\ \A r \in wire' : r.seq \notin {cp'.activeSeq, NextSeq(cp'.activeSeq)}
    BY <1>6 DEF Launched, Forget
  <2>6. NextIsFresh'
    BY <1>2, <1>6, <2>4, <2>5 DEF Launched, LateInv, NextIsFresh
  <2>7. PoweredOffOnce'
    BY <2>2, <2>4 DEF PoweredOffOnce
  <2>8. SamePage'
    BY <1>4, <1>6, <2>1 DEF Launched, SamePage, Handed
  <2>9. WaiverEarned'
    BY <1>6, <2>4, <2>5 DEF Launched, WaiverEarned, Waives
  <2> QED
    BY <1>5, <2>6, <2>7, <2>8, <2>9 DEF LateInv
<1>7. ASSUME cp'.activeSeq = cp.activeSeq, wire' = wire, shared'.seq = shared.seq,
             cp'.apVoteOn = cp.apVoteOn \/ (Completed /\ ~cp'.apVoteOn)
      PROVE  NextIsFresh' /\ PoweredOffOnce' /\ SamePage'
  <2>1. CASE Completed
    <3>1. 1 \in 1 .. Len(queue) /\ queue[1].id = "AP_POWERED_OFF"
      BY <1>3, <2>1 DEF Completed, Taken
    <3>2. /\ ap.pc = "off" /\ cp.poweringDown
          /\ \A j \in 2 .. Len(queue) : queue[j].id # "AP_POWERED_OFF"
      BY <3>1 DEF LateInv, PoweredOffOnce
    <3>3. \A i \in 2 .. Len(queue) :
              ~(queue[i].id = "AP_REPORT" /\ queue[i].seq = NextSeq(cp.activeSeq))
      BY <1>2, <3>1 DEF LateInv, NextIsFresh
    <3>4. Shifts(1, {Plain("BOOT")})
      BY <2>1, TailShifts DEF Completed, Taken
    <3>5. \A i \in 1 .. Len(queue') :
              \/ i + 1 \in 2 .. Len(queue) /\ queue'[i] = queue[i + 1]
              \/ queue'[i] = Plain("BOOT")
      BY <1>2, <3>4 DEF Shifts
    <3>6. \A i \in 1 .. Len(queue') :
              /\ queue'[i].id # "AP_POWERED_OFF"
              /\ ~(queue'[i].id = "AP_REPORT" /\ queue'[i].seq = NextSeq(cp.activeSeq))
      BY <3>2, <3>3, <3>5 DEF Plain
    <3>7. NextIsFresh'
      BY <1>7, <3>6 DEF LateInv, NextIsFresh
    <3>8. PoweredOffOnce'
      BY <2>1, <3>6 DEF Completed, PoweredOffOnce
    <3>9. SamePage'
      <4>1. ap.job \notin Handed
        BY <3>2 DEF ApInv, QuietOK, Handed
      <4> QED
        BY <1>4, <2>1, <3>2, <4>1 DEF Completed, SamePage, Handed
    <3> QED
      BY <3>7, <3>8, <3>9
  <2>2. CASE cp'.apVoteOn = cp.apVoteOn /\ ~Completed
    <3>1. cp.poweringDown => cp'.poweringDown
      BY <2>2 DEF CpWays, Launched, Handled, Heard, Noted, Inserted, SameJob,
                        SamePower
    <3>2. cp'.poweringDown => cp'.apVoteOn
      BY <2>2 DEF CpWays, Launched, Handled, Heard, Noted, Inserted, SameJob,
                  SamePower, LateInv, PoweredOffOnce
    <3>3. NextIsFresh'
      <4>1. \A r \in wire' : r.id = "AP_REPORT" /\ r.seq # NextSeq(cp'.activeSeq)
        BY <1>7 DEF LateInv, NextIsFresh
      <4>2. ASSUME NEW i \in 1 .. Len(queue'), queue'[i].id = "AP_REPORT",
                   queue'[i].seq = NextSeq(cp'.activeSeq)
            PROVE  cp'.apVoteOn /\ \A j \in 1 .. i - 1 : queue'[j].id # "AP_POWERED_OFF"
        <5>1. /\ i + k \in 1 .. Len(queue) /\ queue'[i] = queue[i + k]
              /\ \A j \in 1 .. i - 1 :
                    j + k \in 1 .. i + k - 1 /\ queue'[j] = queue[j + k]
          BY <1>1, <4>2
        <5> QED
          BY <1>7, <2>2, <4>2, <5>1 DEF LateInv, NextIsFresh
      <4> QED
        BY <4>1, <4>2 DEF NextIsFresh
    <3>4. PoweredOffOnce'
      <4>1. ASSUME NEW i \in 1 .. Len(queue'), queue'[i].id = "AP_POWERED_OFF"
            PROVE  /\ cp'.poweringDown /\ ap'.pc = "off"
                   /\ \A j \in i + 1 .. Len(queue') : queue'[j].id # "AP_POWERED_OFF"
        <5>1. i + k \in 1 .. Len(queue) /\ queue[i + k].id = "AP_POWERED_OFF"
          BY <1>1, <4>1
        <5>2. /\ cp.poweringDown /\ ap.pc = "off"
              /\ \A j \in i + k + 1 .. Len(queue) : queue[j].id # "AP_POWERED_OFF"
          BY <5>1 DEF LateInv, PoweredOffOnce
        <5>3. ASSUME NEW j \in i + 1 .. Len(queue')
              PROVE  queue'[j].id # "AP_POWERED_OFF"
          <6>1. \/ j + k \in 1 .. Len(queue) /\ queue'[j] = queue[j + k]
                \/ queue'[j].id # "AP_POWERED_OFF"
            BY <1>1, <1>2, <5>3
          <6> QED
            BY <1>2, <5>2, <6>1
        <5> QED
          BY <1>4, <3>1, <5>2, <5>3
      <4> QED
        BY <3>2, <4>1 DEF PoweredOffOnce
    <3>5. SamePage'
      BY <1>4, <1>7, <2>2 DEF LateInv, SamePage
    <3> QED
      BY <3>3, <3>4, <3>5
  <2> QED
    BY <1>7, <2>1, <2>2 DEF Completed
<1>8. ASSUME cp'.activeSeq = cp.activeSeq, wire' = wire, cp'.apVoteOn = cp.apVoteOn,
             cp.poweringDown => cp'.poweringDown,
             cp.apVoteOn /\ cp'.abortingJob => cp.abortingJob \/ Waived
      PROVE  WaiverEarned'
  <2> SUFFICES ASSUME cp.apVoteOn
               PROVE  /\ cp'.abortingJob => Waived'
                      /\ \A r \in wire : Waives(r) /\ r.seq = cp.activeSeq => Waived'
                      /\ \A i \in 1 .. Len(queue') :
                            Waives(queue'[i]) /\ queue'[i].seq = cp.activeSeq => Waived'
    BY <1>8 DEF WaiverEarned
  <2>1. Waived => Waived'
    BY <1>4, <1>8 DEF Waived
  <2>2. \A i \in 1 .. Len(queue') :
           \/ ~Waives(queue'[i])
           \/ i + k \in 1 .. Len(queue) /\ queue'[i] = queue[i + k]
    BY <1>1 DEF Waives
  <2> QED
    BY <1>8, <2>1, <2>2 DEF LateInv, WaiverEarned
<1>9. CASE Completed
  BY <1>5, <1>7, <1>9 DEF Completed, WaiverEarned, LateInv
<1>10. CASE Handled
  BY <1>5, <1>7, <1>8, <1>10 DEF Handled, LateInv
<1>11. CASE Inserted
  BY <1>5, <1>7, <1>8, <1>11 DEF Inserted, SameJob, SamePower, LateInv
<1>12. CASE Heard
  <2>1. cp.apVoteOn /\ cp'.abortingJob => cp.abortingJob \/ Waived
    BY <1>3, <1>12 DEF Heard, Noted, LateInv, WaiverEarned, Waives
  <2>2. cp.poweringDown => cp'.poweringDown
    BY <1>12 DEF Heard, Noted
  <2> QED
    BY <1>5, <1>7, <1>8, <1>12, <2>1, <2>2 DEF Heard, LateInv
<1> QED
  BY <1>6, <1>9, <1>10, <1>11, <1>12 DEF CpWays

\* A step of the AP leaves its report, if any, at the end of the queue or on the
\* wire, under the number of its job.
LEMMA SpeaksWhere ==
    ASSUME Typed, NEW rid \in ReportIds, NEW f \in Picture,
           SendReport(Report(rid, ap.seq, f))
    PROVE  LET r == Report(rid, ap.seq, f)
           IN  \/ Shifts(0, {r}) /\ wire' = wire /\ queue' = PushTo(queue, r)
               \/ /\ queue' = queue /\ lost'
                  /\ wire' = wire \/ ("late" \in Faults /\ wire' = {r})
BY PushShifts DEF SendReport, Delivered, NotDelivered, Post, PostTo

LEMMA LateAp ==
    ASSUME Typed, Typed', ApInv, ApInv', LateInv, ApWays, ApMoves, cp' = cp,
           "camera" \in Faults => "QR_DONE" \notin Inputs
    PROVE  LateInv'
<1>1. Len(queue) \in Nat /\ Len(queue') \in Nat /\ cp \in CpRecord
  BY DEF Typed, Queues
<1>2. shared'.seq = shared.seq /\ (ap'.pc = "off" <=> ap.pc = "off")
  BY DEF ApMoves, ApReports
<1>3. SamePage'
  BY <1>2 DEF ApMoves, ApPage, LateInv, SamePage, Silent, Handed
<1>4. Outcomes'
  <2>1. ap'.pc \in {"off", "query"} => ~ap'.seen /\ ~ap'.failed
    BY DEF ApMoves, ApStops, ApWays, Walks, Speaks, Says, SameOutcome, LateInv, Outcomes
  <2>2. ap'.pc = "failing" => "QR_DONE" \notin Inputs \/ ap'.job \notin Handed
    BY DEF ApWays, Walks, Paths, DispatchFails, Speaks, Says, SameOutcome, LateInv,
           Outcomes, Handed
  <2>3. ap'.failed => "QR_DONE" \notin Inputs \/ ap'.job \notin Handed
    <3>1. ap'.failed => ap.failed \/ (ap.pc = "failing" /\ ap'.job = ap.job)
      BY DEF ApWays, Walks, Speaks, Says, SameOutcome
    <3>2. ap'.job \in Handed => ap.job \in Handed \/ ap.pc = "query"
      BY DEF ApMoves, ApPage
    <3> QED
      BY <3>1, <3>2 DEF LateInv, Outcomes, Handed
  <2> QED
    BY <2>1, <2>2, <2>3 DEF Outcomes, Handed
<1>5. Waived => Waived'
  <2>1. ap.seen => ap'.seen
    BY DEF ApWays, Walks, Speaks, Says, SameOutcome
  <2>2. ap.failed => ap'.failed
    BY DEF ApWays, Walks, Speaks, Says, SameOutcome, LateInv, Outcomes, Handed
  <2> QED
    BY <1>2, <2>1, <2>2 DEF Waived
<1>6. ASSUME queue' = queue, wire' = wire PROVE LateInv'
  <2>1. NextIsFresh' /\ PoweredOffOnce'
    BY <1>2, <1>6 DEF LateInv, NextIsFresh, PoweredOffOnce
  <2>2. WaiverEarned'
    BY <1>5, <1>6 DEF LateInv, WaiverEarned
  <2> QED
    BY <1>3, <1>4, <2>1, <2>2 DEF LateInv
<1>7. CASE Walks
  BY <1>6, <1>7 DEF Walks, Silently
<1>8. CASE Speaks
  <2>1. PICK rid \in ReportIds, f \in Picture :
            SendReport(Report(rid, ap.seq, f)) /\ Says(rid, f)
    BY <1>8 DEF Speaks
  <2> DEFINE r == Report(rid, ap.seq, f)
  <2>2. r.id = "AP_REPORT" /\ r.report = rid /\ r.seq = ap.seq
    BY DEF Report
  <2>3. cp.apVoteOn /\ ap.pc # "off" /\ ap.seq = cp.activeSeq
    <3>1. ap.pc \notin Silent \/ ap.job \in Handed
      BY <2>1 DEF Says, Silent, Handed
    <3>2. ap.pc # "off"
      BY <3>1 DEF ApInv, QuietOK, Silent, Handed
    <3> QED
      BY <3>1, <3>2 DEF LateInv, SamePage, Silent, Handed
  <2>4. r.seq # NextSeq(cp.activeSeq)
    BY <1>1, <2>2, <2>3, NextIsAnother DEF CpRecord
  <2>5. Waives(r) => Waived'
    BY <2>1, <2>2 DEF Waives, Waived, Says
  <2>6. \/ Shifts(0, {r}) /\ wire' = wire
        \/ queue' = queue /\ (wire' = wire \/ wire' = {r})
    BY <2>1, SpeaksWhere
  <2> HIDE DEF r
  <2>7. CASE queue' = queue /\ wire' = {r}
    <3>1. NextIsFresh' /\ PoweredOffOnce'
      BY <1>2, <2>2, <2>4, <2>7 DEF LateInv, NextIsFresh, PoweredOffOnce
    <3>2. WaiverEarned'
      BY <1>5, <2>5, <2>7 DEF LateInv, WaiverEarned
    <3> QED
      BY <1>3, <1>4, <3>1, <3>2 DEF LateInv
  <2>8. CASE Shifts(0, {r}) /\ wire' = wire
    <3>1. \A i \in 1 .. Len(queue') :
            \/ i \in 1 .. Len(queue) /\ queue'[i] = queue[i]
            \/ i = Len(queue') /\ queue'[i] = r
      BY <1>1, <2>8 DEF Shifts
    <3>2. NextIsFresh'
      <4>1. ASSUME NEW i \in 1 .. Len(queue'), queue'[i].id = "AP_REPORT",
                   queue'[i].seq = NextSeq(cp.activeSeq)
            PROVE  \A j \in 1 .. i - 1 : queue'[j].id # "AP_POWERED_OFF"
        <5>1. i \in 1 .. Len(queue) /\ queue'[i] = queue[i]
          BY <2>4, <3>1, <4>1
        <5>2. \A j \in 1 .. i - 1 : queue[j].id # "AP_POWERED_OFF"
          BY <4>1, <5>1 DEF LateInv, NextIsFresh
        <5>3. \A j \in 1 .. i - 1 : queue'[j] = queue[j]
          BY <1>1, <3>1, <5>1
        <5> QED
          BY <5>2, <5>3
      <4> QED
        BY <2>3, <2>8, <4>1 DEF LateInv, NextIsFresh
    <3>3. PoweredOffOnce'
      BY <2>2, <2>3, <3>1 DEF LateInv, PoweredOffOnce
    <3>4. WaiverEarned'
      BY <1>5, <2>5, <2>8, <3>1 DEF LateInv, WaiverEarned
    <3> QED
      BY <1>3, <1>4, <3>2, <3>3, <3>4 DEF LateInv
  <2> QED
    BY <1>6, <2>6, <2>7, <2>8
<1> QED
  BY <1>7, <1>8 DEF ApWays

LEMMA LatePower ==
    ASSUME Typed, Typed', ApInv, LateInv,
           PowerOn \/ PowerCut \/ Restart \/ (Transport /\ UNCHANGED <<cp, ap>>)
    PROVE  LateInv'
<1>1. Len(queue) \in Nat /\ Len(queue') \in Nat
  BY DEF Typed, Queues
<1>2. /\ ApOff.pc = "off" /\ ApOff.job = "NORMAL_BOOT"
      /\ ~ApOff.seen /\ ~ApOff.failed
  BY DEF ApOff
<1>3. CASE PowerOn
  <2>1. /\ ap.pc = "off" /\ ap'.pc = "query" /\ ap'.job = "NORMAL_BOOT"
        /\ ~ap'.seen /\ ~ap'.failed
    BY <1>3 DEF PowerOn, ApOff
  <2>2. cp.apVoteOn /\ ~cp.poweringDown /\ UNCHANGED <<queue, wire, shared, cp>>
    BY <1>3 DEF PowerOn, cpVars, ipcVars
  <2>3. SamePage' /\ Outcomes'
    BY <2>1, <2>2 DEF LateInv, SamePage, Outcomes
  <2>4. ~Waived
    BY <2>1, <2>2 DEF LateInv, Outcomes, Waived
  <2>5. NextIsFresh' /\ PoweredOffOnce'
    BY <2>2 DEF LateInv, NextIsFresh, PoweredOffOnce
  <2>6. WaiverEarned'
    BY <2>2, <2>4 DEF LateInv, WaiverEarned
  <2> QED
    BY <2>3, <2>5, <2>6 DEF LateInv
<1>4. CASE PowerCut
  <2>1. /\ ap.pc # "off" /\ cp.poweringDown /\ ap' = ApOff
        /\ UNCHANGED <<wire, shared, cp>>
    BY <1>4 DEF PowerCut
  <2>2. Shifts(0, {Plain("AP_POWERED_OFF")})
    BY <1>4, PushShifts DEF PowerCut, Post, PostTo
  <2>3. \A i \in 1 .. Len(queue') :
          \/ i \in 1 .. Len(queue) /\ queue'[i] = queue[i]
          \/ i = Len(queue') /\ queue'[i].id = "AP_POWERED_OFF"
    BY <1>1, <2>2 DEF Shifts, Plain
  <2>4. \A i \in 1 .. Len(queue) : queue[i].id # "AP_POWERED_OFF"
    BY <2>1 DEF LateInv, PoweredOffOnce
  <2>5. cp.apVoteOn
    BY <2>1 DEF LateInv, PoweredOffOnce
  <2>6. NextIsFresh'
    <3>1. \A i \in 1 .. Len(queue'), j \in 1 .. Len(queue') :
              j < i => queue'[j].id # "AP_POWERED_OFF"
      BY <1>1, <2>3, <2>4
    <3>2. \A i \in 1 .. Len(queue') : \A j \in 1 .. i - 1 :
              queue'[j].id # "AP_POWERED_OFF"
      BY <1>1, <3>1
    <3> QED
      BY <2>1, <2>5, <3>2 DEF LateInv, NextIsFresh
  <2>7. PoweredOffOnce'
    BY <1>1, <1>2, <2>1, <2>3, <2>4, <2>5 DEF PoweredOffOnce
  <2>8. WaiverEarned'
    BY <1>2, <2>1 DEF WaiverEarned, Waived
  <2>9. SamePage' /\ Outcomes'
    BY <1>2, <2>1, <2>5 DEF LateInv, SamePage, Outcomes
  <2> QED
    BY <2>6, <2>7, <2>8, <2>9 DEF LateInv
<1>5. CASE Restart
  <2>1. /\ queue' = <<Plain("BOOT")>> /\ wire' = {} /\ cp' = CpReset /\ ap' = ApOff
    BY <1>5 DEF Restart
  <2>2. \A i \in 1 .. Len(queue') : queue'[i].id = "BOOT"
    BY <2>1 DEF Plain
  <2>3. NextIsFresh' /\ PoweredOffOnce' /\ WaiverEarned'
    BY <2>1, <2>2 DEF NextIsFresh, PoweredOffOnce, WaiverEarned, CpReset
  <2>4. SamePage' /\ Outcomes'
    BY <1>2, <2>1 DEF SamePage, Outcomes, CpReset
  <2> QED
    BY <2>3, <2>4 DEF LateInv
<1>6. CASE Transport /\ UNCHANGED <<cp, ap>>
  <2>1. PICK r \in wire : wire' = wire \ {r} /\ queue' = PushTo(queue, r)
    BY <1>6 DEF Transport, LateArrival, Post, PostTo
  <2>2. shared' = shared /\ cp' = cp /\ ap' = ap
    BY <1>6 DEF Transport, LateArrival
  <2>3. r.id = "AP_REPORT" /\ r.seq # NextSeq(cp.activeSeq)
    BY DEF LateInv, NextIsFresh
  <2>4. \A i \in 1 .. Len(queue') :
          \/ i \in 1 .. Len(queue) /\ queue'[i] = queue[i]
          \/ i = Len(queue') /\ queue'[i] = r
    <3>1. Shifts(0, {r})
      BY <2>1, PushShifts
    <3> QED
      BY <1>1, <3>1 DEF Shifts
  <2>5. NextIsFresh'
    <3>1. ASSUME NEW i \in 1 .. Len(queue'), queue'[i].id = "AP_REPORT",
                 queue'[i].seq = NextSeq(cp.activeSeq)
          PROVE  cp.apVoteOn /\ \A j \in 1 .. i - 1 : queue'[j].id # "AP_POWERED_OFF"
      <4>1. i \in 1 .. Len(queue) /\ queue'[i] = queue[i]
        BY <2>3, <2>4, <3>1
      <4>2. \A j \in 1 .. i - 1 : queue'[j] = queue[j]
        BY <1>1, <2>4, <4>1
      <4> QED
        BY <3>1, <4>1, <4>2 DEF LateInv, NextIsFresh
    <3>2. \A s \in wire' : s.id = "AP_REPORT" /\ s.seq # NextSeq(cp.activeSeq)
      BY <2>1 DEF LateInv, NextIsFresh
    <3> QED
      BY <2>2, <3>1, <3>2 DEF NextIsFresh
  <2>6. PoweredOffOnce'
    BY <2>2, <2>3, <2>4 DEF LateInv, PoweredOffOnce
  <2>7. WaiverEarned'
    BY <2>1, <2>2, <2>4 DEF LateInv, WaiverEarned, Waived
  <2>8. SamePage' /\ Outcomes'
    BY <2>2 DEF LateInv, SamePage, Outcomes
  <2> QED
    BY <2>5, <2>6, <2>7, <2>8 DEF LateInv
<1> QED
  BY <1>3, <1>4, <1>5, <1>6

LEMMA LateStep ==
    ASSUME "camera" \in Faults => "QR_DONE" \notin Inputs
    PROVE  Typed /\ ApInv /\ Typed' /\ ApInv' /\ LateInv /\ [Next]_vars => LateInv'
<1> SUFFICES ASSUME Typed, ApInv, Typed', ApInv', LateInv, [Next]_vars
             PROVE  LateInv'
  OBVIOUS
<1>1. CASE UNCHANGED vars
  BY <1>1 DEF vars, LateInv, NextIsFresh, PoweredOffOnce, SamePage, WaiverEarned,
              Waived, Outcomes
<1> QED
  BY <1>1, SortedWays, LateCp, LateAp, LatePower

\* aov_cp_job_requires_gray: late reports of other jobs notwithstanding, a motion
\* check is let off its last picture only by its own AP, which saw motion or
\* failed and has not been off since.  Where the camera may fail, nobody
\* completes the provisioning by command: that takes back what the AP reported.
THEOREM WaiverSafe ==
    ASSUME "camera" \in Faults => "QR_DONE" \notin Inputs
    PROVE  Spec => []GrayWaiverEarned
<1>1. Init => LateInv
  <2> SUFFICES ASSUME Init PROVE LateInv
    OBVIOUS
  <2>1. /\ queue = <<Plain("BOOT")>> /\ wire = {} /\ cp = CpReset /\ ap = ApOff
    BY DEF Init, CpInit, IpcInit, ApInit
  <2>2. \A i \in 1 .. Len(queue) : queue[i].id = "BOOT"
    BY <2>1 DEF Plain
  <2>3. NextIsFresh /\ PoweredOffOnce /\ WaiverEarned
    BY <2>1, <2>2 DEF NextIsFresh, PoweredOffOnce, WaiverEarned, CpReset
  <2>4. SamePage /\ Outcomes
    BY <2>1 DEF SamePage, Outcomes, CpReset, ApOff
  <2> QED
    BY <2>3, <2>4 DEF LateInv
<1>2. Typed /\ ApInv /\ Typed' /\ ApInv' /\ LateInv /\ [Next]_vars => LateInv'
  BY LateStep
<1>3. LateInv => GrayWaiverEarned
  BY DEF LateInv, WaiverEarned, SamePage, Waived, GrayWaiverEarned
<1> QED
  BY <1>1, <1>2, <1>3, TypedAlways, PTL DEF Spec

-----------------------------------------------------------------------------
(* Where the queued reports are after a step, none of them forgotten.      *)

ApEvents == {"AP_REPORT", "AP_POWERED_OFF"}

\* The first k elements are taken, nothing else goes, no report comes.
Moved(k) ==
    /\ k <= Len(queue) /\ Len(queue') >= Len(queue) - k
    /\ \A i \in 1 .. Len(queue') :
          IF i + k <= Len(queue) THEN queue'[i] = queue[i + k]
          ELSE queue'[i].id \notin ApEvents

\* At most r is appended; if it is not, that is a loss.
Added(r) ==
    \/ /\ Len(queue') = Len(queue) + 1 /\ queue'[Len(queue')] = r
       /\ \A i \in 1 .. Len(queue) : queue'[i] = queue[i]
    \/ queue' = queue /\ lost'

LEMMA PushAdds ==
    ASSUME Typed, NEW r, queue' = PushTo(queue, r)
    PROVE  \/ /\ Len(queue') = Len(queue) + 1 /\ queue'[Len(queue')] = r
              /\ \A i \in 1 .. Len(queue) : queue'[i] = queue[i]
           \/ queue' = queue /\ Len(queue) >= QueueDepth
BY IpcAssumption DEF Typed, Queues, PushTo

LEMMA PostAdds ==
    ASSUME Typed, NEW r, Post(r)
    PROVE  Added(r) /\ (lost => lost')
<1>1. queue' = PushTo(queue, r) /\ (lost => lost') /\ (Len(queue) >= QueueDepth => lost')
  BY DEF Post, PostTo
<1> QED
  BY <1>1, PushAdds DEF Added

LEMMA CpMoved ==
    ASSUME Typed, Typed', CpWays
    PROVE  /\ Launched \/ Completed \/ Handled \/ Heard => Moved(1)
           /\ Inserted => Moved(0)
<1>1. /\ queue \in Seq(Event) /\ Len(queue) \in Nat /\ Len(queue') \in Nat
      /\ (queue # <<>> => Len(queue) >= 1)
  BY DEF Typed, Queues
<1>2. ASSUME queue # <<>>, queue' = Tail(queue) PROVE Moved(1)
  <2>1. Len(queue') = Len(queue) - 1 /\ Shifts(1, {})
    BY <1>1, <1>2, TailShifts
  <2> QED
    BY <1>1, <1>2, <2>1 DEF Moved, Shifts
<1>3. ASSUME NEW id \in Quiet, queue # <<>>, queue' = PushTo(Tail(queue), Plain(id))
      PROVE  Moved(1)
  <2>1. Shifts(1, {Plain(id)}) /\ Plain(id).id \notin ApEvents
    BY <1>3, TailPushShifts DEF Plain, ApEvents, Quiet, PlainEvents, ProductEvents
  <2>2. Len(queue') >= Len(queue) - 1
    BY <1>1, <1>3 DEF PushTo
  <2> QED
    BY <1>1, <1>3, <2>1, <2>2 DEF Moved, Shifts
<1>4. Launched \/ Completed \/ Handled \/ Heard => Moved(1)
  <2>1. {"WIFI_CONNECT_FAIL", "WIFI_CONNECTED"} \subseteq Quiet
    BY DEF Quiet, PlainEvents
  <2>2. Launched \/ Completed \/ Handled => Moved(1)
    BY <1>2 DEF Launched, Completed, Handled, Taken
  <2>3. Heard => Moved(1)
    BY <1>2, <1>3, <2>1 DEF Heard
  <2> QED
    BY <2>2, <2>3
<1>5. ASSUME Inserted PROVE Moved(0)
  <2>1. CASE queue' = queue
    BY <1>1, <2>1 DEF Moved
  <2>2. ASSUME NEW id \in Inserts, queue' = PushTo(queue, Plain(id)) PROVE Moved(0)
    <3>1. Shifts(0, {Plain(id)})
      BY <2>2, PushShifts
    <3>2. Plain(id).id \notin ApEvents
      BY DEF Plain, ApEvents, Inserts, PlainEvents, ProductEvents
    <3>3. Len(queue') >= Len(queue)
      BY <1>1, <2>2 DEF PushTo
    <3> QED
      BY <1>1, <3>1, <3>2, <3>3 DEF Moved, Shifts
  <2> QED
    BY <1>5, <2>1, <2>2 DEF Inserted
<1> QED
  BY <1>4, <1>5

LEMMA SpeaksAdds ==
    ASSUME Typed, NEW rid \in ReportIds, NEW f \in Picture,
           SendReport(Report(rid, ap.seq, f))
    PROVE  Added(Report(rid, ap.seq, f)) /\ (lost => lost')
BY PostAdds DEF SendReport, Delivered, NotDelivered, Added

LEMMA MovedReports ==
    ASSUME Typed, Typed', NEW k \in {0, 1}, Moved(k), NEW rid
    PROVE  /\ \A i \in Queued(rid)' :
                 i \in Nat /\ i + k \in Queued(rid) /\ queue'[i] = queue[i + k]
           /\ \A i \in Queued(rid) : i > k => i - k \in Queued(rid)'
<1>1. Len(queue) \in Nat /\ Len(queue') \in Nat
  BY DEF Typed, Queues
<1>2. ASSUME NEW i \in 1 .. Len(queue'), queue'[i].id = "AP_REPORT"
      PROVE  i + k \in 1 .. Len(queue) /\ queue'[i] = queue[i + k]
  BY <1>1, <1>2 DEF Moved, ApEvents
<1>3. ASSUME NEW i \in 1 .. Len(queue), i > k
      PROVE  i - k \in 1 .. Len(queue') /\ queue'[i - k] = queue[i]
  <2>1. i - k \in 1 .. Len(queue') /\ (i - k) + k = i
    BY <1>1, <1>3 DEF Moved
  <2> QED
    BY <1>1, <2>1 DEF Moved
<1> QED
  BY <1>1, <1>2, <1>3 DEF Queued

LEMMA AddedReports ==
    ASSUME Typed, Typed', NEW r, Added(r), NEW rid
    PROVE  /\ \A i \in Queued(rid) :
                 i \in Queued(rid)' /\ queue'[i] = queue[i] /\ i < Len(queue) + 1
           /\ \A i \in Queued(rid)' :
                 \/ i \in Queued(rid) /\ queue'[i] = queue[i]
                 \/ /\ i = Len(queue) + 1 /\ queue'[i] = r
                    /\ r.id = "AP_REPORT" /\ r.report = rid
           /\ ~lost' /\ r.id = "AP_REPORT" /\ r.report = rid =>
                 Len(queue) + 1 \in Queued(rid)'
BY DEF Added, Queued, Typed, Queues

-----------------------------------------------------------------------------
(* GrayInv: the way of the last picture.                                   *)

LEMMA GrayCp ==
    ASSUME Typed, Typed', JobInv, GrayInv, CpWays
    PROVE  GrayInv'
<1> DEFINE LG == Queued("LAST_GRAY_READY")
           PR == Queued("POWERDOWN_READY")
<1>1. ap' = ap
  BY DEF CpWays
<1>2. queue # <<>> => 1 \in 1 .. Len(queue) /\ Head(queue) = queue[1]
  BY DEF Typed, Queues
<1>3. JobEnds'
  BY <1>1 DEF GrayInv, JobEnds
<1>4. CASE Launched \/ Completed
  <2>1. Moved(1)
    BY <1>4, CpMoved
  <2>2. Queued("LAST_GRAY_READY")' = {} /\ Queued("POWERDOWN_READY")' = {}
    <3>1. \A i \in 2 .. Len(queue) : queue[i].id # "AP_REPORT"
      BY <1>2, <1>4 DEF Launched, Completed, Taken, JobInv, ReportsCurrent, PoweredOffLast
    <3>2. \A rid, i : i \in Queued(rid) => i \in 1 .. Len(queue) /\ ~(i >= 2)
      BY <3>1 DEF Queued
    <3>3. \A rid, i : i \in Queued(rid)' => i \in 1 .. Len(queue') /\ i + 1 \in Queued(rid)
      BY <2>1, MovedReports DEF Queued
    <3> QED
      BY <3>2, <3>3
  <2>3. ~(Undescribed' /\ ~lost')
    <3>1. SamePicture /\ lost' = lost
      BY <1>4 DEF Launched, Completed, Taken
    <3>2. ~cp.apVoteOn \/ cp.powerdownReady
      BY <1>4 DEF Launched, Completed, GrayInv, ReadyIsLate
    <3> QED
      BY <3>1, <3>2 DEF SamePicture, Undescribed, GrayInv, DescriptorComes
  <2>4. PictureInPlace'
    BY <1>1, <1>4, <2>2 DEF Launched, Completed, SamePicture, GrayInv, PictureInPlace
  <2>5. ReadyIsLate'
    BY <1>4, <2>2 DEF Launched, Completed, GrayInv, ReadyIsLate
  <2>6. DescriptorComes'
    BY <2>3 DEF DescriptorComes
  <2> QED
    BY <1>3, <2>4, <2>5, <2>6 DEF GrayInv
<1>5. ASSUME NEW k \in {0, 1}, Moved(k), cp'.apVoteOn = cp.apVoteOn,
             cp.poweringDown => cp'.poweringDown,
             cp'.poweringDown => cp'.apVoteOn /\ cp'.powerdownReady,
             cp'.powerdownReady => cp.powerdownReady \/ (k = 1 /\ 1 \in PR),
             shared'.buffer = shared.buffer,
             shared'.valid => shared.valid \/ 1 \in LG,
             Undescribed' /\ ~lost' => Undescribed /\ ~lost /\ ~(k = 1 /\ 1 \in LG)
      PROVE  GrayInv'
  <2>1. /\ \A i \in Queued("LAST_GRAY_READY")' :
              i \in Nat /\ i + k \in LG /\ queue'[i] = queue[i + k]
        /\ \A i \in LG : i > k => i - k \in Queued("LAST_GRAY_READY")'
        /\ \A i \in Queued("POWERDOWN_READY")' : i \in Nat /\ i + k \in PR
    BY <1>5, MovedReports
  <2>2. \A pcs : Rests(pcs) => Rests(pcs)'
    BY <1>1, <1>5 DEF Rests
  <2>3. PictureInPlace'
    <3>1. ap.pc = "second" => ~shared'.valid
      BY <1>5 DEF GrayInv, PictureInPlace, Rests
    <3> QED
      BY <1>1, <1>5, <2>1, <2>2, <3>1 DEF GrayInv, PictureInPlace
  <2>4. ReadyIsLate'
    <3>1. \/ Queued("POWERDOWN_READY")' # {} \/ (cp'.apVoteOn /\ cp'.powerdownReady)
          => PR # {} \/ (cp.apVoteOn /\ cp.powerdownReady)
      BY <1>5, <2>1
    <3> QED
      BY <1>5, <2>2, <3>1 DEF GrayInv, ReadyIsLate
  <2>5. DescriptorComes'
    <3> SUFFICES ASSUME Undescribed', ~lost'
                 PROVE  /\ cp'.apVoteOn /\ ~cp'.powerdownReady
                        /\ \/ ap'.pc \in Comparing
                           \/ Queued("LAST_GRAY_READY")' # {}
                        /\ \A i \in Queued("POWERDOWN_READY")' :
                              \E j \in Queued("LAST_GRAY_READY")' : j < i
      BY DEF DescriptorComes
    <3>1. /\ cp.apVoteOn /\ ~cp.powerdownReady
          /\ ap.pc \in Comparing \/ LG # {}
          /\ \A i \in PR : \E j \in LG : j < i
      BY <1>5 DEF GrayInv, DescriptorComes
    <3>2. \A j \in LG : j \in Nat /\ j >= 1
      BY DEF Queued
    <3>3. \A j \in LG : j > k /\ j - k \in Queued("LAST_GRAY_READY")'
      BY <1>5, <2>1, <3>2
    <3>4. 1 \notin PR
      BY <3>1, <3>2
    <3>5. ASSUME NEW i \in Queued("POWERDOWN_READY")'
          PROVE  \E j \in Queued("LAST_GRAY_READY")' : j < i
      <4>1. PICK j \in LG : j < i + k
        BY <2>1, <3>1, <3>5
      <4>2. j - k \in Queued("LAST_GRAY_READY")' /\ j - k < i
        BY <2>1, <3>2, <3>3, <3>5, <4>1
      <4> QED
        BY <4>2
    <3> QED
      BY <1>1, <1>5, <3>1, <3>3, <3>4, <3>5
  <2> QED
    BY <1>3, <2>3, <2>4, <2>5 DEF GrayInv
<1>6. CASE Handled
  <2>1. Moved(1) /\ 1 \notin LG
    BY <1>2, <1>6, CpMoved DEF Handled, Taken, Queued
  <2>2. cp'.poweringDown => cp'.apVoteOn /\ cp'.powerdownReady
    BY <1>6 DEF Handled, GrayInv, ReadyIsLate
  <2>3. Undescribed' /\ ~lost' => Undescribed /\ ~lost
    BY <1>6 DEF Handled, Taken, Undescribed
  <2> QED
    BY <1>5, <1>6, <2>1, <2>2, <2>3 DEF Handled
<1>7. CASE Inserted
  <2>1. Moved(0)
    BY <1>7, CpMoved
  <2>2. cp'.poweringDown => cp'.apVoteOn /\ cp'.powerdownReady
    BY <1>7 DEF Inserted, SameJob, SamePower, GrayInv, ReadyIsLate
  <2>3. Undescribed' /\ ~lost' => Undescribed /\ ~lost
    BY <1>7 DEF Inserted, Undescribed
  <2> QED
    BY <1>5, <1>7, <2>1, <2>2, <2>3 DEF Inserted, SameJob, SamePower
<1>8. CASE Heard
  <2>1. Moved(1)
    BY <1>8, CpMoved
  <2>2. /\ 1 \in Queued(Head(queue).report)
        /\ \A rid : 1 \in Queued(rid) => rid = Head(queue).report
    BY <1>2, <1>8 DEF Heard, Queued
  <2>3. Head(queue).seq = cp.activeSeq
    BY <1>2, <1>8 DEF Heard, JobInv, ReportsCurrent
  <2>4. Noted(Head(queue).report)
    BY <1>8, <2>3 DEF Heard
  <2>5. cp'.poweringDown => cp'.apVoteOn /\ cp'.powerdownReady
    BY <1>8, <2>4 DEF Heard, Noted, GrayInv, ReadyIsLate
  <2>6. Undescribed' /\ ~lost' => Undescribed /\ ~lost /\ 1 \notin LG
    <3>1. CASE Head(queue).report = "LAST_GRAY_READY"
      <4>1. Head(queue).frame = shared.buffer
        BY <1>2, <1>8, <2>2, <3>1 DEF Heard, GrayInv, PictureInPlace
      <4> QED
        BY <1>8, <2>4, <3>1, <4>1 DEF Heard, Noted, Undescribed
    <3>2. CASE Head(queue).report # "LAST_GRAY_READY"
      BY <1>8, <2>2, <2>4, <3>2 DEF Heard, Noted, Undescribed
    <3> QED
      BY <3>1, <3>2
  <2>7. cp'.powerdownReady => cp.powerdownReady \/ 1 \in PR
    BY <2>2, <2>4 DEF Noted
  <2>8. shared'.valid => shared.valid \/ 1 \in LG
    BY <2>2, <2>4 DEF Noted
  <2> QED
    BY <1>5, <1>8, <2>1, <2>4, <2>5, <2>6, <2>7, <2>8 DEF Heard, Noted
<1> QED
  BY <1>4, <1>6, <1>7, <1>8 DEF CpWays

LEMMA GrayAp ==
    ASSUME Typed, Typed', ApInv, JobInv, GrayInv, ApWays, ApMoves, cp' = cp,
           "camera" \notin Faults
    PROVE  GrayInv'
<1> DEFINE LG == Queued("LAST_GRAY_READY")
           PR == Queued("POWERDOWN_READY")
<1>1. JobEnds'
  <2>1. ap'.pc \in Closing => ap'.job = ap.job /\ (ap.pc \in Closing \/ ap.job \notin Handed)
    BY DEF ApMoves, ApStops, Closing
  <2> QED
    BY <2>1 DEF GrayInv, JobEnds, Handed
<1>2. ap'.pc = "off" <=> ap.pc = "off"
  BY DEF ApMoves, ApReports
<1>3. cp'.poweringDown => cp'.apVoteOn /\ cp'.powerdownReady
  BY DEF GrayInv, ReadyIsLate
<1>4. ASSUME Rests({"ready", "final", "done"})
      PROVE  Rests({"ready", "final", "done"})' /\ shared' = shared
  <2>1. CASE ap.pc = "off" /\ cp.poweringDown
    BY <1>2, <2>1 DEF Rests, ApWays, Walks, Paths, Speaks
  <2>2. CASE ap.pc \in {"ready", "final", "done"}
    <3>1. "QR_DONE" \in Inputs => ap.job \notin Handed
      BY <2>2 DEF GrayInv, JobEnds, Closing, Handed
    <3> QED
      BY <2>2, <3>1 DEF Rests, ApWays, Walks, Paths, Speaks, Says, SameOutcome
  <2> QED
    BY <1>4, <2>1, <2>2 DEF Rests
<1>5. ASSUME Rests({"final", "done"}) PROVE Rests({"final", "done"})'
  <2>1. CASE ap.pc = "off" /\ cp.poweringDown
    BY <1>2, <2>1 DEF Rests
  <2>2. CASE ap.pc \in {"final", "done"}
    <3>1. "QR_DONE" \in Inputs => ap.job \notin Handed
      BY <2>2 DEF GrayInv, JobEnds, Closing, Handed
    <3> QED
      BY <2>2, <3>1 DEF Rests, ApWays, Walks, Paths, Speaks, Says, SameOutcome
  <2> QED
    BY <1>5, <2>1, <2>2 DEF Rests
<1>6. CASE Walks
  <2>1. queue' = queue /\ lost' = lost
    BY <1>6 DEF Walks, Silently
  <2>2. /\ Queued("LAST_GRAY_READY")' = LG
        /\ Queued("POWERDOWN_READY")' = PR
    BY <2>1 DEF Queued
  <2>3. shared'.valid = shared.valid /\ shared'.described = shared.described
    BY <1>6 DEF Walks, Paths, Copied
  <2>4. PictureInPlace'
    <3>1. ap'.pc = "second" => ~shared'.valid
      BY <1>6 DEF Walks, Paths, Copied, GrayInv, PictureInPlace
    <3>2. ap'.pc = "lastGray" => shared'.buffer = ap'.cur
      BY <1>6 DEF Walks, Paths, Copied, GrayInv, PictureInPlace
    <3>3. \A i \in LG : /\ queue'[i].frame = shared'.buffer
                        /\ Rests({"ready", "final", "done"})'
      BY <1>4, <2>1 DEF GrayInv, PictureInPlace
    <3> QED
      BY <2>2, <3>1, <3>2, <3>3 DEF PictureInPlace
  <2>5. ReadyIsLate'
    BY <1>3, <1>5, <2>2 DEF GrayInv, ReadyIsLate
  <2>6. DescriptorComes'
    <3> SUFFICES ASSUME Undescribed', ~lost'
                 PROVE  /\ cp.apVoteOn /\ ~cp.powerdownReady
                        /\ ap'.pc \in Comparing \/ LG # {}
                        /\ \A i \in PR : \E j \in LG : j < i
      BY <2>2 DEF DescriptorComes
    <3>1. CASE Undescribed
      <4>1. ap.pc \in Comparing => ap'.pc \in Comparing
        BY <1>6 DEF Walks, Paths, Comparing
      <4> QED
        BY <2>1, <3>1, <4>1 DEF GrayInv, DescriptorComes
    <3>2. CASE ~Undescribed
      <4>1. /\ ap.pc \in {"second", "advance", "save"}
            /\ ap'.pc \in {"compare", "lastGray"}
        BY <1>6, <3>2 DEF Walks, Paths, Undescribed
      <4>2. cp.apVoteOn
        BY <4>1 DEF JobInv, SamePage
      <4>3. PR = {} /\ ~cp.powerdownReady
        BY <4>1, <4>2 DEF GrayInv, ReadyIsLate, Rests
      <4> QED
        BY <4>1, <4>2, <4>3 DEF Comparing
    <3> QED
      BY <3>1, <3>2
  <2> QED
    BY <1>1, <2>4, <2>5, <2>6 DEF GrayInv
<1>7. CASE Speaks
  <2>1. PICK rid \in ReportIds, f \in Picture :
            /\ SendReport(Report(rid, ap.seq, f)) /\ shared' = shared
            /\ Says(rid, f)
    BY <1>7 DEF Speaks
  <2> DEFINE r == Report(rid, ap.seq, f)
  <2>2. r.id = "AP_REPORT" /\ r.report = rid /\ r.frame = f
    BY DEF Report
  <2>3. Added(r) /\ (lost => lost')
    BY <2>1, SpeaksAdds
  <2> HIDE DEF r
  <2>4. /\ \A i \in LG : i \in Queued("LAST_GRAY_READY")' /\ i < Len(queue) + 1
        /\ \A i \in Queued("LAST_GRAY_READY")' :
              \/ i \in LG /\ queue'[i] = queue[i]
              \/ queue'[i] = r /\ rid = "LAST_GRAY_READY"
        /\ ~lost' /\ rid = "LAST_GRAY_READY" => Queued("LAST_GRAY_READY")' # {}
        /\ \A i \in Queued("POWERDOWN_READY")' :
              i \in PR \/ (i = Len(queue) + 1 /\ rid = "POWERDOWN_READY")
    BY <2>2, <2>3, AddedReports
  <2>5. PictureInPlace'
    <3>1. ap'.pc = "second" => ~shared'.valid
      BY <2>1 DEF Says, GrayInv, PictureInPlace
    <3>2. ap'.pc = "lastGray" => shared'.buffer = ap'.cur
      BY <2>1 DEF Says, GrayInv, PictureInPlace
    <3>3. ASSUME NEW i \in Queued("LAST_GRAY_READY")'
          PROVE  /\ queue'[i].frame = shared'.buffer
                 /\ Rests({"ready", "final", "done"})'
      <4>1. CASE i \in LG /\ queue'[i] = queue[i]
        BY <1>4, <4>1 DEF GrayInv, PictureInPlace
      <4>2. CASE queue'[i] = r /\ rid = "LAST_GRAY_READY"
        BY <2>1, <2>2, <4>2 DEF Says, GrayInv, PictureInPlace, Rests
      <4> QED
        BY <2>4, <3>3, <4>1, <4>2
    <3> QED
      BY <3>1, <3>2, <3>3 DEF PictureInPlace
  <2>6. ReadyIsLate'
    <3>1. CASE rid = "POWERDOWN_READY"
      BY <1>3, <2>1, <3>1 DEF Says, ReadyIsLate, Rests
    <3>2. CASE rid # "POWERDOWN_READY"
      <4>1. Queued("POWERDOWN_READY")' # {} => PR # {}
        BY <2>4, <3>2
      <4> QED
        BY <1>3, <1>5, <4>1 DEF GrayInv, ReadyIsLate
    <3> QED
      BY <3>1, <3>2
  <2>7. DescriptorComes'
    <3> SUFFICES ASSUME Undescribed', ~lost'
                 PROVE  /\ cp.apVoteOn /\ ~cp.powerdownReady
                        /\ ap'.pc \in Comparing \/ Queued("LAST_GRAY_READY")' # {}
                        /\ \A i \in Queued("POWERDOWN_READY")' :
                              \E j \in Queued("LAST_GRAY_READY")' : j < i
      BY DEF DescriptorComes
    <3>1. /\ cp.apVoteOn /\ ~cp.powerdownReady
          /\ ap.pc \in Comparing \/ LG # {}
          /\ \A i \in PR : \E j \in LG : j < i
      BY <2>1, <2>3 DEF Undescribed, GrayInv, DescriptorComes
    <3>2. ap.pc \in Comparing => ap'.pc \in Comparing \/ rid = "LAST_GRAY_READY"
      BY <2>1 DEF Says, Comparing
    <3>3. rid = "POWERDOWN_READY" => LG # {}
      BY <2>1, <3>1 DEF Says, Comparing
    <3> QED
      BY <2>4, <3>1, <3>2, <3>3
  <2> QED
    BY <1>1, <2>5, <2>6, <2>7 DEF GrayInv
<1> QED
  BY <1>6, <1>7 DEF ApWays

LEMMA GrayPower ==
    ASSUME Typed, Typed', JobInv, GrayInv, PowerOn \/ PowerCut \/ Restart
    PROVE  GrayInv'
<1> DEFINE LG == Queued("LAST_GRAY_READY")
           PR == Queued("POWERDOWN_READY")
<1>1. ApOff.pc = "off"
  BY DEF ApOff
<1>2. CASE PowerOn
  <2>1. ap.pc = "off" /\ ap'.pc = "query" /\ cp.apVoteOn /\ ~cp.poweringDown
    BY <1>2 DEF PowerOn, ApOff
  <2>2. UNCHANGED <<queue, shared, cp, lost>>
    BY <1>2 DEF PowerOn, cpVars, ipcVars
  <2>3. ~Rests({"ready", "final", "done"}) /\ ~Rests({"final", "done"})
    BY <2>1 DEF Rests
  <2>4. LG = {} /\ PR = {} /\ ~cp.powerdownReady
    BY <2>1, <2>3 DEF GrayInv, PictureInPlace, ReadyIsLate
  <2>5. Queued("LAST_GRAY_READY")' = {} /\ Queued("POWERDOWN_READY")' = {}
    BY <2>2, <2>4 DEF Queued
  <2>6. ~(Undescribed' /\ ~lost')
    BY <2>1, <2>2, <2>4 DEF Undescribed, GrayInv, DescriptorComes, Comparing
  <2>7. PictureInPlace' /\ ReadyIsLate' /\ DescriptorComes'
    BY <2>1, <2>2, <2>4, <2>5, <2>6 DEF PictureInPlace, ReadyIsLate, DescriptorComes
  <2> QED
    BY <2>1, <2>7 DEF GrayInv, JobEnds, Closing
<1>3. CASE PowerCut
  <2>1. /\ ap.pc # "off" /\ cp.poweringDown /\ ap'.pc = "off"
        /\ UNCHANGED <<shared, cp>> /\ Post(Plain("AP_POWERED_OFF"))
    BY <1>1, <1>3 DEF PowerCut
  <2>2. Added(Plain("AP_POWERED_OFF")) /\ (lost => lost')
    BY <2>1, PostAdds
  <2>3. \A i \in Queued("LAST_GRAY_READY")' : i \in LG /\ queue'[i] = queue[i]
    BY <2>2, AddedReports DEF Plain
  <2>4. Rests({"ready", "final", "done"})' /\ Rests({"final", "done"})'
    BY <2>1 DEF Rests
  <2>5. ~(Undescribed' /\ ~lost')
    BY <2>1, <2>2 DEF Undescribed, GrayInv, DescriptorComes, ReadyIsLate
  <2>6. PictureInPlace' /\ ReadyIsLate' /\ DescriptorComes'
    BY <2>1, <2>3, <2>4, <2>5
    DEF GrayInv, PictureInPlace, ReadyIsLate, DescriptorComes
  <2> QED
    BY <2>1, <2>6 DEF GrayInv, JobEnds, Closing
<1>4. CASE Restart
  <2>1. /\ queue' = <<Plain("BOOT")>> /\ cp' = CpReset /\ ap'.pc = "off"
        /\ ~shared'.valid
    BY <1>1, <1>4 DEF Restart
  <2>2. Queued("LAST_GRAY_READY")' = {} /\ Queued("POWERDOWN_READY")' = {}
    BY <2>1 DEF Queued, Plain
  <2> QED
    BY <2>1, <2>2 DEF GrayInv, JobEnds, Closing, PictureInPlace, ReadyIsLate,
                      DescriptorComes, Undescribed, CpReset
<1> QED
  BY <1>2, <1>3, <1>4

LEMMA GrayStep ==
    ASSUME "camera" \notin Faults
    PROVE  Typed /\ ApInv /\ Typed' /\ JobInv /\ GrayInv /\ [Next]_vars => GrayInv'
<1> SUFFICES ASSUME Typed, ApInv, Typed', JobInv, GrayInv, [Next]_vars
             PROVE  GrayInv'
  OBVIOUS
<1>1. CASE UNCHANGED vars
  BY <1>1 DEF vars, GrayInv, JobEnds, PictureInPlace, ReadyIsLate, DescriptorComes,
              Queued, Undescribed, Rests
<1>2. ~Transport
  BY DEF JobInv, Transport, LateArrival
<1> QED
  BY <1>1, <1>2, SortedWays, GrayCp, GrayAp, GrayPower

\* aov_ap_copy_current_gray_to_cp: as long as no message is lost and the camera
\* works, the picture that is kept from one job to the next is the one that its
\* descriptor is about, however reports, power-off and restarts interleave.
THEOREM GraySafe ==
    ASSUME "late" \notin Faults, "camera" \notin Faults
    PROVE  Spec => []GrayConsistent
<1>1. Init => GrayInv
  <2> SUFFICES ASSUME Init PROVE GrayInv
    OBVIOUS
  <2>1. /\ queue = <<Plain("BOOT")>> /\ cp = CpReset /\ ap.pc = "off" /\ ~shared.valid
    BY DEF Init, CpInit, IpcInit, ApInit, ApOff
  <2>2. Queued("LAST_GRAY_READY") = {} /\ Queued("POWERDOWN_READY") = {}
    BY <2>1 DEF Queued, Plain
  <2> QED
    BY <2>1, <2>2 DEF GrayInv, JobEnds, Closing, PictureInPlace, ReadyIsLate,
                      DescriptorComes, Undescribed, CpReset
<1>2. Typed /\ ApInv /\ Typed' /\ JobInv /\ GrayInv /\ [Next]_vars => GrayInv'
  BY GrayStep
<1>3. GrayInv => GrayConsistent
  BY DEF GrayInv, DescriptorComes, Undescribed, GrayConsistent
<1>4. Spec => []JobInv
  BY JobInvAlways
<1> QED
  BY <1>1, <1>2, <1>3, <1>4, TypedAlways, PTL DEF Spec

-----------------------------------------------------------------------------
(* RetryInv: no report cancels the retry alarm after the AP's last word.   *)

LEMMA MovedSuffix ==
    ASSUME Typed, Typed', NEW k \in {0, 1}, Moved(k), ap' = ap
    PROVE  /\ \A n \in Nat \ {0} : NoReportFrom(n + k) => NoReportFrom(n)'
           /\ \A n \in Nat \ {0} : OnlyFinalsFrom(n + k) => OnlyFinalsFrom(n)'
           /\ NoReportFrom(1) => NoReportFrom(1 + k)
           /\ OnlyFinalsFrom(1) => OnlyFinalsFrom(1 + k)
<1>1. Len(queue) \in Nat /\ Len(queue') \in Nat
  BY DEF Typed, Queues
<1>2. ASSUME NEW n \in Nat \ {0}, NEW i \in n .. Len(queue'),
             queue'[i].id = "AP_REPORT"
      PROVE  i + k \in n + k .. Len(queue) /\ queue'[i] = queue[i + k]
  BY <1>1, <1>2 DEF Moved, ApEvents
<1>3. \A n \in Nat \ {0} : NoReportFrom(n + k) => NoReportFrom(n)'
  BY <1>2 DEF NoReportFrom
<1>4. \A n \in Nat \ {0} : OnlyFinalsFrom(n + k) => OnlyFinalsFrom(n)'
  BY <1>2 DEF OnlyFinalsFrom
<1>5. 1 + k .. Len(queue) \subseteq 1 .. Len(queue)
  BY <1>1
<1> QED
  BY <1>3, <1>4, <1>5 DEF NoReportFrom, OnlyFinalsFrom

\* A retry that waits in the queue goes on waiting there, unless it is taken.
LEMMA RetryWaits ==
    ASSUME Typed, Typed', Waiting("RETRY_TIMEOUT") # {},
           \/ Moved(0)
           \/ Moved(1) /\ Head(queue).id # "RETRY_TIMEOUT"
           \/ \E r : Added(r)
    PROVE  Waiting("RETRY_TIMEOUT")' # {}
<1>1. /\ Len(queue) \in Nat /\ DOMAIN queue = 1 .. Len(queue)
      /\ Len(queue') \in Nat /\ DOMAIN queue' = 1 .. Len(queue')
  BY DEF Typed, Queues
<1>2. PICK i \in 1 .. Len(queue) : queue[i].id = "RETRY_TIMEOUT"
  BY <1>1 DEF Waiting
<1>3. ASSUME NEW j \in 1 .. Len(queue'), queue'[j] = queue[i]
      PROVE  Waiting("RETRY_TIMEOUT")' # {}
  BY <1>1, <1>2, <1>3 DEF Waiting
<1>4. CASE Moved(0)
  <2>1. i \in 1 .. Len(queue') /\ queue'[i] = queue[i]
    BY <1>1, <1>4 DEF Moved
  <2> QED
    BY <1>3, <2>1
<1>5. CASE Moved(1) /\ Head(queue).id # "RETRY_TIMEOUT"
  <2>1. i # 1
    BY <1>1, <1>2, <1>5
  <2>2. i - 1 \in 1 .. Len(queue') /\ (i - 1) + 1 = i
    BY <1>1, <1>5, <2>1 DEF Moved
  <2>3. queue'[i - 1] = queue[i]
    BY <1>1, <1>5, <2>2 DEF Moved
  <2> QED
    BY <1>3, <2>2, <2>3
<1>6. ASSUME NEW r, Added(r) PROVE Waiting("RETRY_TIMEOUT")' # {}
  <2>1. CASE queue' = queue
    BY <1>3, <2>1
  <2>2. CASE /\ Len(queue') = Len(queue) + 1
             /\ \A n \in 1 .. Len(queue) : queue'[n] = queue[n]
    <3>1. i \in 1 .. Len(queue') /\ queue'[i] = queue[i]
      BY <1>1, <2>2
    <3> QED
      BY <1>3, <3>1
  <2> QED
    BY <1>6, <2>1, <2>2 DEF Added
<1> QED
  BY <1>4, <1>5, <1>6

\* Nothing is left of a job when it starts or when its power is gone.
LEMMA NothingLeft ==
    ASSUME Typed, Typed', JobInv, Launched \/ Completed
    PROVE  \A i \in 1 .. Len(queue') : queue'[i].id # "AP_REPORT"
<1>1. Len(queue) \in Nat /\ Len(queue') \in Nat
  BY DEF Typed, Queues
<1>2. queue # <<>> => 1 \in 1 .. Len(queue) /\ Head(queue) = queue[1]
  BY <1>1 DEF Typed, Queues
<1>3. \A i \in 2 .. Len(queue) : queue[i].id # "AP_REPORT"
  BY <1>2 DEF Launched, Completed, Taken, JobInv, ReportsCurrent, PoweredOffLast
<1>4. Shifts(1, {Plain("BOOT")})
  BY TailShifts DEF Launched, Completed, Taken
<1> QED
  BY <1>1, <1>3, <1>4 DEF Shifts, Plain

LEMMA RetryCp ==
    ASSUME Typed, Typed', JobInv, RetryInv, CpWays, "pm" \notin Faults
    PROVE  RetryInv'
<1>1. ap' = ap
  BY DEF CpWays
<1>2. queue # <<>> => 1 \in 1 .. Len(queue) /\ Head(queue) = queue[1]
  BY DEF Typed, Queues
<1>3. EndsItself'
  BY <1>1 DEF RetryInv, EndsItself
<1>4. CASE Launched \/ Completed
  <2>1. \A i \in 1 .. Len(queue') : queue'[i].id # "AP_REPORT"
    BY <1>4, NothingLeft
  <2>2. NoReportFrom(1)' /\ OnlyFinalsFrom(1)' /\ WordsInOrder'
    BY <2>1 DEF NoReportFrom, OnlyFinalsFrom, WordsInOrder
  <2>3. WorkIsOver'
    BY <1>4, <2>2 DEF Launched, Completed, RetryInv, WorkIsOver
  <2>4. RetryPending'
    BY <1>4 DEF Launched, Completed, JobInv, ReturnsOutside, RetryPending
  <2> QED
    BY <1>3, <2>2, <2>3, <2>4 DEF RetryInv
<1>5. ASSUME NEW k \in {0, 1}, Moved(k), cp'.apVoteOn = cp.apVoteOn,
             cp.poweringDown => cp'.poweringDown,
             cp'.poweringDown =>
                cp.poweringDown \/ (cp'.workComplete /\ cp'.powerdownReady /\ cp.apVoteOn),
             cp.workComplete => cp'.workComplete,
             cp.powerdownReady => cp'.powerdownReady,
             cp'.workComplete =>
                \/ cp.workComplete
                \/ /\ k = 1 /\ 1 \in 1 .. Len(queue) /\ queue[1].id = "AP_REPORT"
                   /\ queue[1].report \in Finals \cup {"ERROR"},
             cp'.powerdownReady =>
                \/ cp.powerdownReady
                \/ /\ k = 1 /\ 1 \in 1 .. Len(queue) /\ queue[1].id = "AP_REPORT"
                   /\ queue[1].report = "POWERDOWN_READY",
             RetryPending'
      PROVE  RetryInv'
  <2>1. /\ \A n \in Nat \ {0} : NoReportFrom(n + k) => NoReportFrom(n)'
        /\ \A n \in Nat \ {0} : OnlyFinalsFrom(n + k) => OnlyFinalsFrom(n)'
        /\ NoReportFrom(1) => NoReportFrom(1)'
        /\ OnlyFinalsFrom(1) => OnlyFinalsFrom(1)'
    BY <1>1, <1>5, MovedSuffix
  <2>2. (Over => Over') /\ (LastWord => LastWord')
    BY <1>1, <1>5 DEF Over, LastWord
  <2>3. WordsInOrder'
    <3> SUFFICES ASSUME NEW i \in 1 .. Len(queue'), queue'[i].id = "AP_REPORT"
                 PROVE  /\ queue'[i].report \in Finals => Over' /\ NoReportFrom(i + 1)'
                        /\ queue'[i].report = "ERROR" => ap'.failed
                        /\ queue'[i].report = "POWERDOWN_READY" =>
                              LastWord' /\ OnlyFinalsFrom(i + 1)'
      BY DEF WordsInOrder, NoReportFrom, OnlyFinalsFrom
    <3>1. /\ i + k \in 1 .. Len(queue) /\ queue'[i] = queue[i + k]
          /\ i + 1 \in Nat \ {0} /\ (i + k) + 1 = (i + 1) + k
      BY <1>5 DEF Moved, ApEvents, Typed, Queues
    <3> QED
      BY <1>1, <2>1, <2>2, <3>1 DEF RetryInv, WordsInOrder
  <2>4. WorkIsOver'
    <3>1. cp'.poweringDown => cp'.apVoteOn /\ cp'.powerdownReady /\ cp'.workComplete
      BY <1>5 DEF RetryInv, WorkIsOver
    <3>2. cp.apVoteOn /\ cp'.workComplete => ap.failed \/ (Over' /\ NoReportFrom(1)')
      <4>1. CASE cp.workComplete
        BY <2>1, <2>2, <4>1 DEF RetryInv, WorkIsOver
      <4>2. CASE /\ k = 1 /\ 1 \in 1 .. Len(queue) /\ queue[1].id = "AP_REPORT"
                 /\ queue[1].report \in Finals \cup {"ERROR"}
        <5>1. ap.failed \/ (Over /\ NoReportFrom(1 + 1))
          BY <4>2 DEF RetryInv, WordsInOrder
        <5> QED
          BY <2>1, <2>2, <4>2, <5>1
      <4> QED
        BY <1>5, <4>1, <4>2
    <3>3. cp.apVoteOn /\ cp'.powerdownReady => LastWord' /\ OnlyFinalsFrom(1)'
      <4>1. CASE cp.powerdownReady
        BY <2>1, <2>2, <4>1 DEF RetryInv, WorkIsOver
      <4>2. CASE /\ k = 1 /\ 1 \in 1 .. Len(queue) /\ queue[1].id = "AP_REPORT"
                 /\ queue[1].report = "POWERDOWN_READY"
        <5>1. LastWord /\ OnlyFinalsFrom(1 + 1)
          BY <4>2 DEF RetryInv, WordsInOrder
        <5> QED
          BY <2>1, <2>2, <4>2, <5>1
      <4> QED
        BY <1>5, <4>1, <4>2
    <3> QED
      BY <1>1, <1>5, <3>1, <3>2, <3>3 DEF WorkIsOver
  <2> QED
    BY <1>3, <1>5, <2>3, <2>4 DEF RetryInv
<1>6. CASE Handled
  <2>1. Moved(1)
    BY <1>6, CpMoved
  <2>2. RetryPending'
    <3> SUFFICES ASSUME cp'.state = "RETRY_WAIT", ~lost', ~cp'.oneshotArmed
                 PROVE  Waiting("RETRY_TIMEOUT")' # {}
      BY DEF RetryPending
    <3>1. /\ cp.state = "RETRY_WAIT" /\ ~cp.oneshotArmed /\ ~lost
          /\ Head(queue).id # "RETRY_TIMEOUT"
      BY <1>6 DEF Handled, Taken
    <3> QED
      BY <2>1, <3>1, RetryWaits DEF RetryInv, RetryPending
  <2>3. cp'.poweringDown => cp.poweringDown
    BY <1>6 DEF Handled
  <2> QED
    BY <1>5, <1>6, <2>1, <2>2, <2>3 DEF Handled
<1>7. CASE Inserted
  <2>1. Moved(0)
    BY <1>7, CpMoved
  <2>2. RetryPending'
    <3> SUFFICES ASSUME cp'.state = "RETRY_WAIT", ~lost', ~cp'.oneshotArmed
                 PROVE  Waiting("RETRY_TIMEOUT")' # {}
      BY DEF RetryPending
    <3>1. cp.state = "RETRY_WAIT" /\ ~lost
      BY <1>7 DEF Inserted
    <3>2. CASE ~cp.oneshotArmed
      BY <2>1, <3>1, <3>2, RetryWaits DEF RetryInv, RetryPending
    <3>3. CASE cp.oneshotArmed
      <4>1. queue' = PushTo(queue, Plain("RETRY_TIMEOUT")) /\ Len(queue) < QueueDepth
        BY <1>7, <3>3 DEF Inserted
      <4>2. /\ Len(queue) + 1 \in DOMAIN queue'
            /\ queue'[Len(queue) + 1].id = "RETRY_TIMEOUT"
        BY <4>1 DEF PushTo, Plain, Typed, Queues
      <4> QED
        BY <4>2 DEF Waiting
    <3> QED
      BY <3>2, <3>3
  <2> QED
    BY <1>5, <1>7, <2>1, <2>2 DEF Inserted, SameJob, SamePower
<1>8. CASE Heard
  <2>1. Moved(1)
    BY <1>8, CpMoved
  <2>2. 1 \in 1 .. Len(queue) /\ queue[1].id = "AP_REPORT" /\ Head(queue) = queue[1]
    BY <1>2, <1>8 DEF Heard
  <2>3. Head(queue).seq = cp.activeSeq /\ cp.apVoteOn
    BY <2>2 DEF JobInv, ReportsCurrent
  <2>4. Noted(Head(queue).report)
    BY <1>8, <2>3 DEF Heard
  <2>5. ~cp.poweringDown
    <3> SUFFICES ASSUME cp.poweringDown PROVE FALSE
      OBVIOUS
    <3>1. ap.failed \/ NoReportFrom(1)
      BY <2>3 DEF RetryInv, WorkIsOver
    <3>2. ~ap.failed
      BY <2>2, <2>3 DEF RetryInv, WorkIsOver, OnlyFinalsFrom
    <3> QED
      BY <2>2, <3>1, <3>2 DEF NoReportFrom
  <2>6. RetryPending'
    <3> SUFFICES ASSUME cp'.state = "RETRY_WAIT", ~lost', ~cp'.oneshotArmed
                 PROVE  Waiting("RETRY_TIMEOUT")' # {}
      BY DEF RetryPending
    <3>1. cp.state = "RETRY_WAIT" /\ ~cp.oneshotArmed /\ ~lost
      BY <1>8, <2>3, <2>4, <2>5 DEF Heard, Noted
    <3> QED
      BY <2>1, <2>2, <3>1, RetryWaits DEF RetryInv, RetryPending
  <2>7. cp'.workComplete =>
            \/ cp.workComplete
            \/ queue[1].report \in Finals \cup {"ERROR"}
    BY <2>2, <2>4 DEF Noted, Finals
  <2>8. cp'.powerdownReady => cp.powerdownReady \/ queue[1].report = "POWERDOWN_READY"
    BY <2>2, <2>4 DEF Noted
  <2> QED
    BY <1>5, <1>8, <2>1, <2>2, <2>4, <2>6, <2>7, <2>8 DEF Heard, Noted
<1> QED
  BY <1>4, <1>6, <1>7, <1>8 DEF CpWays

LEMMA RetryAp ==
    ASSUME Typed, Typed', ApInv, RetryInv, ApWays, ApMoves, cp' = cp,
           "camera" \in Faults => "QR_DONE" \notin Inputs
    PROVE  RetryInv'
<1>1. ap'.pc = "off" <=> ap.pc = "off"
  BY DEF ApMoves, ApReports
<1>2. /\ ap.pc \in Closing => ap.job # "WIFI_CONNECT"
      /\ ap.pc \in Closing /\ "QR_DONE" \in Inputs => ap.job \notin Handed
      /\ ap.pc = "off" => ap.job \notin Handed
  BY DEF RetryInv, EndsItself, ApInv, QuietOK, Handed
<1>3. ap.failed => ap'.failed
  <2>1. ~ap'.failed /\ ap.failed =>
            "QR_DONE" \in Inputs /\ ap.pc = "done" /\ ap.job \in Handed
    BY DEF ApWays, Walks, Speaks, Says, SameOutcome, RetryInv, EndsItself
  <2> QED
    BY <1>2, <2>1 DEF Closing
<1>4. EndsItself'
  <2>1. ASSUME ap'.pc \in Closing
        PROVE  /\ ap'.job # "WIFI_CONNECT"
               /\ "QR_DONE" \in Inputs => ap'.job # "QR_PROVISION"
    <3>1. ap'.job = ap.job
      BY <2>1 DEF ApMoves, ApStops, Closing
    <3>2. \/ ap.pc \in Closing
          \/ ap.pc = "dispatch" /\ DispatchFails
          \/ ap.pc \in {"capture", "second", "compare", "advance", "lastGray"}
      BY <2>1 DEF ApWays, Walks, Paths, Speaks, Says, Closing
    <3>3. ap.pc \in {"capture", "second", "compare", "advance", "lastGray"}
             => ap.job = "MOTION_CHECK"
      BY DEF ApInv, QuietOK
    <3> QED
      BY <1>2, <3>1, <3>2, <3>3 DEF DispatchFails, Handed
  <2>2. ap'.failed => ap'.pc \in {"abort", "ready", "done"}
    <3>1. CASE ap.failed
      <4>1. ap.pc \in {"abort", "ready", "done"}
        BY <3>1 DEF RetryInv, EndsItself
      <4> QED
        BY <1>2, <3>1, <4>1 DEF ApWays, Walks, Paths, Speaks, Says, SameOutcome, Closing
    <3>2. CASE ~ap.failed
      BY <3>2 DEF ApWays, Walks, Speaks, Says, SameOutcome
    <3> QED
      BY <3>1, <3>2
  <2> QED
    BY <2>1, <2>2 DEF EndsItself
<1>5. CASE Walks
  <2>1. queue' = queue /\ lost' = lost
    BY <1>5 DEF Walks, Silently
  <2>2. Over => Over'
    BY <1>1, <1>5 DEF Over, Walks, Paths
  <2>3. LastWord => LastWord'
    BY <1>5, <2>2 DEF LastWord, Walks, Paths
  <2>4. /\ \A n : NoReportFrom(n) => NoReportFrom(n)'
        /\ \A n : OnlyFinalsFrom(n) => OnlyFinalsFrom(n)'
    BY <1>5, <2>1 DEF NoReportFrom, OnlyFinalsFrom, Walks
  <2>5. WordsInOrder'
    BY <1>3, <2>1, <2>2, <2>3, <2>4 DEF RetryInv, WordsInOrder
  <2>6. WorkIsOver'
    BY <1>3, <2>2, <2>3, <2>4 DEF RetryInv, WorkIsOver
  <2>7. RetryPending'
    BY <2>1 DEF RetryInv, RetryPending, Waiting
  <2> QED
    BY <1>4, <2>5, <2>6, <2>7 DEF RetryInv
<1>6. CASE Speaks
  <2>1. PICK rid \in ReportIds, f \in Picture :
            SendReport(Report(rid, ap.seq, f)) /\ Says(rid, f)
    BY <1>6 DEF Speaks
  <2> DEFINE r == Report(rid, ap.seq, f)
  <2>2. r.id = "AP_REPORT" /\ r.report = rid
    BY DEF Report
  <2>3. Added(r) /\ (lost => lost')
    BY <2>1, SpeaksAdds
  <2> HIDE DEF r
  <2>4. ~Over
    BY <1>2, <2>1 DEF Over, Says, Closing, Handed
  <2>5. LastWord => rid \in Finals /\ Over' /\ ~ap'.failed
    BY <1>2, <2>1, <2>4 DEF LastWord, Over, Says, SameOutcome, Closing, Handed, Finals
  <2>6. Len(queue) \in Nat /\ Len(queue') \in Nat
    BY DEF Typed, Queues
  <2>7. \A i \in 1 .. Len(queue') :
          \/ i \in 1 .. Len(queue) /\ queue'[i] = queue[i]
          \/ i = Len(queue) + 1 /\ i = Len(queue') /\ queue'[i] = r
    BY <2>3, <2>6 DEF Added
  <2>8. ASSUME LastWord, NEW n \in Nat \ {0}, OnlyFinalsFrom(n)
        PROVE  OnlyFinalsFrom(n)'
    <3>1. ~ap'.failed /\ r.report \in Finals
      BY <2>2, <2>5, <2>8
    <3> SUFFICES ASSUME NEW i \in n .. Len(queue'), queue'[i].id = "AP_REPORT"
                 PROVE  queue'[i].report \in Finals
      BY <3>1 DEF OnlyFinalsFrom
    <3> QED
      BY <2>6, <2>7, <2>8, <3>1 DEF OnlyFinalsFrom
  <2>9. WordsInOrder'
    <3> SUFFICES ASSUME NEW i \in 1 .. Len(queue'), queue'[i].id = "AP_REPORT"
                 PROVE  /\ queue'[i].report \in Finals => Over' /\ NoReportFrom(i + 1)'
                        /\ queue'[i].report = "ERROR" => ap'.failed
                        /\ queue'[i].report = "POWERDOWN_READY" =>
                              LastWord' /\ OnlyFinalsFrom(i + 1)'
      BY DEF WordsInOrder, NoReportFrom, OnlyFinalsFrom
    <3>1. CASE i \in 1 .. Len(queue) /\ queue'[i] = queue[i]
      <4>1. queue'[i].report \notin Finals
        BY <2>4, <3>1 DEF RetryInv, WordsInOrder
      <4>2. queue'[i].report = "ERROR" => ap'.failed
        BY <1>3, <3>1 DEF RetryInv, WordsInOrder
      <4>3. queue'[i].report = "POWERDOWN_READY" => LastWord /\ OnlyFinalsFrom(i + 1)
        BY <3>1 DEF RetryInv, WordsInOrder
      <4>4. i + 1 \in Nat \ {0}
        BY <3>1
      <4> QED
        BY <2>5, <2>8, <4>1, <4>2, <4>3, <4>4 DEF LastWord
    <3>2. CASE i = Len(queue') /\ queue'[i] = r
      <4>1. i + 1 .. Len(queue') = {}
        BY <2>6, <3>2
      <4>2. NoReportFrom(i + 1)' /\ OnlyFinalsFrom(i + 1)'
        BY <4>1 DEF NoReportFrom, OnlyFinalsFrom
      <4>3. /\ rid \in Finals => Over'
            /\ rid = "ERROR" => ap'.failed
            /\ rid = "POWERDOWN_READY" => LastWord'
        BY <2>1 DEF Says, SameOutcome, Finals, Over, LastWord
      <4> QED
        BY <2>2, <3>2, <4>2, <4>3
    <3> QED
      BY <2>7, <3>1, <3>2
  <2>10. WorkIsOver'
    BY <1>3, <2>4, <2>5, <2>8 DEF RetryInv, WorkIsOver, LastWord
  <2>11. RetryPending'
    BY <2>3, RetryWaits DEF RetryInv, RetryPending
  <2> QED
    BY <1>4, <2>9, <2>10, <2>11 DEF RetryInv
<1> QED
  BY <1>5, <1>6 DEF ApWays

LEMMA RetryPower ==
    ASSUME Typed, Typed', JobInv, RetryInv, PowerOn \/ PowerCut \/ Restart
    PROVE  RetryInv'
<1>1. ApOff.pc = "off" /\ ~ApOff.failed
  BY DEF ApOff
<1>2. ASSUME \A i \in 1 .. Len(queue') : queue'[i].id # "AP_REPORT"
      PROVE  WordsInOrder' /\ NoReportFrom(1)' /\ OnlyFinalsFrom(1)'
  BY <1>2 DEF WordsInOrder, NoReportFrom, OnlyFinalsFrom
<1>3. CASE PowerOn
  <2>1. /\ ap.pc = "off" /\ ap'.pc = "query" /\ cp.apVoteOn /\ ~cp.poweringDown
        /\ ~ap'.failed
    BY <1>3 DEF PowerOn, ApOff
  <2>2. UNCHANGED <<queue, cp, lost>>
    BY <1>3 DEF PowerOn, cpVars, ipcVars
  <2>3. ~Over /\ ~LastWord /\ ~ap.failed
    BY <2>1 DEF Over, LastWord, RetryInv, EndsItself
  <2>4. ~cp.workComplete /\ ~cp.powerdownReady
    BY <2>1, <2>3 DEF RetryInv, WorkIsOver
  <2>5. WordsInOrder'
    <3>1. \A i \in 1 .. Len(queue) :
              queue[i].id = "AP_REPORT" =>
                 queue[i].report \notin Finals \cup {"ERROR", "POWERDOWN_READY"}
      BY <2>3 DEF RetryInv, WordsInOrder
    <3> QED
      BY <2>2, <3>1 DEF WordsInOrder
  <2>6. EndsItself' /\ WorkIsOver' /\ RetryPending'
    BY <2>1, <2>2, <2>4
    DEF EndsItself, Closing, WorkIsOver, RetryInv, RetryPending, Waiting
  <2> QED
    BY <2>5, <2>6 DEF RetryInv
<1>4. CASE PowerCut
  <2>1. /\ cp.poweringDown /\ ap'.pc = "off" /\ ~ap'.failed /\ cp' = cp
        /\ Post(Plain("AP_POWERED_OFF"))
    BY <1>1, <1>4 DEF PowerCut
  <2>2. Added(Plain("AP_POWERED_OFF")) /\ (lost => lost')
    BY <2>1, PostAdds
  <2>3. /\ cp.apVoteOn
        /\ ap.failed \/ NoReportFrom(1)
        /\ OnlyFinalsFrom(1)
    BY <2>1 DEF RetryInv, WorkIsOver
  <2>4. \A i \in 1 .. Len(queue) : queue[i].id # "AP_REPORT"
    BY <2>3 DEF NoReportFrom, OnlyFinalsFrom
  <2>5. \A i \in 1 .. Len(queue') : queue'[i].id # "AP_REPORT"
    BY <2>2, <2>4 DEF Added, Plain, Typed, Queues
  <2>6. WordsInOrder' /\ NoReportFrom(1)' /\ OnlyFinalsFrom(1)'
    BY <1>2, <2>5
  <2>7. Over' /\ LastWord'
    BY <2>1 DEF Over, LastWord
  <2>8. EndsItself' /\ WorkIsOver'
    BY <2>1, <2>6, <2>7 DEF EndsItself, Closing, RetryInv, WorkIsOver
  <2>9. RetryPending'
    BY <2>1, <2>2, RetryWaits DEF RetryInv, RetryPending
  <2> QED
    BY <2>6, <2>8, <2>9 DEF RetryInv
<1>5. CASE Restart
  <2>1. /\ queue' = <<Plain("BOOT")>> /\ cp' = CpReset /\ ap'.pc = "off" /\ ~ap'.failed
    BY <1>1, <1>5 DEF Restart
  <2>2. \A i \in 1 .. Len(queue') : queue'[i].id # "AP_REPORT"
    BY <2>1 DEF Plain
  <2> QED
    BY <1>2, <2>1, <2>2
    DEF RetryInv, EndsItself, Closing, WorkIsOver, RetryPending, CpReset
<1> QED
  BY <1>3, <1>4, <1>5

LEMMA RetryStep ==
    ASSUME "pm" \notin Faults, "camera" \in Faults => "QR_DONE" \notin Inputs
    PROVE  Typed /\ ApInv /\ Typed' /\ JobInv /\ RetryInv /\ [Next]_vars => RetryInv'
<1> SUFFICES ASSUME Typed, ApInv, Typed', JobInv, RetryInv, [Next]_vars
             PROVE  RetryInv'
  OBVIOUS
<1>1. CASE UNCHANGED vars
  <2>1. UNCHANGED <<queue, lost, cp, ap>>
    BY <1>1 DEF vars
  <2>2. WordsInOrder' /\ WorkIsOver'
    BY <2>1 DEF RetryInv, WordsInOrder, WorkIsOver, Over, LastWord, NoReportFrom,
                OnlyFinalsFrom
  <2> QED
    BY <2>1, <2>2 DEF RetryInv, EndsItself, RetryPending, Waiting
<1>2. ~Transport
  BY DEF JobInv, Transport, LateArrival
<1> QED
  BY <1>1, <1>2, SortedWays, RetryCp, RetryAp, RetryPower

\* aov_cp_enter_retry and aov_cp_finish_powerdown, which cancels the one-shot
\* alarm: as long as no message is lost, the retry that RETRY_WAIT waits for is
\* still to come, for nothing the AP says comes after what ends its job.  The
\* alarm must be available, and what the camera's failure made of a job is not
\* taken back by completing the provisioning.
THEOREM RetrySafe ==
    ASSUME "late" \notin Faults, "pm" \notin Faults,
           "camera" \in Faults => "QR_DONE" \notin Inputs
    PROVE  Spec => []RetryPending
<1>1. Init => RetryInv
  <2> SUFFICES ASSUME Init PROVE RetryInv
    OBVIOUS
  <2>1. /\ queue = <<Plain("BOOT")>> /\ cp = CpReset /\ ap.pc = "off" /\ ~ap.failed
    BY DEF Init, CpInit, IpcInit, ApInit, ApOff
  <2>2. \A i \in 1 .. Len(queue) : queue[i].id # "AP_REPORT"
    BY <2>1 DEF Plain
  <2> QED
    BY <2>1, <2>2 DEF RetryInv, EndsItself, Closing, WordsInOrder, WorkIsOver,
                      RetryPending, CpReset
<1>2. Typed /\ ApInv /\ Typed' /\ JobInv /\ RetryInv /\ [Next]_vars => RetryInv'
  BY RetryStep
<1>3. RetryInv => RetryPending
  BY DEF RetryInv
<1>4. Spec => []JobInv
  BY JobInvAlways
<1> QED
  BY <1>1, <1>2, <1>3, <1>4, TypedAlways, PTL DEF Spec

=============================================================================
