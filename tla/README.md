# A formal model of bk_solution_ipc

TLA+ modules, TLC runs and TLAPS proofs about the firmware of the BK7259 IP
cameras (`projects/*` and `components/*` of this repository). The chip has two
cores. The **CP** stays powered, owns Wi-Fi, the RTC and the sleep modes, and
votes the **AP** on and off; the AP owns camera, codecs and display and is only
awake while it has a job. What is hard to test in this firmware is what happens
*between* the cores and *between* threads, so that is what is modelled.

## 1. Inventory

### 1.1 AOV camera (`projects/aov`)

| Part | State | Operations | Talks to |
|---|---|---|---|
| CP state machine (`cp/state_machine/aov_cp_state_machine.c`) | state and return state, active job and its sequence number, AP vote, power-down flags, sleep vote, the two alarms, event queue of 16 | worker loop over 17 events and 9 reports; `start_ap_job`, `try_powerdown`, `finish_` and `complete_ap_powerdown`, `enter_retry`; alarm and power-off callbacks | device record (calls), AP (shared environment, messages, power vote) |
| Device record (`aov_cp_device.c`, `aov_cp_device_store.c`) | credentials, flags for factory reset and OTA, boot state; a copy in RAM and one in flash | load, commit, factory reset, set and clear credentials | CP worker, the console |
| AP state machine (`ap/state_machine/aov_ap_state_machine.c`) | job, sequence, pictures, motion counters | query the shared environment, dispatch the job, compare, stop and report | CP (reports), Wi-Fi worker, camera |
| AP Wi-Fi worker (`aov_ap_wifi.c`) | queue of requests, connecting flag | connect, hand a result over, run the motion job after the connection | AP state machine |
| Pictures (`aov_ap_motion.c`, `aov_ap_snapshot.c`, `aov_ap_record.c`) | current and previous gray picture | capture, compare, record | AP state machine |
| QR provisioning (`aov_ap_qr_provision.c`) | decoder thread | start, complete, stop | AP state machine, device record |
| IPC receiver, power control (`db_ipc_msg.c`, `powerctrl.c`) | wake-up environment | dispatch a message, vote the host on or off | everything on the CP |

*Hard behaviours.* Alarms and the power-off callback run in interrupt context
and only post events, so each event is handled in a state that may have moved
on; reports are confirmed even if the worker's queue was full; a report whose
transfer timed out can arrive during a later job; starting or ending a job
cancels the one-shot alarm that a retry is waiting for; the picture and its
descriptor travel by different ways; the job runner and the Wi-Fi worker of the
AP run side by side; any write to flash may fail and the chip may restart.

*What makes it correct.* The CP sleeps only with the AP off. It powers off only
an AP that has stopped its camera and finished its job. What state it shows
agrees with its vote. A retry it waits for will come. Detection stays armed and
in phase, so the AP wakes again. Each motion check ends. The picture kept for
the next comparison is the one its descriptor describes. The record in RAM is
the record in flash, and a promised factory reset happens.

### 1.2 Keepalive (`projects/*/cp/keepalive`, `cp/db_pack`)

While the AP is off, a TX and an RX thread on the CP hold the connection to the
server: heartbeat on an RTC alarm, a counter of unanswered requests, a wake-up
of the AP when a command comes or the link is lost. State: the environment
record shared by the two threads and the command thread, one socket, one
semaphore, thread handles. *Hard:* the peer can close while the TX thread is
still powering the host down; a stop can come while it is connecting; three
threads reach the teardown. *Correct:* the AP is off only while a keepalive is
up that will wake it; resources are released once, and after both threads.
`db_pack` reassembles packets from a byte stream.

### 1.3 Doorbell application (`components/doorbell_common`, `smart_lock`, `smart_intercom`)

The core thread serves a queue of ten messages and keeps the current service; a
countdown on idle media (a mask of votes) stops the service and asks the CP for
a keepalive; the network-transfer callbacks collect masks of connected and
stopped channels; device functions turn camera, display, audio and video
transfer on and off; the intercom adds a downlink decoder with its slot pools
and a display compositor. *Hard:* votes that arrive between the countdown and
the stop; channel events out of order; messages dropped from the full queue; a
service that is stopped for keepalive and has to be startable again. *Correct:*
the AP is given up only with no media active; after every wake-up a service
runs again; no slot is lost or in two hands.

### 1.4 Media service (`components/multimedia_device_service`)

Queues that hand buffers between encoders and consumers (`mds_img_manager.c`,
`encode_frame_que.c`), a device-management thread (`devices_mgmt.c`), and
open/close functions over SDK drivers. *Hard:* deinit by one side while the
other holds a buffer; a counter that is kept next to a queue. *Correct:*
buffers are conserved, and the counter says what the queue holds.

### 1.5 The rest

Boot video and boot image player, video OSD, the PT-camera features (motor,
day/night, bring-up), the tuning bench, radio calibration tables, the vendored
neural-network module. `PROJECT.json` lists each with its status.

## 2. Plan

**Done.**

1. The AOV camera, both cores: `AovIpc`, `AovDevice`, `AovCp`, `AovAp`, composed
   in `AovSystem`; the abstract power manager `AovPower` that it implements; its
   invariants in `AovInductive`, proofs in `AovSystem_proofs`,
   `AovPower_proofs` and `AovSafety_proofs`.
2. The keepalive: `KeepaliveCp` (threads, watchdog, teardown) and
   `KeepaliveSystem` (the AP that hands over its connection, loses power and is
   woken); the abstract session `KeepaliveSession` that it implements; proofs of
   both, of the teardown and of who watches the host in `KeepaliveSystem_proofs`.
3. The doorbell of the AP: `DoorbellKeepalive`, `DoorbellTransfer`, composed in
   `DoorbellSystem`: the AP that `KeepaliveSystem` reduces to six states;
   proofs in `DoorbellSystem_proofs`.
4. The two video paths: `DownlinkPool` and `DownlinkVideo` (server to display),
   `UplinkFrames` and `UplinkVideo` (camera to server); proofs of both in
   `DownlinkVideo_proofs` and `UplinkVideo_proofs`, over `QueueLemmas`.

**Next.**

5. Every safety property that a run checks is proved. To come: an abstract
   specification of the doorbell's power and its votes, with the proof that
   `DoorbellSystem` implements it.
6. The commit of the AOV device record split over console and worker.
7. `DbPack` as an algorithm against the stream that was sent; `devices_mgmt.c`;
   the display compositor and the zero-copy receiver; the boot video player.

Runs stay small: one connection, one or two of every value the code does not
count, the queue as deep as the scenario fills it. Modules that are proved
about use no RECURSIVE operator and have named assumptions on their constants.

## 3. The models

### 3.1 AOV camera

| Module | Models | Variables |
|---|---|---|
| `AovIpc` | `aov_state_protocol.h`; the worker's queue; reports that are delivered, lost or late; the shared environment | `queue`, `wire`, `toAp`, `shared`, `lost` (history) |
| `AovDevice` | the device record in RAM and flash | `device` |
| `AovCp` | the CP worker and the alarms | `cp` (the fields of `s_cp_sm`) |
| `AovAp` | job runner, camera and Wi-Fi worker of the AP | `ap` |
| `AovSystem` | both cores, the power manager, restarts; the properties | |
| `AovPower` | what the camera promises its battery: the power of the AP, the sleep vote, whether the AP works | `power`, `asleep`, `working` |
| `AovInductive` | the inductive invariants; the module of the runs | |
| `AovSystem_proofs`, `AovPower_proofs`, `AovSafety_proofs` | theorems | |

A step of the CP is one event taken from the queue with all that
`aov_cp_handle_event` does for it; the functions it calls are operators on the
record `cp` under their names in the code. An interrupt is a step that posts.
The thread on the AP that runs the job is a program counter `ap.pc`, with one
step for each report sent and each camera operation, because the CP can
interleave there; the Wi-Fi worker takes over the counter (`ap.runner`) when it
runs the motion job. The camera's pictures are model values: the program only
asks which one the descriptor is about. `lost` records that some event or
message was dropped: properties that assume delivery say so with it.

`AovSystem` maps its state to `AovPower`: the power is "going" between the
CP's decision to cut and the confirmation, and the AP works while it runs a job
or its camera is on. `PowerManaged` is the safety of that mapping, `PowerReturns`
its fairness: what is being cut is off in the end.

External code (the transport `bk_wdrv_customer_transfer`, the power manager,
the alarms) is modelled from its use in `src/`, and marked in the map.

#### Constants and bounds

`QueueDepth` (16 in the code) is 3 to 6: enough for a report, a power-off, a
tick and inputs to wait together, and in the runs with 3 and 4 it overflows.
`SeqMod` (2^32) is 2 to 4, so the sequence wraps in every run. `TickBacklog`
and `InputBacklog` bound how many ticks wait and how full the queue may be when
the product posts. `NoMotionStop` (3) is 1 or 2, `MaxMotion` bounds the
comparisons of a job that see motion (in the code the wall clock does). `Faults`
names the failures an instance admits, `Inputs` the product events and console
commands. `Orderly` tells a product that reports what it was asked for from a
console that injects anything. `SlowWifi` is the assumption that the network
takes longer than the boot of the AP.

### 3.2 Keepalive

| Module | Models | Variables |
|---|---|---|
| `KeepaliveCp` | `db_keepalive.c`, the votes of `powerctrl.c`, the connection | `env` (the fields of `s_keepalive_env`), `pc`, `leaving`, `held`, `alarm`, `host`, `link`, `inbox` |
| `KeepaliveSystem` | the above with the AP, its power and its reasons; the properties | `ap` |
| `KeepaliveSession` | the life of a session: none, open, ending, releasing, and the threads that use it | `phase`, `users` |
| `KeepaliveSystem_proofs` | theorems | |

`pc.tx`, `pc.rx` and `pc.cmd` say where the two threads and the IPC thread that
runs START and STOP are. A step ends where another thread can see a difference:
`pl_wakeup_host` and `pl_power_down_host` are two steps, the reason and the vote;
the deinitialisation is two, before and after the socket is closed; the counter
of unanswered requests is incremented in two, a read (`held`) and a write, since
RX clears it without a lock. A thread that has cleared its handle no longer
counts as TX or RX, and a new session may start next to it: `leaving` counts
such threads at each stage of `db_keepalive_release_resources_if_idle`, which
are to claim the teardown, to run it, and to write the field that `os_memset`
just cleared. The server answers a heartbeat or does not, asks for the host,
falls silent or closes.

`KeepaliveSystem` maps this to `KeepaliveSession`: the phase is "open" while
`keepalive_ongoing`, "releasing" while `releasing`, and "ending" from the end of
a session, or a STOP without one, until nothing is left of it; its users are TX
and RX until they clear their handle. `SessionManaged` is the safety of that
mapping, `TeardownCompletes` that "ending" comes to "none".

The AP is `doorbell_keepalive.c` of `smart_lock` in a build with
`DOORBELL_KEEPALIVE_ALWAYS_ON` off, as in the Kconfig default; with the option
on the AP never hands over. It reads the reason when it has booted, stops the
CP's session if the server asked for it, and serves on its own connection;
handing over is the step at which it sends START. When it becomes idle is left
open. The power manager acts on a vote in the step it is cast, or, with `slow`,
some steps later.

`MaxNoResp` (3 in the code) is 2, and 3 where the limit itself is the question;
`InboxDepth` 2 lets a response and a command wait together; `MaxLeaving` 1
bounds how many threads of an old session may be on their way out when the next
one starts, which happens with `quick` only: a START comes after an idle time of
ten seconds or more, a thread leaves within the three seconds of a socket
time-out. `Faults` names the other failures and timings; `early` lets the server
act before TX has powered the host down, `preempt` lets the releaser lose the
CPU between its last two lines, `reset` restarts the AP.

### 3.3 Doorbell

| Module | Models | Variables |
|---|---|---|
| `DoorbellKeepalive` | the message queue, the votes of the media, the idle countdown with its handler in the timer thread, the pending flag, what a booted AP does for each reason | `queue`, `votes`, `pending`, `wakeCmd`, `timer`, `handler`, `flash` |
| `DoorbellTransfer` | the events of the three channels, the masks, the messages they make | `link`, `reports`, `update`, `connected`, `stopped`, `transport`, `met` (history) |
| `DoorbellSystem` | core thread, command thread, boarding, power; the properties | `service`, `core`, `cmd`, `running`, `power`, `unanswered` (history) |
| `DoorbellSystem_proofs` | inductive invariants and theorems | |

Five threads interleave: the core thread takes one message per step and is
split where it leaves the queue alone but others run (closing a lost connection;
between the check of `send_keepalive` and the message to the CP); a command is
received, votes and turns a medium on in separate steps; the timer handler sends
the stop in one step and sets the flag in the next; each channel reports for
itself. Messages carry the service only. The mask of connected channels
(`doorbell_network_transfer.c:50-63`) is written by the threads of the channels
without a lock, so an update is two steps, a read and a write (`update`);
meanwhile another channel, or the core thread's reset, may write. Two history
variables let the properties speak of causes: `met`, the channels that have
connected since the service started, and `unanswered`, that the last stop found
no service.

The transport library `ntwk_trans` is not in the repository. From its use the
model assumes: to start or stop the channels returns to the core thread when
each has reported; a channel reports its start before it connects, and its end
when its thread is done with the mask; the name of the service goes with the end
of the last channel, so a stop of a service that is gone is answered by nobody
(`doorbell_network_transfer.c:306-313` drops every event that finds no name);
the thread of the control channel ends a command before it reports the end of
its channel. Assumptions
about time, each a guard with a comment: the countdown, at least three seconds,
outlasts the reports of a channel and the handling of a queued stop response;
stopping the channels takes longer than the timer thread takes from its message
to its flag. `Preempted` drops the last kind for the core thread: with it TLC
finds `PendingHasCause` and `IdleSleeps` violated (see the disagreements in
section 4).

`Faults` names what else may go wrong: `ipc`, a STOP that the CP does not
confirm; `flash`; `full`, a queue that overflows; `intrude`, a user who asks for
a service in the instant of the hand-over. The last three break a property, and
a note at the hazard says which; `db_sleep` is without them. The queue is 4
deep (10 in the code) and, but for `full`, what comes from outside leaves two
places, those for messages of updates under way not counted; it is assumed to
hold more than two, since an AP that boots for a wake-up sends two messages
before any is handled. One medium and one service are enough for `db_sleep`: the
code treats camera and LCD alike, and services differ in which loss means what
(`LossEvent`). The theorems are about any of them. The audio is turned off
before the connection is shut down and may be turned on again in between,
without a vote: `RunningIsVoted` and `HandedOverIdle` except it.

### 3.4 Downlink video (`smart_intercom`)

| Module | Models | Variables |
|---|---|---|
| `DownlinkPool` | `doorbell_downlink_img_manager.c`: the stack of free slots, the FIFO of filled ones, each under the pool's mutex | `up`, `free`, `ready`, `unit` |
| `DownlinkVideo` | the receiver in the network thread, the decode task, start, stop and restart in the command thread; the properties | `recv`, `gap`, `dl` (the flags of `s_dl`), `dec`, `gone`, `ctl` |
| `DownlinkVideo_proofs`, `QueueLemmas` | theorems; lemmas about queues | |

A picture is IDR or P, and carries a history variable: what became of the
access unit before it in the stream (`after`: stored; lost and the decoder told;
lost untold). The decoder keeps what it would decode the next P picture against.
With these two the properties can ask whether a P picture that passes the gate
has its reference. The steps of the decode task are the ones between which a
drop can fall: pop, apply the broken mark, the gate, decode, give back, exit.

`Faults`: `decode`, `lossy` and `start` are in `dl_video`. `midframe`, a restart
while the receiver fills a slot, returns the slot to a pool that has it already
and breaks `SlotsAccounted`; `preempt`, a decode task that loses the CPU after
its last signal until the next one exists, clears the handle of its successor
and breaks `TornDownUnused`. Both are noted at their hazards. A unit too big for
a slot is dropped without telling the decoder (`lossy` covers it).

### 3.5 Uplink video (`smart_lock`, media service)

| Module | Models | Variables |
|---|---|---|
| `UplinkFrames` | `mds_img_manager.c`: free and ready queue, the counter next to them | `input`, `free`, `ready`, `count` |
| `UplinkVideo` | the callbacks of the H.264 encoder (`app_codec.c`), the transfer task and its start and stop (`doorbell_devices.c`), the command thread; the properties | `enc`, `task`, `cfg`, `video`, `ctl` |
| `UplinkVideo_proofs` | theorems | |

Taking a frame and counting it are two steps of the thread that does them, so
the encoder and the transfer task overlap there. The output side is never
disabled (`bk_encoded_data_manager_deinit` is called with 1 only), so frames
that were not sent stay for the next camera. The drop policy belongs to the SDK:
the encoder may give back any frame. `Faults`: `camera`, `memory` and `thread`
are in the run; a thread that cannot be created leaves its configuration behind
(`doorbell_devices.c:1193`), and every later camera is reported on and not sent:
`OnDelivers` excepts that state by name. `isp`, an ISP that cannot be turned
off, breaks `OnDelivers` and stays out.

## 4. Runs

| Run | Question | Faults |
|---|---|---|
| `aov_lifecycle` | Detection stays armed and in phase, pictures match their descriptors, motion checks end, detection recurs, and the whole implements `AovPower` with its fairness; no deadlock | none |
| `aov_faults` | The sleep vote, a promised reset over restarts and failed writes, and `AovPower` | messages, camera, Wi-Fi, power manager, restarts, flash |
| `aov_late` | Power-off, and the waiver of the last picture (`GrayWaiverEarned`), with reports that arrive late, in a later job | late, camera |
| `aov_product` | Provisioning, failed registrations, console commands: RAM is flash, the retry is ahead, job states agree with the vote | none |
| `ka_faults` | Teardown: one releaser, never under a thread; the sessions implement `KeepaliveSession` | all |
| `ka_wakes` | An AP that is off is watched, booted for a reason, and brought back by dead links and wake-ups; sessions end | connect, alloc, thread, timer, quick, slow |
| `ka_early` | *Violated*: "wakes AP on server wakeup or keepalive failure" | early |
| `db_sleep` | An idle AP counts down, stops its service, hands over only when idle, and serves what it was woken for; flag, masks and votes stay true | none |
| `db_lost` | *Violated*: "clear stale votes so the keepalive idle check can detect idle and sleep" | none |
| `dl_video` | No slot lost or in two hands, nothing used after teardown, no decoding over a loss that was told in time, stops end, waits for an IDR end; no deadlock | decode, lossy, start |
| `dl_ref` | *Violated*: "instead of feeding the next P frame against a missing reference" | none |
| `up_frames` | No frame lost or in two hands, the counter never errs low, a camera reported on is sent, one turned off goes off; no deadlock | camera, memory, thread |

Deadlock is checked in `aov_lifecycle`, `dl_video` and `up_frames`. In the others
the device may really stop: a device that is not provisioned and a product that
asks for nothing wait for ever, and after a lost report the CP does too, since
the state timeout is compiled out (`AOV_CP_AP_STATE_TIMEOUT_ENABLE`). The
keepalive stops with an AP whose START was refused or came to nothing, and with
one that found no reason; a doorbell that nobody boards rests.

*The three violated runs.* TX of the keepalive starts RX and then powers the host
down, whatever RX did in between. A server that closes there makes RX vote the
host on and leave; TX votes it off, finds the session over and leaves too, and
nothing wakes the host (`ka_early`). When the doorbell has lost its connection,
the core thread stops the service and starts the countdown, which stops the
service again when it expires. It is gone: `handle_stop_event` is not reached
for want of a name, no `STOP_RESPONSE` comes, and the flag that waits for it
blocks every later countdown (`db_lost`, `doorbell_core.c:356`). A drop
in the downlink is told by a flag beside the queue: if an IDR waits in the queue,
the decode task enters the wait and leaves it with that IDR, and decodes the P
picture behind the gap (`dl_ref`).

*Disagreements without a run.* The idle handler of the doorbell sends the
stop before it sets the flag (`doorbell_keepalive.c:141-148`); if the core
thread skips the stop in between, the flag stays for good and every later
countdown does nothing, where the README of `aov` says "the device enters CP
keepalive low-power state" (`IdleSleeps` with `Preempted = TRUE`). An unlocked
write may lose the bit of a channel in the mask, and the AP then rejects
commands and does not count down until that channel connects again. The README
of `aov` also says that the shutdown is
gated on `LAST_GRAY_READY`; once `MOTION_DETECTED` was reported the code sets
`aborting_job` and does not ask for it (`GrayWaiverEarned` states what holds
instead). A comment in `aov_ap_state_machine.c` says that the order of stop and
report lets the CP power off a fully quiesced AP only; the result of `stop_all`
is dropped, so after a failed stop the report goes out with the camera on (the
assumption `"stop" \notin Faults` of `PowerOffSafe`). When the CP cannot connect
for its keepalive, the AP is still on with its service stopped, and the function
that should start it again has no caller. The watchdog can fire one request
early: a response read before its request was counted leaves the counter at one.

### Fairness

`FairSpec` assumes that threads get the CPU (worker, job runner, Wi-Fi worker),
that a registered alarm fires, and that the power manager acts on a vote: each
is a FreeRTOS task of its own or hardware. Strong fairness is assumed of one
step: a detect tick is handled rather than dropped as too early. The code drops
a tick within 4/5 of the interval after the last one, and the alarm's period is
the interval, so not every tick is too early. Nothing is assumed of the
product, the network or failures.

In `KeepaliveSystem` the threads and the alarm are weakly fair, and reading is
strongly fair: `recv` may time out for as long as it likes, but a packet or an
end of the connection that is there is not passed over for ever. That the AP
becomes idle, and what the server does, is left open.

In `DoorbellSystem` the core, command and timer threads are weakly fair, as is
each channel's thread once it has begun to update the mask: a timer that runs
expires. The reports are strongly fair: a channel that was told to stop ends,
however often it connects, is lost or takes a command before. That a channel
connects, that the user comes and that the CP wakes the AP is not assumed.

In `DownlinkVideo` receiver, decode task and command thread are weakly fair.
Two strong assumptions are about the peer and the hardware, and only `Resyncs`
needs them: an IDR comes again and again and finds a slot if slots come free
again and again, and the decoder does not fail on every picture. In
`UplinkVideo` encoder, transfer task and a command once begun are weakly fair;
nothing is assumed of when commands come.

## 5. Proofs

`AovSystem_proofs` proves, for every value of the constants that satisfies the
assumptions in the modules:

- `TypeCorrect`: `Spec => []TypeOK`. Typing alone is not inductive: that the
  counter of quiet comparisons stays within its limit needs to know which job
  and program counter count (`QuietOK`).
- `SleepVoteSafe`: `Spec => []SleepVoteOnlyApDown`, under any fault. A step
  either releases the sleep vote, or keeps the AP's vote, or takes it back; the
  proof classifies every event by that.
- `JobStatesSafe`: `Spec => []JobStatesVoteOn` when no report outlives its
  sender (`"late" \notin Faults`). The invariant is `JobInv`: every queued
  report carries the active sequence number and finds the AP voted on; a queued
  power-off is the last word of an AP that is off; wherever the AP will report,
  it holds the active number. Without it, a stale `BOOT_READY` would show a
  job after its end. Sequence numbers wrap, and the proof does not use that
  they are distinct: it is the order of the queue that keeps jobs apart.
- `PowerOffSafe`: `Spec => []PowerOffOnlyWhenQuiesced` when, besides, stopping
  the camera does not fail and a QR camera that
  failed is not completed by hand from the console. The invariant is
  `QuiesceInv`: once `POWERDOWN_READY` is queued or recorded, the AP is at the
  end of its job with the camera off, and stays there until it loses power.

The assumptions on `Faults` are properties of the environment; with them
dropped TLC finds the counterexamples or, for late reports, checks the property
within its bound (`aov_late`).

`KeepaliveSystem_proofs` proves about the keepalive, for any limit of the
watchdog, any depth of the connection and any set of `Faults`, restarts of the
AP and preempted releasers among them:

- `TypesCorrect`: `Spec => []TypeOK`. That the watchdog's counter stays within
  its limit depends on where TX is, since it reads and writes it in two steps.
- `ReleasedOnce`: `Spec => []OneReleaser`, and `ReleasedLast`:
  `Spec => []ResourcesHeld`.
- `SessionRefined`: `Spec => SessionManaged`, that is, `KeepaliveSystem`
  implements `KeepaliveSession`: a session begins when nothing is left of the
  last one, its threads leave once it has ended, and it is released once, after
  they have left.

These rest on `TypeOK /\ TeardownInv`. None of it is inductive alone: that
one thread releases needs the flag to stand for a releaser, that it is the last
needs the handles to stand for the threads, and that no session has begun needs
that the flag is set only on a session that was asked to go. Most steps are
*calm*: they leave the handles, the flag and the resources alone, and one lemma
(`CalmKeeps`) does for all of them. What is left is where threads start, clear
their handle, claim and release, and a START that was not refused. For
`SessionRefined` every other step is *within* a phase or *ends* the session, and
`SessionInv` adds what the flags alone do not tell: a session is ongoing
only with its TX, and where RX is left alone, or a thread is about to leave, the
session has ended.

- `HostWatched`: `Spec => []AsleepIsWatched`, and `WokenWithReason`:
  `Spec => []WokenForReason`, when the server waits until TX has powered the
  host down, the releaser is not preempted between its last two lines and the
  AP does not restart on its own (`"early"`, `"preempt"`, `"reset"
  \notin Faults`: TLC violates both with any of the three). The invariant is
  `WatchInv`. From the vote until TX or RX takes it back, the session is
  ongoing with its socket open, TX has not left and RX listens
  (`SessionStands`); a session is set up only while its AP waits with its vote
  held (`SetupApart`), which is why no STOP meets it there; and the reason is
  missing only between `ResetReason` and the wake-up (`ReasonGiven`). Steps
  that leave a standing session alone are *tame*, and one lemma
  (`TameKeeps`) does for them; the argument for RX is that, while TX sets the
  session up, it can only wait: nothing has arrived that would make it vote.

`AovPower_proofs` adds `PowerRefined`: under the assumptions of `PowerOffSafe`,
`Spec => PowerManaged`, that is, the two cores implement `AovPower`. Each step
of the CP starts a job, completes a power-off or continues; a step of the AP
changes only whether it works, and `JobInv` with `QuiesceInv` say that it does
so only while it is on. The two inductive invariants are theorems themselves
(`JobInvAlways`, `QuiesceAlways`).

`AovSafety_proofs` proves the other safety properties of the camera. What a
step does to the record, the alarms, the flags of the job and the picture is
stated once per handler; the theorems then need the invariants of
`AovInductive`, each checked by TLC before it was proved:

- `ResetSurvives`: `Spec => PendingResetSurvives`, under any fault. A write of
  flash copies RAM, so a promised reset must be known in RAM whenever the
  record is loaded (`RecordInv`).
- `RecordSafe`: `Spec => []RecordWrittenThrough`, if flash can be written.
- `PhaseKept`: `Spec => DetectPhaseKept`, if the CP does not restart.
- `DetectionSafe`: `Spec => []DetectionArmed`, with no late report and no
  failure to power off. `DetectInv` adds the jobs that will return to such a
  state, and the `WIFI_CONNECTED` that is queued: it can be handled in one.
- `WaiverSafe`: `Spec => []GrayWaiverEarned`, with late reports allowed. The
  property is about reports that carry the active number by accident, so
  `LateInv` has to say why there are none: the number of the next job is on no
  report that could still be handled then (`NextIsFresh`), and a job's own AP
  earned what its queued reports waive (`WaiverEarned`).
- `GraySafe`: `Spec => []GrayConsistent`, with no late report and a camera
  that works. `GrayInv` follows the last picture from the AP's buffer to the
  descriptor: an undescribed one has its report queued ahead of the
  AP's `POWERDOWN_READY`, or still to be made (`DescriptorComes`).
- `RetrySafe`: `Spec => []RetryPending`, with no late report and no failure to
  power off. `RetryInv` orders an AP's last words (`WordsInOrder`): the
  retry is entered when work and power-down are both reported, and by then
  nothing is left that would start or end a job again.

`WaiverSafe` and `RetrySafe` also assume that no QR job whose camera failed is
completed by hand from the console (`"camera" \in Faults => "QR_DONE" \notin
Inputs`): the failed job would be handed over with its outcome.

`DoorbellSystem_proofs` proves about the doorbell, for any services and media,
any queue of more than two places:

- `CommandsAlwaysGated`: `Spec => []CommandsGated`, under any fault and any
  interleaving of the unlocked writes. Bits in the mask may be stale; what holds
  is that those which a thread has read and will write, with those in the mask,
  belong to channels that have connected since the start, once the control
  channel has reported its own (the part `Gate` of the invariant).
- `VotesCoverMedia`: `Spec => []RunningIsVoted`, under any fault. The invariant
  `Whole` says, beside `Gate`, what each channel still has to report
  (`Reports`), when it may be up (`Links`), and which vote the command and core
  threads owe (`Voted`).
- `FlagIsCleared`: `Spec => []PendingHasCause`, and `IdleApCounts`:
  `Spec => []IdleCounts`, if no message meets a full queue, flash can be
  read and the timer thread sets its flag before the stop it sent is handled (`Punctual`).
  The first does not say that the flag is always cleared, for the code does
  not see to it: a flag that nothing on its way will clear was left behind by a
  stop that found no service, and by nothing else. `Sent` adds that there is
  one stop at a time, that the queue keeps a place for what the channels owe
  (`Room`), and that an idle AP counts down or will (`Counted`), unless the flag
  was left behind (`Stranded`).
- `OnlyIdleIsHandedOver`: `Spec => []HandedOverIdle` if, besides, no user asks
  for a service in the instant of the hand-over (`Undisturbed`). `Released`
  says that between the stop and the hand-over no service is started: no
  start is behind a stop in the queue (`NoneBehind`), and until the hand-over
  every channel is down or has its end to report (`GoingDown`, `Resting`).

`UplinkVideo_proofs` proves of the uplink, for any set of frames:

- `FramesConserved`: `Spec => []FramesAccounted`, and `CounterErrsHigh`:
  `Spec => []CountErrsHigh`, under any fault. The invariant has the types, who
  holds a frame at which program counter (`Holding`), and that no frame is in two
  places (`Places`). The counter needs `Places`: an increment that finds the counter at
  its limit is lost, and does no harm since a frame that the encoder took and has
  not counted yet is not free.
- `CameraDelivers`: `Spec => []OnDelivers` if the ISP can be turned off
  (`"isp" \notin Faults`). The invariant `HandShake` says for each step of the
  command thread what configuration, encoder and transfer task are in.

`DownlinkVideo_proofs` proves of the downlink, for any set of slots, if no
restart falls into the middle of a unit and the decode task is not preempted
after its last signal (`"midframe"`, `"preempt" \notin Faults`; TLC violates the
properties with either):

- `SlotsConserved`: `Spec => []SlotsAccounted`, and `TornDownSafely`:
  `Spec => []TornDownUnused`. Beside `Holding` and `Places` the invariant needs
  `Tenancy`: how the flags of `s_dl`, the handle and the command thread say
  whether a decode task lives.
- `LossSeen`: `Spec => []GateSeesLoss`. The property speaks of the picture at
  the gate; the invariant `GateInv` has to speak of the queue. A gap that was
  told, still to come in the queue, has no IDR before it (`NoIdrBefore`), and
  until it is in hand the decoder waits or is about to (`Warned`,
  `WarnedInHand`): the wait that the gap caused cannot end before it is passed.

Both rest on `QueueLemmas`: what appending, popping, unstacking and joining do
to the elements of a queue without repetitions, and that such a queue with an
element missing is not full.

Every invariant and action property of the passing runs is proved, with the
hypotheses above. They hold in the runs that check it, but for one: `aov_late`
checks `PowerOffOnlyWhenQuiesced` with late reports, within its bounds, where
`PowerOffSafe` excludes them. Only model-checked are besides
the liveness properties (liveness under fairness is beyond the prover, so
`PowerReturns` too: `PowerRefined` is its safety): `MotionJobEnds`,
`DetectionRecurs`, `DeadLinkServed`, `WakeupServed`, `TeardownCompletes`,
`IdleSleeps`, `WakeServed`, `StopCompletes`, `Resyncs` and `OffCompletes`.
`LostSleeps` does not hold (`db_lost`).

## 6. Not modelled

Image comparison, file formats, recordings, JSON and BLE parsing, driver calls
and their errors beyond success or failure, the console. Commands on the device
record are atomic, so the overlap of the console with the worker inside one
commit is not seen yet. `db_pack` is not modelled: a packet is read whole.
`encode_frame_que.c` wraps `bk_frame_queue` of the SDK, which is not in the
repository, and nothing calls its deinit. Of the devices only the ISP camera
with its transfer is modelled; UVC camera, display, audio streams, GPU, the
compositor with its picture in picture and the zero-copy receiver are left out,
as are the device-management thread, the boot players and the tuning bench,
whose files are mostly calls into SDK drivers outside `src/`. After a hand-over
that fails, the doorbell's service stays taken and stopped until the connection
is lost or the AP restarts; no property claims otherwise.

Branches left out, on which no verdict depends: the camera's queues are assumed
to exist, where a first `bk_encoded_data_manager_init` that fails is not noticed
by its caller (`FramesInit`); a descriptor that is invalid, which no AP reports
(`LastGrayReady`); a command on the device record before it was loaded, which
starts from defaults (`WifiCommand`).

Some hazards of `PROJECT.json` are only half covered, each with the reason in its
note: a lost `AP_POWERED_OFF` or report leaves the CP waiting, and the liveness
properties excuse it (`lost`); `PowerOffOnlyWhenQuiesced` excludes a camera that
does not stop; the interrupt in the middle of arming or releasing an alarm does
not exist in steps that are whole events; flash is written whole or not at all;
a session that overwrites the socket of an earlier one is seen by no
property.

Most of the
repository's lines are the data of three vendored neural networks
(`avdk_nn_module`, several hundred thousand lines), which have no behaviour to model.
