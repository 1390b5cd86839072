---------------------------- MODULE UplinkVideo ----------------------------
(***************************************************************************)
(* The camera's video on its way to the network: the encoder fills frames  *)
(* (app_codec.c), the transfer task sends them, and the command thread     *)
(* turns both on and off (doorbell_devices.c, doorbell_cmd.c).             *)
(***************************************************************************)
EXTENDS UplinkFrames

CONSTANT Faults
\* camera   the camera cannot be turned on
\* memory   the transfer cannot be started for want of memory
\* thread   its thread cannot be created
\* isp      the camera's last part cannot be turned off
FaultKinds == {"camera", "memory", "thread", "isp"}
ASSUME UplinkAssumption == Faults \subseteq FaultKinds

VARIABLES
    enc,    \* the encoder: open, and where its outbuf callbacks are
    task,   \* the transfer task
    cfg,    \* s_db_trans_cfg
    video,  \* video_enable
    ctl     \* the command thread

threadVars == <<enc, task, cfg, video, ctl>>
vars == <<frameVars, threadVars>>

\* "taken" and "back": the counter has still to follow the queue.
Encoder == [open : BOOLEAN, pc : {"idle", "taken", "encode", "back"},
            frame : Frames \cup {NoFrame}]
Transfer == [pc : {"none", "new", "check", "pop", "send", "back"},
             frame : Frames \cup {NoFrame}]
Config == [held : BOOLEAN, enable : BOOLEAN, sem : BOOLEAN]

TypeOK ==
    /\ FramesTypeOK
    /\ enc \in Encoder /\ task \in Transfer /\ cfg \in Config
    /\ video \in BOOLEAN
    /\ ctl \in {"idle", "start", "create", "await", "stop", "join", "close",
               "drain"}

NoConfig == [held |-> FALSE, enable |-> FALSE, sem |-> FALSE]

Init ==
    /\ FramesInit
    /\ enc = [open |-> FALSE, pc |-> "idle", frame |-> NoFrame]
    /\ task = [pc |-> "none", frame |-> NoFrame]
    /\ cfg = NoConfig /\ video = FALSE /\ ctl = "idle"

-----------------------------------------------------------------------------
(* encoder_buffer_request and encoder_buffer_complete.                     *)

Others == UNCHANGED <<task, cfg, video, ctl>>

\* Without a free frame the picture is lost.
EncRequest ==
    /\ enc.open /\ enc.pc = "idle"
    /\ PopFree
    /\ enc' = [enc EXCEPT !.pc = "taken", !.frame = Head(free)]
    /\ Others

EncCount ==
    /\ enc.pc = "taken"
    /\ CountDown
    /\ enc' = [enc EXCEPT !.pc = "encode"]
    /\ Others

EncComplete ==
    /\ enc.pc = "encode"
    /\ PushReady(enc.frame)
    /\ enc' = [enc EXCEPT !.pc = "idle", !.frame = NoFrame]
    /\ Others

\* The encoding failed, or the drop policy does not want the frame.
EncReturn ==
    /\ enc.pc = "encode"
    /\ PushFree(enc.frame)
    /\ enc' = [enc EXCEPT !.pc = "back", !.frame = NoFrame]
    /\ Others

EncBack ==
    /\ enc.pc = "back"
    /\ CountUp
    /\ enc' = [enc EXCEPT !.pc = "idle"]
    /\ Others

Encode == EncRequest \/ EncCount \/ EncComplete \/ EncReturn \/ EncBack

-----------------------------------------------------------------------------
(* doorbell_devices_task_entry.                                            *)

TaskBegin ==
    /\ task.pc = "new"
    /\ cfg' = [cfg EXCEPT !.enable = TRUE, !.sem = TRUE]
    /\ task' = [task EXCEPT !.pc = "check"]
    /\ UNCHANGED <<frameVars, enc, video, ctl>>

\* Mutant: the task does not look.
TaskLookAlways ==
    /\ task.pc = "check"
    /\ task' = [task EXCEPT !.pc = "pop"]
    /\ UNCHANGED <<frameVars, enc, cfg, video, ctl>>

TaskLook ==
    /\ task.pc = "check" /\ cfg.enable
    /\ task' = [task EXCEPT !.pc = "pop"]
    /\ UNCHANGED <<frameVars, enc, cfg, video, ctl>>

TaskPop ==
    /\ task.pc = "pop"
    /\ PopReady
    /\ task' = [pc |-> "send", frame |-> Head(ready)]
    /\ UNCHANGED <<enc, cfg, video, ctl>>

TaskTimeout ==
    /\ task.pc = "pop" /\ ready = <<>>
    /\ task' = [task EXCEPT !.pc = "check"]
    /\ UNCHANGED <<frameVars, enc, cfg, video, ctl>>

\* Sent or not, the frame is given back.
TaskSend ==
    /\ task.pc = "send"
    /\ PushFree(task.frame)
    /\ task' = [pc |-> "back", frame |-> NoFrame]
    /\ UNCHANGED <<enc, cfg, video, ctl>>

TaskBack ==
    /\ task.pc = "back"
    /\ CountUp
    /\ task' = [task EXCEPT !.pc = "check"]
    /\ UNCHANGED <<enc, cfg, video, ctl>>

\* Mutant: the task leaves without a signal.
TaskExitSilent ==
    /\ task.pc = "check" /\ ~cfg.enable
    /\ task' = [task EXCEPT !.pc = "none"]
    /\ UNCHANGED <<frameVars, enc, cfg, video, ctl>>

TaskExit ==
    /\ task.pc = "check" /\ ~cfg.enable
    /\ cfg' = [cfg EXCEPT !.sem = TRUE]
    /\ task' = [task EXCEPT !.pc = "none"]
    /\ UNCHANGED <<frameVars, enc, video, ctl>>

Send == TaskBegin \/ TaskLook \/ TaskPop \/ TaskTimeout \/ TaskSend \/ TaskBack
        \/ TaskExit

-----------------------------------------------------------------------------
(* DBCMD_SET_CAMERA_TURN_ON and _OFF.                                      *)

\* doorbell_camera_turn_on; a camera that is on already is fine.
TurnOn ==
    /\ ctl = "idle"
    /\ IF video THEN UNCHANGED <<frameVars, enc, video>>
       ELSE ManagerInit /\ video' = TRUE /\ enc' = [enc EXCEPT !.open = TRUE]
    /\ ctl' = "start"
    /\ UNCHANGED <<task, cfg>>

\* What was turned on is turned off again; the frames are left.
TurnOnFails ==
    /\ ctl = "idle" /\ ~video /\ "camera" \in Faults
    /\ ManagerDeinit
    /\ UNCHANGED threadVars

\* doorbell_devices_start: nothing to do when there is a configuration.
Start ==
    /\ ctl = "start"
    /\ \/ cfg.held /\ ctl' = "idle" /\ UNCHANGED <<input, cfg>>
       \/ /\ ~cfg.held
          /\ input' = TRUE /\ cfg' = [cfg EXCEPT !.held = TRUE]
          /\ ctl' = "create"
    /\ UNCHANGED <<free, ready, count, enc, task, video>>

StartFails ==
    /\ ctl = "start" /\ ~cfg.held /\ "memory" \in Faults
    /\ ctl' = "close"
    /\ UNCHANGED <<frameVars, enc, task, cfg, video>>

\* Mutant: the command does not wait until the task has begun.
CreateUnawaited ==
    /\ ctl = "create" /\ task.pc = "none"
    /\ task' = [task EXCEPT !.pc = "new"]
    /\ ctl' = "idle"
    /\ UNCHANGED <<frameVars, enc, cfg, video>>

Create ==
    /\ ctl = "create" /\ task.pc = "none"
    /\ task' = [task EXCEPT !.pc = "new"]
    /\ ctl' = "await"
    /\ UNCHANGED <<frameVars, enc, cfg, video>>

\* doorbell_devices_stop finds the transfer not enabled and keeps cfg.
CreateFails ==
    /\ ctl = "create" /\ "thread" \in Faults
    /\ ctl' = "close"
    /\ UNCHANGED <<frameVars, enc, task, cfg, video>>

Await ==
    /\ ctl = "await" /\ cfg.sem
    /\ cfg' = [cfg EXCEPT !.sem = FALSE]
    /\ ctl' = "idle"
    /\ UNCHANGED <<frameVars, enc, task, video>>

TurnOff ==
    /\ ctl = "idle" /\ video
    /\ ctl' = "stop"
    /\ UNCHANGED <<frameVars, enc, task, cfg, video>>

\* doorbell_devices_stop
Stop ==
    /\ ctl = "stop"
    /\ cfg' = [cfg EXCEPT !.enable = FALSE]
    /\ ctl' = IF cfg.held /\ cfg.enable THEN "join" ELSE "close"
    /\ UNCHANGED <<frameVars, enc, task, video>>

Join ==
    /\ ctl = "join" /\ cfg.sem
    /\ cfg' = NoConfig
    /\ ctl' = "close"
    /\ UNCHANGED <<frameVars, enc, task, video>>

\* doorbell_camera_turn_off: the encoder is cut off from the camera, and is
\* closed when the picture it is at is done.
Unbond ==
    /\ ctl = "close"
    /\ enc' = [enc EXCEPT !.open = FALSE]
    /\ ctl' = "drain"
    /\ UNCHANGED <<frameVars, task, cfg, video>>

Close ==
    /\ ctl = "drain" /\ enc.pc = "idle"
    /\ ManagerDeinit
    /\ \/ video' = FALSE
       \/ "isp" \in Faults /\ UNCHANGED video
    /\ ctl' = "idle"
    /\ UNCHANGED <<enc, task, cfg>>

Carry == \/ Start \/ StartFails \/ Create \/ CreateFails \/ Await
         \/ Stop \/ Join \/ Unbond \/ Close

Next == Encode \/ Send \/ TurnOn \/ TurnOnFails \/ TurnOff \/ Carry

Spec == Init /\ [][Next]_vars

\* The scheduler runs every thread, and the encoder completes what it began.
FairSpec == Spec /\ WF_vars(Encode) /\ WF_vars(Send) /\ WF_vars(Carry)

-----------------------------------------------------------------------------
(* Properties.                                                             *)

\* Every frame is in exactly one place for ever, over any number of cameras:
\* the buffers are never allocated again (mds_img_manager.c).  And every
\* variable has its type.
Hands == {enc.frame, task.frame} \ {NoFrame}

FramesAccounted ==
    /\ TypeOK
    /\ IsInjective(free \o ready)
    /\ Range(free \o ready) = Frames \ Hands
    /\ enc.frame = task.frame => Hands = {}

\* The counter errs on one side only: once the updates that are due are made
\* it is never below the number of free frames, so the drop policy does not
\* drop for want of frames that are there.  It may stay above: a decrement
\* that finds 0 while an increment is due is lost.
Due(pc) == (IF enc.pc = pc THEN 1 ELSE 0) + (IF task.pc = pc THEN 1 ELSE 0)

CountErrsHigh == count + Due("back") >= Len(free) + Due("taken")

\* A thread that cannot be created leaves a configuration behind that no
\* later command starts, or frees (doorbell_devices.c).
LeftBehind == cfg.held /\ ~cfg.enable /\ task.pc = "none"

\* A camera that was reported on is encoded and sent: after a command has
\* ended video and encoder agree, and unless a configuration was left behind
\* they agree with the task and with its configuration.
OnDelivers ==
    ctl = "idle" => /\ video <=> enc.open
                    /\ \/ LeftBehind
                       \/ (video <=> cfg.enable) /\ (video <=> task.pc # "none")

\* A camera that is turned off is off in the end.
OffCompletes == ctl = "stop" ~> ~video
=============================================================================
