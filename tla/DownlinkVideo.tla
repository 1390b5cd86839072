--------------------------- MODULE DownlinkVideo ---------------------------
(***************************************************************************)
(* The downlink video of the intercom (doorbell_downlink_video.c), with    *)
(* SMART_INTERCOM_DL_WAIT_IDR and the copying receiver, which is the       *)
(* default build.  Three threads share the pool: the network thread stores *)
(* access units, the decode task decodes them, and the command thread      *)
(* starts the pipeline, and restarts it when the geometry changes.         *)
(*                                                                         *)
(* The stream is a chain: a P picture is decoded against the one before.   *)
(***************************************************************************)
EXTENDS DownlinkPool

CONSTANT Faults
\* decode   the hardware fails on an access unit it could decode
\* lossy    the network loses access units, or delivers one too big for a slot
\* start    a step of starting the pipeline fails
\* midframe the pipeline may be restarted while an access unit is being stored
\* preempt  the decode task may be preempted after its last signal, for as
\*          long as the command thread takes to start the next one
FaultKinds == {"decode", "lossy", "start", "midframe", "preempt"}
ASSUME VideoAssumption == Faults \subseteq FaultKinds

VARIABLES
    recv,   \* the network thread: the slot it fills and what with
    gap,    \* what became of the access units since the last one stored
    dl,     \* s_dl
    dec,    \* the decode task
    gone,   \* a decode task of before, that has signalled but not left
    ctl     \* the command thread

threadVars == <<recv, gap, dl, dec, gone, ctl>>
vars == <<poolVars, threadVars>>

Receiver == [slot : Slots \cup {NoSlot}, kind : Kinds]

\* handle: s_dl.task names a task; done: done_sem is set; broken:
\* ref_break_pending
Shared == [running : BOOLEAN, stop : BOOLEAN, handle : BOOLEAN, done : BOOLEAN,
           broken : BOOLEAN]

\* wait: wait_idr.  ref: what the decoder would decode the next P picture
\* against: the picture before it, a picture that is garbage, or one that it
\* skipped or failed to decode.
Decoder == [pc : {"none", "pop", "idle", "mark", "gate", "decode", "give", "signalled"},
            slot : Slots \cup {NoSlot}, wait : BOOLEAN,
            ref : {"good", "garbage", "missing"}]

Controller == [pc : {"idle", "stop", "join", "teardown", "stopped", "start", "launch"},
               again : BOOLEAN]

TypeOK ==
    /\ PoolTypeOK
    /\ recv \in Receiver /\ gap \in Losses
    /\ dl \in Shared /\ dec \in Decoder /\ gone \in BOOLEAN /\ ctl \in Controller

NoTask == [pc |-> "none", slot |-> NoSlot, wait |-> TRUE, ref |-> "missing"]

Init ==
    /\ PoolInit
    /\ recv = [slot |-> NoSlot, kind |-> "p"] /\ gap = "untold"
    /\ dl = [running |-> FALSE, stop |-> FALSE, handle |-> FALSE,
             done |-> FALSE, broken |-> FALSE]
    /\ dec = NoTask /\ gone = FALSE
    /\ ctl = [pc |-> "idle", again |-> FALSE]

-----------------------------------------------------------------------------
(* doorbell_downlink_video_recv, in the network thread.                    *)

\* An IDR that the decoder has still to come to hides a loss behind it.
IdrAhead ==
    \/ \E i \in DOMAIN ready : unit[ready[i]].kind = "idr"
    \/ dec.pc = "mark" /\ unit[dec.slot].kind = "idr"

Lose(l) == gap' = IF gap = "told" THEN "told" ELSE l

RecvIgnored ==
    /\ recv.slot = NoSlot /\ ~dl.running
    /\ Lose("untold")
    /\ UNCHANGED <<poolVars, recv, dl, dec, gone, ctl>>

\* Lost on the way, or too big, when its slot goes straight back to the top
\* of the stack: the decoder is not told.
RecvLost ==
    /\ "lossy" \in Faults /\ recv.slot = NoSlot
    /\ Lose("untold")
    /\ UNCHANGED <<poolVars, recv, dl, dec, gone, ctl>>

\* Mutant: the decoder is not told.
RecvDroppedSilently ==
    /\ recv.slot = NoSlot /\ dl.running /\ ~CanTake
    /\ Lose(IF IdrAhead THEN "untold" ELSE "told")
    /\ UNCHANGED <<poolVars, recv, dl, dec, gone, ctl>>

RecvDropped ==
    /\ recv.slot = NoSlot /\ dl.running /\ ~CanTake
    /\ dl' = [dl EXCEPT !.broken = TRUE]
    /\ Lose(IF IdrAhead THEN "untold" ELSE "told")
    /\ UNCHANGED <<poolVars, recv, dec, gone, ctl>>

RecvTake(k) ==
    /\ recv.slot = NoSlot /\ dl.running /\ CanTake
    /\ TakeFree
    /\ recv' = [slot |-> Last(free), kind |-> k]
    /\ UNCHANGED <<gap, dl, dec, gone, ctl>>

\* The access unit has been copied.  What ready_push says is not looked at.
RecvPush ==
    /\ recv.slot # NoSlot
    /\ PushReady(recv.slot, [kind |-> recv.kind, after |-> gap])
    /\ gap' = IF ready' = ready THEN "untold" ELSE "stored"
    /\ recv' = [recv EXCEPT !.slot = NoSlot]
    /\ UNCHANGED <<dl, dec, gone, ctl>>

Receive ==
    \/ RecvIgnored \/ RecvLost \/ RecvDropped \/ RecvPush
    \/ \E k \in Kinds : RecvTake(k)

-----------------------------------------------------------------------------
(* dl_decode_task_entry.                                                   *)

DecPop ==
    /\ dec.pc = "pop" /\ ~dl.stop
    /\ PopReady
    /\ dec' = [dec EXCEPT !.pc = "mark", !.slot = Head(ready)]
    /\ UNCHANGED <<recv, gap, dl, gone, ctl>>

DecTimeout ==
    /\ dec.pc = "pop" /\ ~dl.stop /\ ready = <<>>
    /\ dec' = [dec EXCEPT !.pc = "idle"]
    /\ UNCHANGED <<poolVars, recv, gap, dl, gone, ctl>>

\* dl_apply_ref_break, with a slot in hand or after a pop that timed out.
DecMark ==
    /\ dec.pc \in {"idle", "mark"}
    /\ dl' = [dl EXCEPT !.broken = FALSE]
    /\ dec' = [dec EXCEPT !.wait = @ \/ dl.broken,
                          !.pc = IF @ = "mark" THEN "gate" ELSE "pop"]
    /\ UNCHANGED <<poolVars, recv, gap, gone, ctl>>

Held == unit[dec.slot]

\* Pictures that need others are skipped while wait_idr is set.
DecSkip ==
    /\ dec.pc = "gate" /\ dec.wait /\ Held.kind = "p"
    /\ dec' = [dec EXCEPT !.pc = "give", !.ref = "missing"]
    /\ UNCHANGED <<poolVars, recv, gap, dl, gone, ctl>>

DecPass ==
    /\ dec.pc = "gate" /\ ~(dec.wait /\ Held.kind = "p")
    /\ dec' = [dec EXCEPT !.pc = "decode"]
    /\ UNCHANGED <<poolVars, recv, gap, dl, gone, ctl>>

\* The picture to decode against is the one it was encoded against.
RefSound == Held.kind = "idr" \/ (dec.ref = "good" /\ Held.after = "stored")

DecDecoded ==
    /\ dec.pc = "decode"
    /\ dec' = [dec EXCEPT !.pc = "give", !.wait = FALSE,
                          !.ref = IF RefSound THEN "good" ELSE "garbage"]
    /\ UNCHANGED <<poolVars, recv, gap, dl, gone, ctl>>

DecFailed ==
    /\ dec.pc = "decode"
    /\ ~RefSound \/ "decode" \in Faults
    /\ dec' = [dec EXCEPT !.pc = "give", !.wait = TRUE, !.ref = "missing"]
    /\ UNCHANGED <<poolVars, recv, gap, dl, gone, ctl>>

DecGive ==
    /\ dec.pc = "give"
    /\ GiveBack(dec.slot)
    /\ dec' = [dec EXCEPT !.pc = "pop", !.slot = NoSlot]
    /\ UNCHANGED <<recv, gap, dl, gone, ctl>>

\* Mutant: the task leaves without a signal.
DecExitSilent ==
    /\ dec.pc = "pop" /\ dl.stop
    /\ dec' = [dec EXCEPT !.pc = "signalled"]
    /\ UNCHANGED <<poolVars, recv, gap, dl, gone, ctl>>

DecExit ==
    /\ dec.pc = "pop" /\ dl.stop
    /\ dl' = [dl EXCEPT !.done = TRUE]
    /\ dec' = [dec EXCEPT !.pc = "signalled"]
    /\ UNCHANGED <<poolVars, recv, gap, gone, ctl>>

\* The last thing the task does is to clear s_dl.task, whoever that is by now.
DecLeave ==
    /\ dec.pc = "signalled" \/ gone
    /\ dl' = [dl EXCEPT !.handle = FALSE]
    /\ gone' = FALSE
    /\ dec' = IF dec.pc = "signalled" /\ ~gone THEN NoTask ELSE dec
    /\ UNCHANGED <<poolVars, recv, gap, ctl>>

Decode ==
    \/ DecPop \/ DecTimeout \/ DecMark \/ DecSkip \/ DecPass \/ DecDecoded \/ DecFailed
    \/ DecGive \/ DecExit \/ DecLeave

-----------------------------------------------------------------------------
(* doorbell_downlink_set_h264_receive_config and _video_stop, from the     *)
(* command thread.                                                         *)

\* A new geometry, or a stop; the same geometry changes nothing.
Configure ==
    /\ ctl.pc = "idle"
    /\ \E again \in BOOLEAN :
          \/ /\ dl.running
             /\ dl' = [dl EXCEPT !.stop = TRUE]
             /\ ctl' = [pc |-> "stop", again |-> again]
          \/ /\ ~dl.running /\ again
             /\ ctl' = [pc |-> "start", again |-> TRUE]
             /\ UNCHANGED dl
    /\ UNCHANGED <<poolVars, recv, gap, dec, gone>>

\* Mutant: the task is told to stop and not waited for.
JoinNobody ==
    /\ ctl.pc = "join"
    /\ ctl' = [ctl EXCEPT !.pc = "teardown"]
    /\ UNCHANGED <<poolVars, recv, gap, dl, dec, gone>>

\* Nobody is waited for when s_dl.task is NULL.
FindTask ==
    /\ ctl.pc = "stop"
    /\ ctl' = [ctl EXCEPT !.pc = IF dl.handle THEN "join" ELSE "teardown"]
    /\ UNCHANGED <<poolVars, recv, gap, dl, dec, gone>>

Join ==
    /\ ctl.pc = "join" /\ dl.done
    /\ dl' = [dl EXCEPT !.done = FALSE]
    /\ ctl' = [ctl EXCEPT !.pc = "teardown"]
    /\ UNCHANGED <<poolVars, recv, gap, dec, gone>>

\* dl_teardown: decoder and compositor, then the pool.
Teardown ==
    /\ ctl.pc = "teardown"
    /\ recv.slot = NoSlot \/ "midframe" \in Faults
    /\ PoolClose
    /\ ctl' = [ctl EXCEPT !.pc = "stopped"]
    /\ UNCHANGED <<recv, gap, dl, dec, gone>>

Stopped ==
    /\ ctl.pc = "stopped"
    /\ dl' = [dl EXCEPT !.running = FALSE, !.stop = FALSE, !.done = FALSE]
    /\ ctl' = [ctl EXCEPT !.pc = IF ctl.again THEN "start" ELSE "idle"]
    /\ UNCHANGED <<poolVars, recv, gap, dec, gone>>

\* dl_start up to the decode task; what fails is undone.
StartPool ==
    /\ ctl.pc = "start"
    /\ PoolOpen
    /\ ctl' = [ctl EXCEPT !.pc = "launch"]
    /\ UNCHANGED <<recv, gap, dl, dec, gone>>

StartFails ==
    /\ ctl.pc = "launch" /\ "start" \in Faults
    /\ PoolClose
    /\ ctl' = [ctl EXCEPT !.pc = "idle"]
    /\ UNCHANGED <<recv, gap, dl, dec, gone>>

\* A task that has signalled is gone before the next is created, unless it
\* was preempted.
Launch ==
    /\ ctl.pc = "launch"
    /\ dec.pc = "none" \/ ("preempt" \in Faults /\ dec.pc = "signalled" /\ ~gone)
    /\ gone' = (dec.pc = "signalled")
    /\ dec' = [NoTask EXCEPT !.pc = "pop"]
    /\ dl' = [dl EXCEPT !.running = TRUE, !.stop = FALSE, !.handle = TRUE]
    /\ ctl' = [ctl EXCEPT !.pc = "idle"]
    /\ UNCHANGED <<poolVars, recv, gap>>

Carry ==
    \/ FindTask \/ Join \/ Teardown \/ Stopped
    \/ StartPool \/ StartFails \/ Launch

Next == Receive \/ Decode \/ Configure \/ Carry

Spec == Init /\ [][Next]_vars

\* The scheduler runs every thread.  The peer sends an IDR again and again, and
\* one of them finds a slot whenever slots come free again and again; the
\* hardware does not fail on every picture it is given.
FairSpec ==
    /\ Spec
    /\ WF_vars(RecvPush) /\ SF_vars(RecvTake("idr"))
    /\ WF_vars(Decode) /\ SF_vars(DecDecoded)
    /\ WF_vars(Carry)

-----------------------------------------------------------------------------
(* Properties.                                                             *)

\* While the pool is up every slot is in exactly one place: free, ready, or in
\* the hands of the receiver or of the decode task.  The two stacks and the two
\* threads pass slots by index and nothing in the code counts them.  And every
\* variable has its type.
Hands == {recv.slot, dec.slot} \ {NoSlot}

SlotsAccounted ==
    /\ TypeOK
    /\ up => /\ IsInjective(free \o ready)
             /\ Range(free \o ready) = Slots \ Hands
             /\ recv.slot = dec.slot => Hands = {}

\* The decode task uses neither a slot nor the decoder once the command thread
\* has torn them down, and there is no second task: what the done semaphore
\* and s_dl.task are for.
TornDownUnused ==
    /\ ~up => dec.pc \in {"none", "signalled"} /\ dec.slot = NoSlot
    /\ ctl.pc \in {"start", "launch"} => dec.pc \in {"none", "signalled"}

\* A P picture reaches the decoder neither after a picture that was skipped or
\* failed, nor after a loss that was told to the decoder while no IDR waited
\* ahead: however the drop falls between the pop, the mark and the decode.
GateSeesLoss ==
    dec.pc = "decode" /\ Held.kind = "p" => Held.after # "told" /\ dec.ref # "missing"

\* A P picture that reaches the decoder has its reference
\* (doorbell_downlink_video.h: a drop marks the chain broken, "so the decode
\* task enters wait-for-IDR instead of feeding the next P frame against a
\* missing reference").
GateKeepsReferences == dec.pc = "decode" => RefSound

\* A stop, whatever the decode task was doing, ends with the pipeline down.
StopCompletes == dl.stop ~> ~dl.running

\* A decode task that waits for an IDR gets one and decodes it, or is stopped.
Resyncs == (dec.pc \notin {"none", "signalled"} /\ dec.wait) ~> (~dec.wait \/ dl.stop)
=============================================================================
