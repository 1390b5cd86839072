---------------------------- MODULE KeepaliveCp ----------------------------
(***************************************************************************)
(* The low-power keepalive of the CP (projects/*/cp/keepalive, the same    *)
(* file in every product): a session that a START command opens, its two   *)
(* threads, the alarm that wakes TX for a heartbeat, the watchdog on       *)
(* unanswered heartbeats, and the teardown that whoever leaves last runs.  *)
(* The CP votes the host off once the session stands, and on again when    *)
(* the server asks for it or the link is lost (powerctrl.c).               *)
(*                                                                         *)
(* A step is what a thread does between two places where another thread    *)
(* or an interrupt can see a difference.  The network is the environment.  *)
(***************************************************************************)
EXTENDS Integers, Sequences

CONSTANTS
    MaxNoResp,   \* DB_KEEPALIVE_MAX_NO_RESP_CNT
    InboxDepth,  \* bound: packets that wait to be read
    MaxLeaving,  \* bound: threads of old sessions still on their way out
    Faults       \* the failures and timings this instance admits

\* connect  the server cannot be reached
\* alloc    a buffer or the TX thread cannot be created
\* thread   the RX thread cannot be created
\* timer    the timer cannot be created
\* early    the server closes, falls silent or asks for the host before TX
\*          has powered the host down
\* preempt  a thread loses the CPU between the last two lines of the teardown
\* quick    a START comes while the threads of the last session still run
\* slow     the power manager acts on a vote after a while
\* reset    the AP restarts on its own
FaultKinds == {"connect", "alloc", "thread", "timer", "early", "preempt",
               "quick", "slow", "reset"}

ASSUME KeepaliveAssumption ==
    /\ MaxNoResp \in Nat \ {0} /\ InboxDepth \in Nat \ {0} /\ MaxLeaving \in Nat
    /\ Faults \subseteq FaultKinds

VARIABLES
    env,        \* s_keepalive_env
    pc,         \* where TX, RX and the thread that runs commands are
    leaving,    \* how many threads that cleared their handle are at each step
    held,       \* the counter as TX read it before it writes it back
    alarm,      \* "da_rtc" is registered
    host,       \* pl_wakeup_env.wakeup_reason and the vote for the AP
    link,       \* the connection as the server left it
    inbox       \* what the server sent and RX did not read yet

netVars == <<link, inbox>>
cpVars == <<env, pc, leaving, held, alarm, host, netVars>>

Reasons == {"NONE", "POWER", "MULTIMEDIA", "DISCONNECTION", "FAIL"}
TxPcs == {"none", "connect", "hello", "spawn", "reset", "unvote", "timers",
          "loop", "wait", "woken", "count", "store", "fail", "failVote",
          "deinit", "close", "clear"}
RxPcs == {"none", "loop", "recv", "media", "mediaVote", "fail", "failVote",
          "exit", "clear"}
CmdPcs == {"idle", "stopped", "deinit", "close", "claim", "tear", "stray"}

\* sock is -1, 0 as memset leaves it, or a socket.  tx and rx: the handle is
\* not NULL.  buffers: rx_buffer, rx_raw_buffer and db_pack's.  rtc: the name
\* of the alarm is set.
EnvType == [ongoing : BOOLEAN, cleanup : BOOLEAN, releasing : BOOLEAN,
            sock : {"none", "zero", "open"}, tx : BOOLEAN, rx : BOOLEAN,
            sema : {"null", "empty", "posted"}, buffers : BOOLEAN,
            rtc : BOOLEAN, timer : BOOLEAN, lowVoltage : BOOLEAN,
            noResp : 0 .. MaxNoResp]

Stages == {"claim", "tear", "stray"}

KeepaliveTypeOK ==
    /\ env \in EnvType
    /\ pc \in [tx : TxPcs, rx : RxPcs, cmd : CmdPcs]
    /\ leaving \in [Stages -> Nat]
    /\ held \in 0 .. MaxNoResp - 1
    /\ alarm \in BOOLEAN
    /\ host \in [reason : Reasons, vote : BOOLEAN]
    /\ link \in {"none", "up", "silent", "closed"}
    /\ inbox \in Seq({"response", "wake"}) /\ Len(inbox) <= InboxDepth

\* os_memset of the whole record.
Cleared == [ongoing |-> FALSE, cleanup |-> FALSE, releasing |-> FALSE,
            sock |-> "zero", tx |-> FALSE, rx |-> FALSE, sema |-> "null",
            buffers |-> FALSE, rtc |-> FALSE, timer |-> FALSE,
            lowVoltage |-> FALSE, noResp |-> 0]
Blank == [Cleared EXCEPT !.sock = "none"]

KeepaliveInit ==
    /\ env = Cleared
    /\ pc = [tx |-> "none", rx |-> "none", cmd |-> "idle"]
    /\ leaving = [s \in Stages |-> 0]
    /\ held = 0 /\ alarm = FALSE
    /\ host = [reason |-> "POWER", vote |-> TRUE]
    /\ link = "none" /\ inbox = <<>>

Move(t, from, to) == pc[t] = from /\ pc' = [pc EXCEPT ![t] = to]

Posted(e) == IF e.sema = "null" THEN e ELSE [e EXCEPT !.sema = "posted"]
HasSocket == env.sock # "none"

-----------------------------------------------------------------------------
(* Commands of the AP, one at a time.                                      *)

\* Mutant: a teardown under way is not waited for.
RefusedWhileRunning == env.ongoing \/ env.tx \/ env.rx
Refused == env.ongoing \/ env.tx \/ env.rx \/ env.cleanup
NewSession == [Blank EXCEPT !.ongoing = TRUE, !.tx = TRUE, !.sema = "empty",
                            !.buffers = TRUE]

\* DB_IPC_CMD_KEEPALIVESTART.  The AP is told OK whatever comes of it.  A
\* session that could not be set up leaves nothing behind.
StartCommand ==
    /\ pc.cmd = "idle"
    /\ \/ Refused /\ UNCHANGED <<env, pc>>
       \/ ~Refused /\ env' = NewSession /\ Move("tx", "none", "connect")
       \/ ~Refused /\ "alloc" \in Faults /\ env' = Blank /\ UNCHANGED pc
    /\ UNCHANGED <<leaving, held, alarm, host, netVars>>

\* DB_IPC_CMD_KEEPALIVESTOP: the first half of db_keepalive_cp_stop.
StopCommand ==
    /\ Move("cmd", "idle", "stopped")
    /\ env' = Posted([env EXCEPT !.ongoing = FALSE])
    /\ UNCHANGED <<leaving, held, alarm, host, netVars>>

\* The rest of it: with no TX the command thread deinitialises itself.
StopLooksForTx ==
    /\ Move("cmd", "stopped", IF env.tx THEN "idle" ELSE "deinit")
    /\ UNCHANGED <<env, leaving, held, alarm, host, netVars>>

-----------------------------------------------------------------------------
(* db_keepalive_cp_deinit and db_keepalive_release_resources_if_idle.      *)

Closed == IF env.sock = "open" THEN link' = "none" /\ inbox' = <<>>
                               ELSE UNCHANGED <<link, inbox>>

Deinit(t) ==
    /\ Move(t, "deinit", "close")
    /\ env' = Posted([env EXCEPT !.ongoing = FALSE, !.cleanup = TRUE])
    /\ alarm' = (alarm /\ ~env.rtc)
    /\ UNCHANGED <<leaving, held, host, netVars>>

\* TX still has its handle, so its own attempt to release does nothing here.
CloseSocket(t) ==
    /\ Move(t, "close", IF t = "tx" THEN "clear" ELSE "claim")
    /\ env' = [env EXCEPT !.lowVoltage = FALSE, !.timer = FALSE, !.sock = "none"]
    /\ Closed
    /\ UNCHANGED <<leaving, held, alarm, host>>

\* Mutant: the flag that somebody is releasing is not looked at.
ClaimableTwice == env.cleanup /\ ~env.tx /\ ~env.rx
\* Mutant: RX is not waited for.
ClaimableByTx == env.cleanup /\ ~env.releasing /\ ~env.tx
Claimable == env.cleanup /\ ~env.releasing /\ ~env.tx /\ ~env.rx

Claim == env' = [env EXCEPT !.releasing = env.releasing \/ Claimable]

\* What the claimer does: the resources, then the record.
Tear ==
    /\ env' = IF "preempt" \in Faults THEN Cleared ELSE Blank
    /\ alarm' = (alarm /\ ~env.rtc)
    /\ Closed

ResetSock == env' = [env EXCEPT !.sock = "none"]

Step(from, to) ==
    /\ leaving[from] > 0
    /\ leaving' = [s \in Stages |-> leaving[s] + (IF s = to THEN 1 ELSE 0)
                                               - (IF s = from THEN 1 ELSE 0)]

\* A thread that has cleared its handle.
Leaver ==
    \/ /\ Claim /\ Step("claim", IF Claimable THEN "tear" ELSE "gone")
       /\ UNCHANGED <<pc, held, alarm, host, netVars>>
    \/ /\ Tear /\ Step("tear", IF "preempt" \in Faults THEN "stray" ELSE "gone")
       /\ UNCHANGED <<pc, held, host>>
    \/ /\ ResetSock /\ Step("stray", "gone")
       /\ UNCHANGED <<pc, held, alarm, host, netVars>>

\* The command thread in the same function.
CmdRelease ==
    \/ /\ Claim /\ Move("cmd", "claim", IF Claimable THEN "tear" ELSE "idle")
       /\ UNCHANGED <<leaving, held, alarm, host, netVars>>
    \/ /\ Tear /\ Move("cmd", "tear", IF "preempt" \in Faults THEN "stray" ELSE "idle")
       /\ UNCHANGED <<leaving, held, host>>
    \/ /\ ResetSock /\ Move("cmd", "stray", "idle")
       /\ UNCHANGED <<leaving, held, alarm, host, netVars>>

\* TX and RX clear their handle and join those on their way out.
\* Mutant: RX does not clear it.
ClearHandleOfTx(t) ==
    /\ Move(t, "clear", "none")
    /\ env' = IF t = "tx" THEN [env EXCEPT !.tx = FALSE] ELSE env
    /\ leaving' = [leaving EXCEPT !["claim"] = @ + 1]
    /\ UNCHANGED <<held, alarm, host, netVars>>
ClearHandle(t) ==
    /\ Move(t, "clear", "none")
    /\ env' = IF t = "tx" THEN [env EXCEPT !.tx = FALSE] ELSE [env EXCEPT !.rx = FALSE]
    /\ leaving' = [leaving EXCEPT !["claim"] = @ + 1]
    /\ UNCHANGED <<held, alarm, host, netVars>>

CmdStep == StopLooksForTx \/ Deinit("cmd") \/ CloseSocket("cmd") \/ CmdRelease

-----------------------------------------------------------------------------
(* pl_wakeup_host, called by either thread.                                *)

\* Mutant: the vote is cast before the reason is there to read.
SetReasonLate(t) ==
    /\ \/ Move(t, "media", "mediaVote") \/ Move(t, "fail", "failVote")
    /\ host' = [host EXCEPT !.vote = TRUE]
    /\ UNCHANGED <<env, leaving, held, alarm, netVars>>
SetReason(t) ==
    /\ \/ Move(t, "media", "mediaVote") /\ host' = [host EXCEPT !.reason = "MULTIMEDIA"]
       \/ Move(t, "fail", "failVote") /\ host' = [host EXCEPT !.reason = "FAIL"]
    /\ UNCHANGED <<env, leaving, held, alarm, netVars>>

VoteOn(t) ==
    /\ \/ Move(t, "mediaVote", "loop")
       \/ Move(t, "failVote", IF t = "tx" THEN "deinit" ELSE "exit")
    /\ host' = [host EXCEPT !.vote = TRUE]
    /\ UNCHANGED <<env, leaving, held, alarm, netVars>>

-----------------------------------------------------------------------------
(* TX: db_keepalive_tx_handler.                                            *)

\* db_keepalive_init_connection.  It does not look at keepalive_ongoing.
Connect ==
    /\ Move("tx", "connect", "hello")
    /\ env' = [env EXCEPT !.sock = "open"]
    /\ link' = "up" /\ inbox' = <<>>
    /\ UNCHANGED <<leaving, held, alarm, host>>

ConnectFails ==
    /\ "connect" \in Faults
    /\ Move("tx", "connect", "deinit")
    /\ env' = [env EXCEPT !.sock = "none"]
    /\ host' = [host EXCEPT !.reason = "DISCONNECTION"]
    /\ UNCHANGED <<leaving, held, alarm, netVars>>

\* send: the server answers, or the request or its response is lost.
Send ==
    /\ UNCHANGED link
    /\ \/ UNCHANGED inbox
       \/ link = "up" /\ Len(inbox) < InboxDepth /\ inbox' = Append(inbox, "response")

\* The first heartbeat.  RX does not run yet, so the count is one step.
FirstHeartbeat ==
    /\ Move("tx", "hello", "spawn")
    /\ IF env.ongoing /\ HasSocket
       THEN Send /\ env' = [env EXCEPT !.noResp = 1]
       ELSE UNCHANGED <<env, netVars>>
    /\ UNCHANGED <<leaving, held, alarm, host>>

\* db_keepalive_init_rx.  When it fails it deinitialises; so does the exit.
InitRx ==
    /\ pc.tx = "spawn"
    /\ pc' = [pc EXCEPT !.tx = "reset", !.rx = "loop"]
    /\ env' = [env EXCEPT !.rx = TRUE]
    /\ UNCHANGED <<leaving, held, alarm, host, netVars>>

InitRxFails ==
    /\ "thread" \in Faults
    /\ Move("tx", "spawn", "deinit")
    /\ host' = [host EXCEPT !.reason = "DISCONNECTION"]
    /\ UNCHANGED <<env, leaving, held, alarm, netVars>>

\* pl_power_down_host: the reason, then the vote.
ResetReason ==
    /\ Move("tx", "reset", "unvote")
    /\ host' = [host EXCEPT !.reason = "NONE"]
    /\ UNCHANGED <<env, leaving, held, alarm, netVars>>

VoteOff ==
    /\ Move("tx", "unvote", "timers")
    /\ host' = [host EXCEPT !.vote = FALSE]
    /\ UNCHANGED <<env, leaving, held, alarm, netVars>>

\* db_keepalive_start_lv_sleep and the timer, whose handler only asks for
\* low-voltage sleep again.
StartTimer ==
    /\ Move("tx", "timers", "loop")
    /\ env' = [env EXCEPT !.lowVoltage = TRUE, !.timer = TRUE]
    /\ UNCHANGED <<leaving, held, alarm, host, netVars>>

TimerFails ==
    /\ "timer" \in Faults
    /\ Move("tx", "timers", "fail")
    /\ env' = [env EXCEPT !.lowVoltage = TRUE]
    /\ UNCHANGED <<leaving, held, alarm, host, netVars>>

\* The loop: set the alarm and wait.
SetAlarm ==
    /\ env.ongoing
    /\ Move("tx", "loop", "wait")
    /\ alarm' = TRUE
    /\ env' = [env EXCEPT !.rtc = TRUE]
    /\ UNCHANGED <<leaving, held, host, netVars>>

Woken ==
    /\ env.sema = "posted"
    /\ Move("tx", "wait", "woken")
    /\ env' = [env EXCEPT !.sema = "empty"]
    /\ UNCHANGED <<leaving, held, alarm, host, netVars>>

LoopEnds ==
    /\ ~env.ongoing
    /\ \/ Move("tx", "loop", "deinit") \/ Move("tx", "woken", "deinit")
    /\ UNCHANGED <<env, leaving, held, alarm, host, netVars>>

\* No connection, or send fails on one that the server closed: not counted.
NotSent ==
    /\ env.ongoing
    /\ \/ ~HasSocket
       \/ (env.noResp < MaxNoResp /\ link \in {"none", "closed"})
    /\ Move("tx", "woken", "loop")
    /\ UNCHANGED <<env, leaving, held, alarm, host, netVars>>

\* Mutant: the watchdog looks one request too late.
HeartbeatTooOften ==
    /\ env.ongoing /\ HasSocket /\ env.noResp <= MaxNoResp
    /\ Move("tx", "woken", "count")
    /\ Send
    /\ UNCHANGED <<env, leaving, held, alarm, host>>
Heartbeat ==
    /\ env.ongoing /\ HasSocket /\ env.noResp < MaxNoResp
    /\ Move("tx", "woken", "count")
    /\ Send
    /\ UNCHANGED <<env, leaving, held, alarm, host>>

\* keepalive_no_resp_cnt++, a read and a write; RX may clear it in between.
ReadCount ==
    /\ Move("tx", "count", "store")
    /\ held' = env.noResp
    /\ UNCHANGED <<env, leaving, alarm, host, netVars>>

WriteCount ==
    /\ Move("tx", "store", "loop")
    /\ env' = [env EXCEPT !.noResp = held + 1]
    /\ UNCHANGED <<leaving, held, alarm, host, netVars>>

\* Mutant: the watchdog ends the session and wakes nobody.
WatchdogSilent ==
    /\ env.ongoing /\ HasSocket /\ env.noResp >= MaxNoResp
    /\ Move("tx", "woken", "deinit")
    /\ UNCHANGED <<env, leaving, held, alarm, host, netVars>>
Watchdog ==
    /\ env.ongoing /\ HasSocket /\ env.noResp >= MaxNoResp
    /\ Move("tx", "woken", "fail")
    /\ UNCHANGED <<env, leaving, held, alarm, host, netVars>>

TxStep ==
    \/ Connect \/ ConnectFails \/ FirstHeartbeat \/ InitRx \/ InitRxFails
    \/ ResetReason \/ VoteOff \/ StartTimer \/ TimerFails
    \/ SetAlarm \/ Woken \/ LoopEnds \/ NotSent \/ Heartbeat
    \/ ReadCount \/ WriteCount \/ Watchdog
    \/ SetReason("tx") \/ VoteOn("tx")
    \/ Deinit("tx") \/ CloseSocket("tx") \/ ClearHandle("tx")

-----------------------------------------------------------------------------
(* RX: db_keepalive_rx_handler.                                            *)

RxLoop ==
    /\ Move("rx", "loop", IF env.ongoing /\ HasSocket THEN "recv" ELSE "exit")
    /\ UNCHANGED <<env, leaving, held, alarm, host, netVars>>

\* What is read once the session ends is dropped.
Recv(packet) ==
    /\ HasSocket /\ inbox # <<>> /\ Head(inbox) = packet
    /\ inbox' = Tail(inbox)
    /\ UNCHANGED <<leaving, held, alarm, host, link>>

RecvResponse ==
    /\ Recv("response") /\ Move("rx", "recv", "loop")
    /\ env' = IF env.ongoing THEN [env EXCEPT !.noResp = 0] ELSE env

\* Mutant: the command is answered and nobody is woken.
RecvWakeIgnored ==
    /\ Recv("wake")
    /\ Move("rx", "recv", "loop")
    /\ UNCHANGED env
RecvWake ==
    /\ Recv("wake")
    /\ Move("rx", "recv", IF env.ongoing THEN "media" ELSE "loop")
    /\ UNCHANGED env

\* The server closed the connection, or TX closed the socket under RX.
RecvLost ==
    /\ ~HasSocket \/ (inbox = <<>> /\ link \in {"none", "closed"})
    /\ Move("rx", "recv", "fail")
    /\ UNCHANGED <<env, leaving, held, alarm, host, netVars>>

\* SO_RCVTIMEO.
RecvIdle ==
    /\ link # "closed"
    /\ Move("rx", "recv", "loop")
    /\ UNCHANGED <<env, leaving, held, alarm, host, netVars>>

RxExit ==
    /\ Move("rx", "exit", "clear")
    /\ env' = Posted([env EXCEPT !.ongoing = FALSE])
    /\ UNCHANGED <<leaving, held, alarm, host, netVars>>

RxStep ==
    \/ RxLoop \/ RecvResponse \/ RecvWake \/ RecvLost \/ RecvIdle
    \/ SetReason("rx") \/ VoteOn("rx") \/ RxExit \/ ClearHandle("rx")

-----------------------------------------------------------------------------
(* The alarm and the server.                                               *)

\* db_keepalive_rtc_timer_handler.  The alarm fires once.
RtcFires ==
    /\ alarm /\ alarm' = FALSE
    /\ env' = IF env.ongoing THEN Posted(env) ELSE env
    /\ UNCHANGED <<pc, leaving, held, host, netVars>>

Established == pc.tx \notin {"connect", "hello", "spawn", "reset", "unvote"}

Server ==
    /\ link = "up" /\ (Established \/ "early" \in Faults)
    /\ \/ link' \in {"closed", "silent"} /\ UNCHANGED inbox
       \/ UNCHANGED link /\ Len(inbox) < InboxDepth /\ inbox' = Append(inbox, "wake")
    /\ UNCHANGED <<env, pc, leaving, held, alarm, host>>

=============================================================================
