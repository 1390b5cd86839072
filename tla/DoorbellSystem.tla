--------------------------- MODULE DoorbellSystem ---------------------------
(***************************************************************************)
(* The doorbell of the AP: the core thread that serves the message queue   *)
(* (doorbell_core.c), the thread of the control channel that executes      *)
(* commands (doorbell_cmd.c), the timer thread and the threads of the      *)
(* channels, until the connection is handed over to the CP, which cuts the *)
(* power and wakes the AP again.                                           *)
(***************************************************************************)
EXTENDS DoorbellTransfer

VARIABLES
    service,    \* db_info->service
    core,       \* the core thread: "idle", "closing" a lost connection, or
                \* "handover" inside send_keepalive
    cmd,        \* the command being executed
    running,    \* the media devices that are on
    power,      \* "on", or "leaving" once the CP was told to take over
    unanswered  \* history: the last stop found no service to stop

coreVars == <<service, core, cmd, running, power, unanswered>>
vars == <<keepaliveVars, transferVars, coreVars>>

\* All that was to be reported of the starts and ends of channels has been, and
\* the core thread returns from starting or stopping them.
Reported == \A c \in Channels : reports[c] = <<>>

InQueue(e) == \E i \in DOMAIN queue : queue[i].event = e

\* Of the media the audio is turned off before the connection is shut down.
TurnedOffFirst == Media \cap {"audio"}

NoCmd == [op |-> "none"]
Cmds == {NoCmd, [op |-> "query"]}
        \cup [op : {"turnOn", "off"}, medium : Media]
        \cup [op : {"on"}, medium : Media, was : BOOLEAN]

Init ==
    /\ KeepaliveInit /\ TransferInit
    /\ service = None /\ core = "idle" /\ cmd = NoCmd /\ running = {} /\ power = "on"
    /\ unanswered = FALSE

----------------------------------------------------------------------------
(* doorbell_message_handle, one action per message *)

Take(e) ==
    /\ Reported /\ (handler = "idle" \/ Preempted)
    /\ core = "idle" /\ queue # <<>> /\ Head(queue).event = e
    /\ queue' = Tail(queue)

\* The service is taken, and stays taken, also when the network cannot be
\* set up since flash does not know the server.
HandleStart ==
    /\ Take("start")
    /\ LET s == Head(queue).service
       IN \/ /\ service # None
             /\ UNCHANGED <<service, flash, transferVars>>
          \/ /\ service = None
             /\ service' = s /\ flash' = s
             /\ \/ NetStart(s)
                \/ "flash" \in Faults /\ UNCHANGED transferVars
    /\ UNCHANGED <<votes, pending, wakeCmd, timer, handler, core, cmd, running, power, unanswered>>

\* START_RESPONSE, BLE_DISABLE and IMAGE_TCP_SERVICE_DISCONNECTED
HandleNote ==
    /\ \E e \in {"started", "bleOff", "imageOff"} : Take(e)
    /\ UNCHANGED <<votes, pending, wakeCmd, timer, handler, flash, transferVars, coreVars>>

\* Mutant: nobody looks for a command that waits.
HandleConnectedOnly ==
    /\ Take("connected")
    /\ timer' = Counting(timer, votes)
    /\ UNCHANGED <<votes, pending, wakeCmd, handler, flash, transferVars, coreVars>>

\* The command that waited for the connection is executed in the core
\* thread, as any other: it stops the countdown and starts it again.
HandleConnected ==
    /\ Take("connected")
    /\ timer' = Counting(IF wakeCmd THEN NotCounting ELSE timer, votes)
    /\ wakeCmd' = FALSE
    /\ UNCHANGED <<votes, pending, handler, flash, transferVars, coreVars>>

\* The transport, the audio and then the connection are shut down ...
HandleDisconnected ==
    /\ Take("disconnected")
    /\ running' = running \ TurnedOffFirst
    /\ IF service \in Services THEN NetStop ELSE UNCHANGED transferVars
    /\ core' = "closing"
    /\ UNCHANGED <<votes, pending, wakeCmd, timer, handler, flash, service, cmd, power, unanswered>>

\* ... then camera and LCD; all votes are taken back.
Closed ==
    /\ core = "closing" /\ Reported
    /\ core' = "idle"
    /\ running' = running \cap TurnedOffFirst
    /\ votes' = {}
    /\ timer' = VoteRemoved(timer, votes, Media)
    /\ service' = None
    /\ UNCHANGED <<queue, pending, wakeCmd, handler, flash, transferVars, cmd, power, unanswered>>

\* Mutant: a stop that is skipped leaves the flag.
HandleStopSkips ==
    /\ Take("stop")
    /\ IF votes # {} THEN UNCHANGED <<transferVars, unanswered>>
                     ELSE NetStop /\ unanswered' = (transport = None)
    /\ UNCHANGED <<votes, pending, wakeCmd, timer, handler, flash, service, core, cmd, running, power>>

HandleStop ==
    /\ Take("stop")
    /\ IF votes # {}
       THEN pending' = FALSE /\ unanswered' = FALSE /\ UNCHANGED transferVars
       ELSE NetStop /\ unanswered' = (transport = None) /\ UNCHANGED pending
    /\ UNCHANGED <<votes, wakeCmd, timer, handler, flash, service, core, cmd, running, power>>

\* Mutant: the votes are not looked at again.
HandleStopResponseBlind ==
    /\ Take("stopResponse")
    /\ pending' = FALSE /\ unanswered' = FALSE
    /\ core' = IF pending THEN "handover" ELSE "idle"
    /\ UNCHANGED <<votes, wakeCmd, timer, handler, flash, transferVars, service, cmd, running, power>>

\* doorbell_keepalive_send_keepalive: look, and clear the flag ...
HandleStopResponse ==
    /\ Take("stopResponse")
    /\ pending' = FALSE /\ unanswered' = FALSE
    /\ core' = IF pending /\ votes = {} THEN "handover" ELSE "idle"
    /\ UNCHANGED <<votes, wakeCmd, timer, handler, flash, transferVars, service, cmd, running, power>>

\* ... then tell the CP, unless flash does not know the server.
SendKeepalive ==
    /\ core = "handover"
    /\ core' = "idle"
    /\ \/ power' = "leaving" /\ timer' = NotCounting
       \/ Faults # {} /\ UNCHANGED <<power, timer>>
    /\ UNCHANGED <<queue, votes, pending, wakeCmd, handler, flash, transferVars, service, cmd, running, unanswered>>

CoreStep ==
    \/ HandleStart \/ HandleNote \/ HandleConnected \/ HandleDisconnected
    \/ Closed \/ HandleStop \/ HandleStopResponse \/ SendKeepalive

----------------------------------------------------------------------------
(* doorbell_transmission_cmd_recive_callback in the control channel's thread *)

\* Commands are rejected until all channels are connected.  Any command
\* stops the countdown.
Receive ==
    /\ cmd = NoCmd
    /\ link["ctrl"] = "up" /\ update["ctrl"] = NoUpdate /\ AllConnected
    /\ cmd' \in [op : {"turnOn", "off"}, medium : Media] \cup {[op |-> "query"]}
    /\ timer' = NotCounting
    /\ UNCHANGED <<queue, votes, pending, wakeCmd, handler, flash, transferVars, service, core, running, power, unanswered>>

\* TURN_ON votes before it turns anything on.
Vote ==
    /\ cmd.op = "turnOn"
    /\ cmd' = [op |-> "on", medium |-> cmd.medium, was |-> cmd.medium \in votes]
    /\ votes' = votes \cup {cmd.medium}
    /\ timer' = NotCounting
    /\ UNCHANGED <<queue, pending, wakeCmd, handler, flash, transferVars, service, core, running, power, unanswered>>

\* Mutant: the countdown that the command stopped is not started again.
DoneOnly(v) ==
    /\ cmd' = NoCmd
    /\ votes' = v
    /\ timer' = IF v = votes THEN timer ELSE VoteRemoved(timer, votes, votes \ v)
    /\ UNCHANGED <<queue, pending, wakeCmd, handler, flash, transferVars, service, core, power, unanswered>>

Done(v) ==
    /\ cmd' = NoCmd
    /\ votes' = v
    /\ timer' = Counting(timer, v)
    /\ UNCHANGED <<queue, pending, wakeCmd, handler, flash, transferVars, service, core, power, unanswered>>

\* Mutant: a failure takes the vote of a medium that was on before.
TurnedOnForgets ==
    /\ cmd.op = "on"
    /\ \/ running' = running \cup {cmd.medium} /\ Done(votes)
       \/ UNCHANGED running /\ Done(votes \ {cmd.medium})

\* A medium that could not be turned on loses the vote it got for it.  The
\* camera is turned off again when its transfer does not start.
TurnedOn ==
    /\ cmd.op = "on"
    /\ \/ running' = running \cup {cmd.medium} /\ Done(votes)
       \/ /\ running' \in {running, running \ ({cmd.medium} \cap {"camera"})}
          /\ Done(IF cmd.was THEN votes ELSE votes \ {cmd.medium})

TurnedOff ==
    /\ cmd.op = "off"
    /\ \/ running' = running \ {cmd.medium} /\ Done(votes \ {cmd.medium})
       \/ UNCHANGED running /\ Done(votes)

\* DBCMD_SET_SERVICE_TYPE asks for a service, the others only answer.
Queried ==
    /\ cmd.op = "query"
    /\ UNCHANGED running /\ Done(votes)

CmdStep == Vote \/ TurnedOn \/ TurnedOff \/ Queried

----------------------------------------------------------------------------
(* The other threads and the power *)

\* The control channel's thread executes a command to its end before it
\* reports the end of its channel.  Stopping the channels takes the core thread
\* longer than the timer thread takes from the send to the flag.
Report(c) ==
    /\ handler = "idle"
    /\ c = "ctrl" => cmd = NoCmd
    /\ ReportStart(c) \/ ReportStop(c)
    /\ UNCHANGED coreVars

\* Channels whose thread is about to write the mask, and may send a message.
Updating(c) == IF update[c] = NoUpdate THEN 0 ELSE 1
InFlight == Updating("ctrl") + Updating("video") + Updating("audio")

\* A bound: but for "full", what comes from outside leaves two places free.
Roomy == "full" \in Faults \/ Len(queue) + InFlight + 2 < QueueLen

\* A started channel reports at once; to set up or to lose a connection
\* takes longer, and the countdown at least three seconds.
Network(c) ==
    /\ Roomy
    /\ c = "ctrl" => cmd = NoCmd
    /\ Connect(c) \/ Lose(c)
    /\ UNCHANGED coreVars

Update(c) == (SetConnected(c) \/ ClearConnected(c)) /\ UNCHANGED coreVars

\* The end of a stopped service is long handled when the countdown that began
\* with it expires.
TimerStep ==
    /\ (Reported /\ ~InQueue("stopResponse") /\ Expire) \/ FlagStop
    /\ UNCHANGED <<transferVars, coreVars>>

\* The ka command of the console.
Console == power = "on" /\ SetInterval /\ UNCHANGED <<transferVars, coreVars>>

\* Nothing is on its way that ends a service.
Settled ==
    /\ core = "idle" /\ Reported
    /\ \A e \in {"stop", "stopResponse", "disconnected"} : ~InQueue(e)

\* The user asks for a service over BLE, one request at a time and, but for
\* "intrude", not in the instant in which the AP hands over.
Boarding ==
    /\ \/ "intrude" \in Faults
       \/ (pending => Settled) /\ handler = "idle" /\ core # "handover" /\ power = "on"
    /\ \A i \in DOMAIN queue : queue[i].event # "start"
    /\ Fits /\ Roomy
    /\ \E s \in Services : Send(Start(s))
    /\ UNCHANGED <<votes, pending, wakeCmd, timer, handler, flash, transferVars, coreVars>>

\* The CP cuts the power, and later gives it back for a reason.
Reboot ==
    /\ power = "leaving"
    /\ \E reason \in {"MULTIMEDIA", "FAIL", "DISCONNECTION", "POWER"}, done \in BOOLEAN :
          /\ done \/ "ipc" \in Faults
          /\ Booted(reason, done)
    /\ link' = [c \in Channels |-> "down"]
    /\ reports' = [c \in Channels |-> <<>>]
    /\ update' = [c \in Channels |-> NoUpdate]
    /\ connected' = {} /\ stopped' = {} /\ transport' = None /\ met' = {}
    /\ service' = None /\ core' = "idle" /\ cmd' = NoCmd /\ running' = {}
    /\ power' = "on" /\ unanswered' = FALSE

Next ==
    \/ CoreStep
    \/ Receive \/ CmdStep
    \/ \E c \in Channels : Report(c) \/ Network(c) \/ Update(c)
    \/ TimerStep \/ Console \/ Boarding \/ Reboot

Spec == Init /\ [][Next]_vars

\* Threads get the CPU and a timer that runs expires.  What a channel has to
\* report is reported, however often the channel connects, is lost or takes a
\* command before.  That a channel connects, that a user comes and that the CP
\* gives the power back is not assumed.
Fairness ==
    /\ WF_vars(CoreStep)
    /\ WF_vars(CmdStep)
    /\ WF_vars(TimerStep)
    /\ SF_vars(\E c \in Channels : Report(c))
    /\ \A c \in Channels : WF_vars(Update(c))
FairSpec == Spec /\ Fairness

----------------------------------------------------------------------------
TypeOK ==
    /\ KeepaliveTypeOK /\ TransferTypeOK
    /\ service \in Services \cup {None}
    /\ core \in {"idle", "closing", "handover"}
    /\ cmd \in Cmds
    /\ running \subseteq Media
    /\ power \in {"on", "leaving"}
    /\ unanswered \in BOOLEAN

\* A stopped channel reports its end.
StopUnderway ==
    \A c \in Channels : c \in stopped \/ \E i \in DOMAIN reports[c] : reports[c][i] = "stop"

\* doorbell_keepalive_stop_service_if_running sends no second stop while the
\* flag is set: it is left behind with nothing on the way that clears it, so
\* that no countdown stops the service again, only by a stop that came when
\* the connection was already lost and its service gone.
PendingHasCause ==
    pending => InQueue("stop") \/ InQueue("stopResponse") \/ StopUnderway \/ unanswered

\* doorbell_keepalive_send_keepalive: the CP is told to cut the power only when
\* no media service votes and, but for the audio, none is on.
HandedOverIdle == power = "leaving" => votes = {} /\ running \subseteq TurnedOffFirst

\* "network transfer is not ready, reject control command": although three
\* threads and the core thread write chan_connected_mask without a lock, and a
\* write may bring back the bits of channels that are long down, a command gets
\* through only when every channel has connected since the service started; and
\* every variable has its type.
CommandsGated == TypeOK /\ (link["ctrl"] = "up" /\ AllConnected => met = Channels)

\* doorbell_transmission_cmd_recive_callback and the disconnect of the core
\* thread: no medium is on without its vote, whatever commands and lost
\* connections interleave; else its vote could not keep the AP up.
RunningIsVoted == running \subseteq votes \cup TurnedOffFirst

\* doorbell_keepalive_start_mm_status_check is called wherever the AP may have
\* become idle: when every thread is at rest, an idle and connected AP that
\* waits for no stop counts down.
Quiet == core = "idle" /\ queue = <<>> /\ cmd = NoCmd /\ handler = "idle" /\ Reported
IdleCounts == Quiet /\ power = "on" /\ votes = {} /\ AllConnected /\ ~pending => timer = "running"

\* README of aov, "wait for the idle check; the device enters CP keepalive
\* low-power state": an idle AP with a connection is handed over to the CP
\* unless the user comes with a command or asks for a service, or the
\* connection is lost first; and unless its flag was left behind by a stop that
\* found no service (LostSleeps).
Idle == power = "on" /\ votes = {} /\ ~unanswered
Attended == cmd # NoCmd \/ votes # {} \/ InQueue("start")
IdleSleeps ==
    (Idle /\ AllConnected /\ transport # None)
    ~> (power = "leaving" \/ Attended \/ core = "closing")

\* doorbell_message_handle on a lost connection, "clear stale votes so the
\* keepalive idle check can detect idle and sleep": an AP that lost its
\* connection is handed over too.
LostSleeps ==
    (Idle /\ service = None /\ timer = "running") ~> (power = "leaving" \/ Attended)

\* doorbell_keepalive_on_service_start_success: the wake-up request that the AP
\* was woken for is executed once the service is connected.
WakeServed == (wakeCmd /\ AllConnected) ~> (~wakeCmd \/ power = "leaving")
============================================================================
