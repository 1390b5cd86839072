-------------------------- MODULE KeepaliveSystem --------------------------
(***************************************************************************)
(* The keepalive of the CP together with what the AP does about it         *)
(* (doorbell_keepalive.c, built without DOORBELL_KEEPALIVE_ALWAYS_ON): the *)
(* AP hands its connection over, loses its power, and is woken with a      *)
(* reason that tells it what to do.                                        *)
(***************************************************************************)
EXTENDS KeepaliveCp

\* off       without power
\* boot      before it has read the reason of the wake-up
\* stopping  waits for the confirmation of STOP
\* service   its own connection to the server is up, or being set up
\* handed    the service is stopped and START was confirmed
\* lost      booted for no reason it knows
VARIABLE ap

vars == <<cpVars, ap>>

ApStates == {"off", "boot", "stopping", "service", "handed", "lost"}

\* user_app_main votes the AP on with POWERUP_POWER_WAKEUP_FLAG.
Init == KeepaliveInit /\ ap = "boot"

PowerOn ==
    /\ ap = "off" /\ host.vote
    /\ ap' = "boot"
    /\ UNCHANGED cpVars

\* The power manager acts on a vote at once, or (slow) after a while: then a
\* vote that is taken back in time leaves the AP on.
CutAtOnce == ap' = IF host'.vote \/ "slow" \in Faults THEN ap ELSE "off"
PowerCut ==
    /\ ap # "off" /\ ~host.vote
    /\ ap' = "off"
    /\ UNCHANGED cpVars

\* doorbell_keepalive_handle_wakeup_reason.  After POWER it is boarding, by
\* the user, that starts the service.
ReadReason ==
    /\ ap = "boot"
    /\ \/ host.reason = "MULTIMEDIA" /\ ap' = "stopping" /\ StopCommand
       \/ /\ host.reason \in {"DISCONNECTION", "FAIL", "POWER"}
          /\ ap' = "service" /\ UNCHANGED cpVars
       \/ host.reason = "NONE" /\ ap' = "lost" /\ UNCHANGED cpVars

StopConfirmed ==
    /\ ap = "stopping" /\ pc.cmd = "idle"
    /\ ap' = "service"
    /\ UNCHANGED cpVars

AllGone == pc.tx = "none" /\ pc.rx = "none" /\ \A s \in Stages : leaving[s] = 0
Leaving == leaving["claim"] + leaving["tear"] + leaving["stray"]

\* doorbell_keepalive_send_keepalive, once nothing is watched any more and
\* the service has stopped.  The idle countdown takes at least ten seconds,
\* a session that was told to stop at most three.
Handover ==
    /\ ap = "service"
    /\ AllGone \/ ("quick" \in Faults /\ Leaving <= MaxLeaving)
    /\ StartCommand
    /\ ap' = "handed"

\* pl_wakeup_env is the CP's and still holds the reason of the last wake-up.
Restart ==
    /\ "reset" \in Faults /\ ap # "off"
    /\ ap' = "boot"
    /\ UNCHANGED cpVars

ApStep == PowerOn \/ PowerCut \/ Restart \/ ReadReason \/ StopConfirmed \/ Handover
CpStep == (TxStep \/ RxStep \/ CmdStep \/ Leaver \/ RtcFires) /\ CutAtOnce
Next == ApStep \/ CpStep \/ (Server /\ UNCHANGED ap)

Spec == Init /\ [][Next]_vars

\* Threads get the CPU, a registered alarm fires, the power manager acts on a
\* vote, and a packet that has arrived is read some day.  Nothing is assumed
\* of the server, nor that the AP becomes idle.
Fairness ==
    /\ WF_vars(TxStep /\ CutAtOnce)
    /\ WF_vars(RxStep /\ CutAtOnce)
    /\ SF_vars((RecvResponse \/ RecvWake \/ RecvLost) /\ CutAtOnce)
    /\ WF_vars(CmdStep /\ CutAtOnce)
    /\ WF_vars(Leaver /\ CutAtOnce)
    /\ WF_vars(RtcFires /\ CutAtOnce)
    /\ WF_vars(PowerOn) /\ WF_vars(PowerCut)
    /\ WF_vars(ReadReason) /\ WF_vars(StopConfirmed)

FairSpec == Spec /\ Fairness

-----------------------------------------------------------------------------
(* Safety.                                                                 *)

\* Every variable keeps to its type.
TypeOK == KeepaliveTypeOK /\ ap \in ApStates

\* db_keepalive_release_resources_if_idle: "exactly one side may release
\* shared resources", whoever of TX, RX and the command thread gets there.
Tearing == leaving["tear"] + (IF pc.cmd = "tear" THEN 1 ELSE 0)
OneReleaser == Tearing <= 1

\* ... and nobody releases them under a thread that may still use them: while
\* TX or RX has not cleared its handle, the buffers and the semaphore exist.
ResourcesHeld ==
    env.tx \/ env.rx \/ pc.tx # "none" \/ pc.rx # "none"
        => env.buffers /\ env.sema # "null"

\* pl_power_down_host: whenever the host is voted off, a thread is left that
\* will vote it on: RX on the link, or one that is about to wake the host.
AsleepIsWatched ==
    ~host.vote => \/ env.ongoing /\ pc.rx \notin {"none", "exit", "clear"}
                  \/ \E t \in {"tx", "rx"} : pc[t] \in {"fail", "failVote"}

\* pl_wakeup_host: the reason is there before the host that reads it.
WokenForReason == ap = "boot" => host.reason # "NONE"

\* The invariant behind these: a handle is set exactly while its thread runs,
\* whoever releases holds the flag and the threads are gone, a session asked to
\* go is no longer ongoing, and TX counts a request only below the limit.
TeardownInv ==
    /\ env.tx <=> pc.tx # "none"
    /\ env.rx <=> pc.rx # "none"
    /\ Tearing = IF env.releasing THEN 1 ELSE 0
    /\ env.releasing => env.cleanup /\ ~env.tx /\ ~env.rx
    /\ env.cleanup => ~env.ongoing
    /\ env.tx \/ env.rx => env.buffers /\ env.sema # "null"
    /\ pc.tx = "count" => env.noResp < MaxNoResp

\* The invariant behind AsleepIsWatched and WokenForReason: commands run only for
\* an AP that waits for them, a session is set up only for one that handed over,
\* and from the vote until TX or RX takes it back the session stands.
Setup == {"connect", "hello", "spawn", "reset", "unvote"}
Guarding == {"timers", "loop", "wait", "woken", "count", "store", "fail", "failVote"}
Listening == {"loop", "recv", "media", "mediaVote", "fail", "failVote"}

SetupApart ==
    /\ pc.cmd # "idle" => ap = "stopping"
    /\ pc.tx \in Setup => ap = "handed" /\ host.vote /\ env.ongoing
    /\ pc.tx \in {"connect", "hello", "spawn"} => pc.rx = "none"
    /\ pc.tx \in {"reset", "unvote"} => pc.rx \in {"loop", "recv"}
    /\ pc.tx \in Setup \ {"connect"} =>
          /\ env.sock = "open" /\ link = "up"
          /\ \A i \in 1 .. Len(inbox) : inbox[i] # "wake"

SessionStands ==
    ~host.vote =>
        /\ ap \in {"off", "handed"} /\ env.ongoing /\ env.sock = "open"
        /\ pc.tx \in Guarding /\ pc.rx \in Listening

ReasonGiven ==
    /\ host.reason = "NONE" => ~host.vote \/ pc.tx = "unvote"
    /\ pc.tx = "failVote" \/ pc.rx \in {"mediaVote", "failVote"}
          => host.reason # "NONE"

WatchInv == SetupApart /\ SessionStands /\ ReasonGiven

\* The invariant behind SessionManaged: a session is ongoing only with its TX,
\* and a thread at the end of its way, or RX alone, is of one that has ended.
SessionInv ==
    /\ env.ongoing => pc.tx # "none"
    /\ pc.tx \in {"close", "clear"} => env.cleanup
    /\ pc.tx = "none" /\ pc.rx # "none" => env.cleanup
    /\ pc.rx = "clear" => ~env.ongoing
    /\ pc.tx \in {"connect", "hello", "spawn"} => pc.rx = "none"

(* The refinement.                                                         *)

\* The session as the flags of its record and its threads tell.
Users == {t \in {"tx", "rx"} : pc[t] # "none"}
Phase == IF env.releasing THEN "releasing"
         ELSE IF env.ongoing THEN "open"
         ELSE IF env.cleanup \/ Users # {} THEN "ending" ELSE "none"

Session == INSTANCE KeepaliveSession WITH phase <- Phase, users <- Users

\* db_keepalive_cp_init, db_keepalive_cp_deinit and "Exclusive owner now: both
\* worker threads have exited": whatever fails and whoever is preempted, each
\* session begins after the last was released and is released after its threads.
SessionManaged == Session!SessionSpec

(* Liveness.                                                               *)

\* README, demo flow: "wakes AP on ... keepalive failure": a link that dies
\* while the AP is off brings the AP back to serve on its own connection.
DeadLinkServed ==
    ap = "off" /\ link \in {"closed", "silent"} ~> ap = "service"

\* The same for "server wakeup".
WakeupServed ==
    ap = "off" /\ pc.rx # "none" /\ (\E i \in DOMAIN inbox : inbox[i] = "wake") ~> ap = "service"

\* db_keepalive_cp_stop, db_keepalive_cp_deinit: a session that ends, were it
\* told to while TX waits for its alarm, is gone some day: START is accepted again.
TeardownCompletes == Phase = "ending" ~> Phase = "none"

=============================================================================
