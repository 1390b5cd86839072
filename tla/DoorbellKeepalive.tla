------------------------- MODULE DoorbellKeepalive -------------------------
(***************************************************************************)
(* The idle countdown of the AP (doorbell_keepalive.c, the vote functions  *)
(* of doorbell_cmd.c, doorbell_send_msg of doorbell_core.c), in a build    *)
(* with NTWK_CLIENT_SERVICE_ENABLE and without                             *)
(* DOORBELL_KEEPALIVE_ALWAYS_ON: media services vote, without a vote a     *)
(* one-shot timer counts down, and when it expires the service is told to  *)
(* stop so that the connection can be handed over to the CP.               *)
(***************************************************************************)
EXTENDS Naturals, Sequences, FiniteSets

CONSTANTS
    Media,       \* the bits of mm_service_status: camera, audio, LCD
    Services,    \* DOORBELL_SERVICE_LAN_TCP, DOORBELL_SERVICE_LAN_UDP
    None,        \* DOORBELL_SERVICE_NONE
    QueueLen,    \* length of db_info->queue
    Preempted,   \* may the core thread take the stop before the flag is set
    Faults       \* "ipc", "flash": these may fail; "full": the queue may fill;
                 \* "intrude": the user may ask for a service during a hand-over

ASSUME DoorbellAssumption ==
    /\ None \notin Services
    /\ IsFiniteSet(Media)
    /\ QueueLen \in Nat /\ QueueLen > 2    \* a booting AP sends two messages
    /\ Preempted \in BOOLEAN
    /\ Faults \subseteq {"ipc", "flash", "full", "intrude"}

VARIABLES
    queue,      \* db_info->queue
    votes,      \* mm_service_status
    pending,    \* pending_keepalive_after_service_stop
    wakeCmd,    \* pending_wakeup_cmd holds DBCMD_WAKE_UP_REQUEST
    timer,      \* the countdown: "none", "running" or "expired"
    handler,    \* the timer thread: "idle", or "sent" before it sets the flag
    flash       \* the service type saved in flash

keepaliveVars == <<queue, votes, pending, wakeCmd, timer, handler, flash>>

Start(s)        == [event |-> "start",        service |-> s]
Stop(s)         == [event |-> "stop",         service |-> s]
StopResponse(s) == [event |-> "stopResponse", service |-> s]
\* Messages that carry nothing: started (START_RESPONSE), connected and
\* disconnected (REMOTE_DEVICE_...), imageOff (IMAGE_TCP_SERVICE_DISCONNECTED)
\* and bleOff (BLE_DISABLE).
Note(e)         == [event |-> e, service |-> None]
Message == {Note(e) : e \in {"started", "connected", "disconnected", "imageOff", "bleOff"}}
           \cup [event : {"start", "stop", "stopResponse"}, service : Services]

Fits == Len(queue) < QueueLen
\* doorbell_send_msg does not wait: a message that does not fit is dropped.
Pushed(m) == IF Fits THEN Append(queue, m) ELSE queue
Send(m) == queue' = Pushed(m)

\* doorbell_keepalive_start_mm_status_check, with the votes v.
Counting(t, v) == IF v = {} THEN "running" ELSE t
\* doorbell_keepalive_stop_mm_status_check
NotCounting == "none"

\* doorbell_mm_service_vote: the votes that are left, and the countdown.
VoteRemoved(t, v, bits) == Counting(t, v \ bits)

\* doorbell_keepalive_mm_status_check_timer_handler.  A stop that was not
\* sent, because nothing is stored in flash, flash cannot be read or the
\* queue is full, sets the flag all the same.
Expire ==
    /\ timer = "running" /\ handler = "idle"
    /\ timer' = "expired"
    /\ \/ /\ votes # {} \/ pending
          /\ UNCHANGED <<queue, pending, handler>>
       \/ /\ votes = {} /\ ~pending
          /\ flash = None \/ ~Fits \/ "flash" \in Faults
          /\ pending' = TRUE
          /\ UNCHANGED <<queue, handler>>
       \/ /\ votes = {} /\ ~pending /\ flash # None /\ Fits
          /\ Send(Stop(flash))
          /\ handler' = "sent"
          /\ UNCHANGED pending
    /\ UNCHANGED <<votes, wakeCmd, flash>>

\* The flag is set after the message went out.
FlagStop ==
    /\ handler = "sent"
    /\ handler' = "idle"
    /\ pending' = TRUE
    /\ UNCHANGED <<queue, votes, wakeCmd, timer, flash>>

\* db_set_keepalive_interval starts a countdown anew.
SetInterval ==
    /\ timer # "none" /\ handler = "idle"
    /\ timer' = "running"
    /\ UNCHANGED <<queue, votes, pending, wakeCmd, handler, flash>>

\* doorbell_keepalive_handle_wakeup_reason on a freshly booted AP: the
\* messages it sends, and whether a wake-up command is kept for later.  STOP
\* of the CP's keepalive may fail, and nothing is started then.
BootQueue(reason, stopped) ==
    LET start == IF flash \in Services THEN <<Start(flash)>> ELSE <<>>
    IN CASE reason = "MULTIMEDIA"    -> <<Note("bleOff")>> \o (IF stopped THEN start ELSE <<>>)
         [] reason = "DISCONNECTION" -> start
         [] reason = "FAIL"          -> <<Note("bleOff")>> \o start
         [] OTHER                    -> <<>>

Booted(reason, stopped) ==
    /\ queue' = BootQueue(reason, stopped)
    /\ wakeCmd' = (reason = "MULTIMEDIA" /\ stopped /\ flash \in Services)
    /\ votes' = {}
    /\ pending' = FALSE
    /\ timer' = "none"
    /\ handler' = "idle"
    /\ UNCHANGED flash

KeepaliveInit ==
    /\ queue = <<>> /\ votes = {} /\ pending = FALSE /\ wakeCmd = FALSE
    /\ timer = "none" /\ handler = "idle"
    /\ flash = None

KeepaliveTypeOK ==
    /\ queue \in Seq(Message) /\ Len(queue) <= QueueLen
    /\ votes \subseteq Media
    /\ pending \in BOOLEAN /\ wakeCmd \in BOOLEAN
    /\ timer \in {"none", "running", "expired"}
    /\ handler \in {"idle", "sent"}
    /\ flash \in Services \cup {None}
============================================================================
