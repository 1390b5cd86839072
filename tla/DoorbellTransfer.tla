-------------------------- MODULE DoorbellTransfer --------------------------
(***************************************************************************)
(* The channels of the AP's connection (doorbell_network_transfer.c).  The *)
(* transport itself, the ntwk_trans library, is not in the repository: its *)
(* threads report what happens to a channel, each channel in its order and *)
(* the three at once, and from the reports two masks tell when the service *)
(* is up and when it is down.  No lock guards the masks.                   *)
(***************************************************************************)
EXTENDS DoorbellKeepalive

Channels == {"ctrl", "video", "audio"}

VARIABLES
    link,       \* of each channel: "down", "trying" or "up"
    reports,    \* of each channel: START and STOP events not reported yet
    update,     \* of each channel's thread: the update of chan_connected_mask it
                \* is in, and what it will write
    connected,  \* chan_connected_mask
    stopped,    \* chan_stopped_mask
    transport,  \* ntwk_trans_get_service_name: the service it is set up for
    met         \* history: the channels that connected since the service started

masks == <<connected, stopped>>
transferVars == <<link, reports, update, masks, transport, met>>

NoUpdate == [op |-> "none", mask |-> {}]
Updates == [op : {"none", "set", "clear"}, mask : SUBSET Channels]

AllConnected == Channels \subseteq connected

\* doorbell_bk_network_transfer_init
NetStart(s) ==
    /\ link' = [c \in Channels |-> "trying"]
    /\ reports' = [c \in Channels |-> Append(reports[c], "start")]
    /\ transport' = s
    /\ met' = {}
    /\ UNCHANGED <<update, masks>>

\* doorbell_bk_network_transfer_deinit: the channels end one after another, and
\* then the service has no name.  Without a name the handler drops what is
\* reported, if there is anything to report of channels that are down.
NetStop ==
    /\ reports' = IF transport = None THEN reports
                  ELSE [c \in Channels |-> Append(reports[c], "stop")]
    /\ connected' = {} /\ stopped' = {}
    /\ UNCHANGED <<link, update, transport, met>>

Heard(c) == reports' = [reports EXCEPT ![c] = Tail(@)]

\* Mutant: the masks of the last service are not reset.
ReportStartKeeps(c) ==
    /\ reports[c] # <<>> /\ Head(reports[c]) = "start"
    /\ Heard(c)
    /\ IF c = "video" THEN Send(Note("started")) ELSE UNCHANGED queue
    /\ UNCHANGED <<link, update, masks, transport, met, votes, pending, wakeCmd, timer, handler, flash>>

\* handle_start_event
ReportStart(c) ==
    /\ reports[c] # <<>> /\ Head(reports[c]) = "start"
    /\ Heard(c)
    /\ IF c = "ctrl" THEN connected' = {} /\ stopped' = {} ELSE UNCHANGED masks
    /\ IF c = "video" THEN Send(Note("started")) ELSE UNCHANGED queue
    /\ UNCHANGED <<link, update, transport, met, votes, pending, wakeCmd, timer, handler, flash>>

\* handle_stop_event.  The thread of a channel has ended when its end is
\* reported, and the name goes with the last.
ReportStop(c) ==
    /\ reports[c] # <<>> /\ Head(reports[c]) = "stop"
    /\ update[c] = NoUpdate
    /\ Heard(c)
    /\ link' = [link EXCEPT ![c] = "down"]
    /\ connected' = IF c = "ctrl" THEN {} ELSE connected
    /\ IF Channels \subseteq stopped \cup {c}
       THEN stopped' = {} /\ transport' = None /\ Send(StopResponse(transport))
       ELSE stopped' = stopped \cup {c} /\ UNCHANGED <<transport, queue>>
    /\ UNCHANGED <<update, met, votes, pending, wakeCmd, timer, handler, flash>>

\* handle_connected_event, in the channel's thread: read the mask ...
Connect(c) ==
    /\ link[c] = "trying" /\ update[c] = NoUpdate
    /\ \A d \in Channels : reports[d] # <<"start">>
    /\ link' = [link EXCEPT ![c] = "up"]
    /\ update' = [update EXCEPT ![c] = [op |-> "set", mask |-> connected \cup {c}]]
    /\ met' = met \cup {c}
    /\ UNCHANGED <<reports, masks, transport, keepaliveVars>>

\* ... and write it back, whatever others wrote meanwhile.
SetConnected(c) ==
    /\ update[c].op = "set"
    /\ update' = [update EXCEPT ![c] = NoUpdate]
    /\ connected' = update[c].mask
    /\ IF AllConnected' THEN Send(Note("connected")) ELSE UNCHANGED queue
    /\ UNCHANGED <<link, reports, stopped, transport, met, votes, pending, wakeCmd, timer, handler, flash>>

\* handle_disconnected_event, likewise in two steps.
Lose(c) ==
    /\ link[c] = "up" /\ update[c] = NoUpdate
    /\ link' = [link EXCEPT ![c] = "trying"]
    /\ update' = [update EXCEPT ![c] = [op |-> "clear", mask |-> connected \ {c}]]
    /\ UNCHANGED <<reports, masks, transport, met, keepaliveVars>>

\* What a lost channel means depends on the channel, the service and whether
\* the peer was connected (ENOTCONN).
LossEvent(c, notConnected) ==
    CASE c = "ctrl"        -> "disconnected"
      [] ~notConnected     -> "disconnected"
      [] c = "video" /\ transport = "tcp" -> "imageOff"
      [] OTHER             -> "nothing"

ClearConnected(c) ==
    /\ update[c].op = "clear"
    /\ update' = [update EXCEPT ![c] = NoUpdate]
    /\ connected' = update[c].mask
    /\ \E notConnected \in BOOLEAN :
          LET e == LossEvent(c, notConnected)
          IN IF e = "nothing" THEN UNCHANGED queue ELSE Send(Note(e))
    /\ UNCHANGED <<link, reports, stopped, transport, met, votes, pending, wakeCmd, timer, handler, flash>>

TransferInit ==
    /\ link = [c \in Channels |-> "down"]
    /\ reports = [c \in Channels |-> <<>>]
    /\ update = [c \in Channels |-> NoUpdate]
    /\ connected = {} /\ stopped = {}
    /\ transport = None
    /\ met = {}

TransferTypeOK ==
    /\ link \in [Channels -> {"down", "trying", "up"}]
    /\ reports \in [Channels -> Seq({"start", "stop"})]
    /\ update \in [Channels -> Updates]
    /\ connected \subseteq Channels /\ stopped \subseteq Channels
    /\ transport \in Services \cup {None}
    /\ met \subseteq Channels
============================================================================
