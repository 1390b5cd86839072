----------------------- MODULE DoorbellSystem_proofs -----------------------
(***************************************************************************)
(* The safety of DoorbellSystem, for every value of the constants.  Whole  *)
(* is inductive under any fault; Sent and what builds on it need a queue   *)
(* that holds what is sent to it, flash that can be read and a timer       *)
(* thread that sets its flag before the stop it sent is handled.           *)
(***************************************************************************)
EXTENDS DoorbellSystem, SequenceTheorems, TLAPS

\* In a queue q: a message e, and no f behind an e.
Has(q, e) == \E i \in DOMAIN q : q[i].event = e
NoneBehind(q, e, f) ==
    \A i, j \in DOMAIN q : i < j /\ q[i].event = e => q[j].event # f

-----------------------------------------------------------------------------
(* Whole: channels, commands and media.                                    *)

AllDown == \A c \in Channels : link[c] = "down"
Starting == \E c \in Channels : reports[c] = <<"start">>
Stopping == \E c \in Channels : reports[c] = <<"stop">>

\* Until the first service is set up nothing happens but requests for one.
Unstarted ==
    flash = None =>
        /\ transport = None /\ timer = "none" /\ core = "idle" /\ handler = "idle"
        /\ \A e \in {"connected", "disconnected", "stop", "stopResponse"} :
              ~Has(queue, e)

\* Each channel owes at most one report, all the same, and those that have
\* reported their end are in the mask.
Reports ==
    /\ \A c \in Channels : reports[c] \in {<<>>, <<"start">>, <<"stop">>}
    /\ ~(Starting /\ Stopping)
    /\ stopped = IF Stopping THEN {c \in Channels : reports[c] = <<>>} ELSE {}

\* Without a service nothing is left of its channels; none connects before the
\* start of all is reported, and one that reported its end is done.  A command
\* keeps its channel from being lost and from ending.
Links ==
    /\ transport = None => Reported /\ AllDown /\ \A c \in Channels : update[c] = NoUpdate
    /\ Starting => \A c \in Channels : link[c] = "trying" /\ update[c] = NoUpdate
    /\ Stopping => \A c \in Channels :
          reports[c] = <<>> => link[c] = "down" /\ update[c] = NoUpdate
    /\ service = None => transport = None
    /\ core = "closing" => Stopping \/ transport = None
    /\ cmd # NoCmd => link["ctrl"] = "up"

\* Once the mask was reset for a service, neither the mask nor what threads are
\* about to write there has a channel that did not connect since.
Gate ==
    /\ reports["ctrl"] # <<"start">> =>
          connected \subseteq met /\ \A c \in Channels : update[c].mask \subseteq met
    /\ \A c \in Channels : update[c].op = "clear" => c \notin update[c].mask

\* What a command turns on has its vote, and what it voted for was off.
Voted ==
    /\ RunningIsVoted
    /\ cmd.op = "on" =>
          /\ cmd.medium \in votes
          /\ ~cmd.was => cmd.medium \notin running \ TurnedOffFirst

Whole == TypeOK /\ Unstarted /\ Reports /\ Links /\ Gate /\ Voted

-----------------------------------------------------------------------------
(* Sent: the stop that the countdown sends, and the room for it.           *)

\* The message that the channels have yet to make of their start or end.
Owed == IF Stopping \/ reports["video"] = <<"start">> THEN 1 ELSE 0

\* There is one stop at a time; it takes the last place of the queue if it must.
Room ==
    \/ Len(queue) + Owed + InFlight < QueueLen
    \/ /\ Len(queue) + Owed + InFlight = QueueLen
       /\ Has(queue, "stop") \/ Has(queue, "stopResponse") \/ Stopping

\* The flag is set with the stop, and left behind only by a stop that found no
\* service.
Flagged ==
    /\ Has(queue, "stop") => pending \/ handler = "sent"
    /\ handler = "sent" => Has(queue, "stop")
    /\ NoneBehind(queue, "stop", "stop") /\ NoneBehind(queue, "stopResponse", "stop")
    /\ pending => Has(queue, "stop") \/ Has(queue, "stopResponse") \/ Stopping \/ unanswered
    /\ unanswered => pending

\* The flag was left behind, and no service is on its way down that would take it.
Stranded == unanswered /\ ~Stopping /\ ~Has(queue, "stopResponse")

\* A connected AP without votes counts down, or will.
Counted ==
    AllConnected /\ power = "on" /\ votes = {} /\ cmd = NoCmd
    => timer = "running" \/ Has(queue, "connected") \/ Has(queue, "stop") \/ Stranded

Sent == Room /\ Flagged /\ Counted

\* A service is on its way down.
GoingDown == Stopping \/ core = "closing" \/ Has(queue, "stopResponse")

\* Nothing begins: channels are down, or told to stop.
Ending ==
    /\ ~Has(queue, "start")
    /\ \A c \in Channels : link[c] = "down" \/ reports[c] = <<"stop">>

\* Once the service is stopped for a hand-over no other is started.
Resting == AllDown /\ ~Has(queue, "start")
Released ==
    /\ NoneBehind(queue, "stop", "start")
    /\ pending /\ ~Has(queue, "stop") =>
          /\ NoneBehind(queue, "disconnected", "start")
          /\ GoingDown => Ending
    /\ core = "handover" \/ power = "leaving" => Resting /\ cmd = NoCmd /\ votes = {}

-----------------------------------------------------------------------------
(* What it takes to put a message in a queue or take one from it.          *)

LEMMA PoppedHas ==
    ASSUME NEW S, NEW q \in Seq(S), q # <<>>, NEW e
    PROVE  /\ Tail(q) \in Seq(S) /\ Head(q) \in S /\ Len(Tail(q)) = Len(q) - 1
           /\ Has(q, e) <=> Head(q).event = e \/ Has(Tail(q), e)
<1>1. /\ Len(q) \in Nat /\ Len(q) > 0 /\ Head(q) = q[1]
      /\ Len(Tail(q)) = Len(q) - 1 /\ Tail(q) \in Seq(S) /\ Head(q) \in S
      /\ \A i \in 1 .. Len(q) - 1 : Tail(q)[i] = q[i + 1]
      /\ DOMAIN q = 1 .. Len(q) /\ DOMAIN Tail(q) = 1 .. Len(q) - 1
  OBVIOUS
<1>2. ASSUME Has(q, e), Head(q).event # e PROVE Has(Tail(q), e)
  <2>1. PICK i \in DOMAIN q : q[i].event = e
    BY <1>2 DEF Has
  <2>2. i # 1 /\ i - 1 \in DOMAIN Tail(q) /\ Tail(q)[i - 1] = q[i]
    BY <1>1, <1>2, <2>1
  <2> QED
    BY <2>1, <2>2 DEF Has
<1>3. Has(Tail(q), e) => Has(q, e)
  <2> SUFFICES ASSUME NEW i \in DOMAIN Tail(q), Tail(q)[i].event = e PROVE Has(q, e)
    BY DEF Has
  <2>1. i + 1 \in DOMAIN q /\ q[i + 1].event = e
    BY <1>1
  <2> QED
    BY <2>1 DEF Has
<1>4. Head(q).event = e => Has(q, e)
  <2>1. 1 \in DOMAIN q
    BY <1>1
  <2> QED
    BY <1>1, <2>1 DEF Has
<1> QED
  BY <1>1, <1>2, <1>3, <1>4

LEMMA PoppedOrder ==
    ASSUME NEW S, NEW q \in Seq(S), q # <<>>, NEW e, NEW f, NoneBehind(q, e, f)
    PROVE  /\ NoneBehind(Tail(q), e, f)
           /\ Head(q).event = e => ~Has(Tail(q), f)
<1>1. /\ Len(q) \in Nat /\ Len(q) > 0 /\ Head(q) = q[1]
      /\ \A i \in 1 .. Len(q) - 1 : Tail(q)[i] = q[i + 1]
      /\ DOMAIN q = 1 .. Len(q) /\ DOMAIN Tail(q) = 1 .. Len(q) - 1
  OBVIOUS
<1>2. NoneBehind(Tail(q), e, f)
  <2> SUFFICES ASSUME NEW i \in DOMAIN Tail(q), NEW j \in DOMAIN Tail(q),
                      i < j, Tail(q)[i].event = e
               PROVE  Tail(q)[j].event # f
    BY DEF NoneBehind
  <2>1. i + 1 \in DOMAIN q /\ j + 1 \in DOMAIN q /\ i + 1 < j + 1
    BY <1>1
  <2>2. q[i + 1].event = e
    BY <1>1
  <2>3. q[j + 1].event # f
    BY <2>1, <2>2 DEF NoneBehind
  <2> QED
    BY <1>1, <2>3
<1>3. ASSUME Head(q).event = e, NEW i \in DOMAIN Tail(q) PROVE Tail(q)[i].event # f
  <2>1. 1 \in DOMAIN q /\ i + 1 \in DOMAIN q /\ 1 < i + 1 /\ q[1].event = e
    BY <1>1, <1>3
  <2>2. q[i + 1].event # f
    BY <2>1 DEF NoneBehind
  <2> QED
    BY <1>1, <2>2
<1> QED
  BY <1>2, <1>3 DEF Has

LEMMA PushedHas ==
    ASSUME NEW S, NEW q \in Seq(S), NEW m \in S, NEW e
    PROVE  /\ Append(q, m) \in Seq(S) /\ Len(Append(q, m)) = Len(q) + 1
           /\ Has(Append(q, m), e) <=> Has(q, e) \/ m.event = e
<1>1. /\ Len(q) \in Nat /\ Append(q, m) \in Seq(S) /\ Len(Append(q, m)) = Len(q) + 1
      /\ \A i \in 1 .. Len(q) : Append(q, m)[i] = q[i]
      /\ Append(q, m)[Len(q) + 1] = m
      /\ DOMAIN q = 1 .. Len(q) /\ DOMAIN Append(q, m) = 1 .. Len(q) + 1
  OBVIOUS
<1>2. ASSUME NEW i \in DOMAIN q, q[i].event = e PROVE Has(Append(q, m), e)
  <2>1. i \in DOMAIN Append(q, m) /\ Append(q, m)[i].event = e
    BY <1>1, <1>2
  <2> QED
    BY <2>1 DEF Has
<1>3. m.event = e => Has(Append(q, m), e)
  <2>1. Len(q) + 1 \in DOMAIN Append(q, m)
    BY <1>1
  <2> QED
    BY <1>1, <2>1 DEF Has
<1>4. ASSUME NEW i \in DOMAIN Append(q, m), Append(q, m)[i].event = e
      PROVE  Has(q, e) \/ m.event = e
  <2>1. CASE i = Len(q) + 1
    BY <1>1, <1>4, <2>1
  <2>2. CASE i # Len(q) + 1
    <3>1. i \in DOMAIN q /\ q[i].event = e
      BY <1>1, <1>4, <2>2
    <3> QED
      BY <3>1 DEF Has
  <2> QED
    BY <2>1, <2>2
<1> QED
  BY <1>1, <1>2, <1>3, <1>4 DEF Has

LEMMA PushedOrder ==
    ASSUME NEW S, NEW q \in Seq(S), NEW m \in S, NEW e, NEW f, NoneBehind(q, e, f),
           Has(q, e) => m.event # f
    PROVE  NoneBehind(Append(q, m), e, f)
<1>1. /\ Len(q) \in Nat
      /\ \A i \in 1 .. Len(q) : Append(q, m)[i] = q[i]
      /\ Append(q, m)[Len(q) + 1] = m
      /\ DOMAIN q = 1 .. Len(q) /\ DOMAIN Append(q, m) = 1 .. Len(q) + 1
  OBVIOUS
<1> SUFFICES ASSUME NEW i \in DOMAIN Append(q, m), NEW j \in DOMAIN Append(q, m),
                    i < j, Append(q, m)[i].event = e
             PROVE  Append(q, m)[j].event # f
  BY DEF NoneBehind
<1>2. i \in DOMAIN q /\ q[i].event = e
  BY <1>1
<1>3. CASE j = Len(q) + 1
  BY <1>1, <1>2, <1>3 DEF Has
<1>4. CASE j # Len(q) + 1
  <2>1. j \in DOMAIN q /\ Append(q, m)[j] = q[j]
    BY <1>1, <1>4
  <2> QED
    BY <1>2, <2>1 DEF NoneBehind
<1> QED
  BY <1>3, <1>4

-----------------------------------------------------------------------------
(* The handlers and senders of DoorbellSystem in these terms.              *)

QueueOK == queue \in Seq(Message) /\ Len(queue) <= QueueLen

LEMMA MessageParts ==
    /\ \A s \in Services : Start(s) \in Message /\ Stop(s) \in Message
                            /\ StopResponse(s) \in Message
    /\ \A e \in {"started", "connected", "disconnected", "imageOff", "bleOff"} :
          Note(e) \in Message /\ Note(e).event = e
    /\ \A s : Start(s).event = "start" /\ Stop(s).event = "stop"
              /\ StopResponse(s).event = "stopResponse"
    /\ \A m \in Message : m.event \in {"start", "stop", "stopResponse"}
                           => m.service \in Services
BY DEF Message, Start, Stop, StopResponse, Note

LEMMA Taken ==
    ASSUME QueueOK, NEW e, Take(e)
    PROVE  /\ QueueOK' /\ Len(queue') = Len(queue) - 1
           /\ Head(queue) \in Message /\ Head(queue).event = e
           /\ Reported /\ core = "idle"
           /\ Has(queue, e)
           /\ \A f : Has(queue', f) => Has(queue, f)
           /\ \A f : f # e /\ Has(queue, f) => Has(queue', f)
<1>1. /\ queue # <<>> /\ queue' = Tail(queue) /\ Head(queue).event = e
      /\ Reported /\ core = "idle" /\ queue \in Seq(Message)
  BY DEF Take, QueueOK
<1>2. \A f : Has(queue, f) <=> e = f \/ Has(queue', f)
  BY <1>1, PoppedHas
<1>3. /\ queue' \in Seq(Message) /\ Len(queue') = Len(queue) - 1
      /\ Head(queue) \in Message
  BY <1>1
<1>4. Len(queue') <= QueueLen
  BY <1>1, <1>3, DoorbellAssumption DEF QueueOK
<1> QED
  BY <1>1, <1>2, <1>3, <1>4 DEF QueueOK

LEMMA Sending ==
    ASSUME QueueOK, NEW m \in Message, Send(m)
    PROVE  /\ QueueOK'
           /\ \A f : Has(queue', f) => Has(queue, f) \/ f = m.event
           /\ \A f : Has(queue, f) => Has(queue', f)
           /\ Fits => Has(queue', m.event) /\ Len(queue') = Len(queue) + 1
<1>1. CASE Fits
  <2>1. queue' = Append(queue, m)
    BY <1>1 DEF Send, Pushed
  <2>2. queue' \in Seq(Message) /\ Len(queue') = Len(queue) + 1 /\ Len(queue) \in Nat
    BY <2>1 DEF QueueOK
  <2>3. \A f : Has(queue', f) <=> Has(queue, f) \/ m.event = f
    BY <2>1, PushedHas DEF QueueOK
  <2> QED
    BY <1>1, <2>2, <2>3, DoorbellAssumption DEF QueueOK, Fits
<1>2. CASE ~Fits
  BY <1>2 DEF Send, Pushed, QueueOK
<1> QED
  BY <1>1, <1>2

LEMMA InQueueIs == ASSUME NEW e PROVE InQueue(e) <=> Has(queue, e)
BY DEF InQueue, Has

-----------------------------------------------------------------------------
(* Whole is inductive: what each step leaves, one lemma per conjunct.      *)

\* The types of all but the queue.
Types ==
    /\ votes \subseteq Media /\ pending \in BOOLEAN /\ wakeCmd \in BOOLEAN
    /\ timer \in {"none", "running", "expired"}
    /\ handler \in {"idle", "sent"}
    /\ flash \in Services \cup {None}
    /\ link \in [Channels -> {"down", "trying", "up"}]
    /\ reports \in [Channels -> Seq({"start", "stop"})]
    /\ update \in [Channels -> Updates]
    /\ connected \subseteq Channels /\ stopped \subseteq Channels
    /\ transport \in Services \cup {None}
    /\ met \subseteq Channels
    /\ service \in Services \cup {None}
    /\ core \in {"idle", "closing", "handover"}
    /\ cmd \in Cmds
    /\ running \subseteq Media
    /\ power \in {"on", "leaving"}
    /\ unanswered \in BOOLEAN

LEMMA TypesUnfolded == TypeOK <=> QueueOK /\ Types
BY DEF TypeOK, KeepaliveTypeOK, TransferTypeOK, QueueOK, Types

LEMMA UpdateParts ==
    /\ NoUpdate \in Updates /\ NoUpdate.op = "none" /\ NoUpdate.mask = {}
    /\ \A m \in SUBSET Channels : [op |-> "set", mask |-> m] \in Updates
                                  /\ [op |-> "clear", mask |-> m] \in Updates
    /\ \A u \in Updates : u.mask \subseteq Channels
    /\ \A m : [op |-> "set", mask |-> m] # NoUpdate /\ [op |-> "clear", mask |-> m] # NoUpdate
BY DEF NoUpdate, Updates

LEMMA CmdParts ==
    /\ NoCmd \in Cmds /\ NoCmd.op = "none"
    /\ cmd \in Cmds /\ cmd.op \in {"turnOn", "on", "off"} => cmd.medium \in Media
    /\ cmd \in Cmds /\ cmd.op = "on" => cmd.was \in BOOLEAN
    /\ cmd \in Cmds /\ cmd.op = "none" => cmd = NoCmd
    /\ \A m \in Media, b \in BOOLEAN : [op |-> "on", medium |-> m, was |-> b] \in Cmds
    /\ [op : {"turnOn", "off"}, medium : Media] \cup {[op |-> "query"]} \subseteq Cmds
    /\ \A c \in [op : {"turnOn", "off"}, medium : Media] \cup {[op |-> "query"]} :
          c.op # "on"
<1>1. \A c \in Cmds : \/ c = NoCmd \/ c = [op |-> "query"]
                      \/ c \in [op : {"turnOn", "off"}, medium : Media]
                      \/ c \in [op : {"on"}, medium : Media, was : BOOLEAN]
  BY DEF Cmds
<1> QED
  BY <1>1 DEF Cmds, NoCmd

LEMMA WholeInit == Init => Whole
<1> SUFFICES ASSUME Init PROVE Whole
  OBVIOUS
<1> USE DEF Init, KeepaliveInit, TransferInit
<1>1. TypeOK
  <2>1. QueueOK
    BY DoorbellAssumption DEF QueueOK
  <2>2. /\ reports \in [Channels -> Seq({"start", "stop"})]
        /\ update \in [Channels -> Updates]
    BY UpdateParts
  <2>3. Types
    BY <2>2, CmdParts DEF Types
  <2> QED
    BY <2>1, <2>3, TypesUnfolded
<1>2. Reported /\ ~Stopping /\ ~Starting /\ AllDown
  BY DEF Reported, Stopping, Starting, AllDown
<1>3. Unstarted
  BY <1>2 DEF Unstarted, Has
<1>4. Reports
  BY <1>2 DEF Reports
<1>5. Links
  BY <1>2 DEF Links, AllDown
<1>6. Gate
  BY UpdateParts DEF Gate
<1>7. Voted
  BY DEF Voted, RunningIsVoted, NoCmd
<1> QED
  BY <1>1, <1>3, <1>4, <1>5, <1>6, <1>7 DEF Whole

LEMMA CoreTypes ==
    ASSUME TypeOK, CoreStep
    PROVE  Types'
<1> USE TypesUnfolded DEF Types
<1>1. CASE HandleStart
  <2>1. Take("start")
    BY <1>1 DEF HandleStart
  <2>2. Head(queue).service \in Services
    BY <2>1, Taken, MessageParts
  <2>3. \A s \in Services :
           NetStart(s) => /\ link' \in [Channels -> {"down", "trying", "up"}]
                          /\ reports' \in [Channels -> Seq({"start", "stop"})]
                          /\ UNCHANGED <<update, connected, stopped>>
                          /\ transport' = s /\ met' = {}
    BY DEF NetStart, masks
  <2> QED
    BY <1>1, <2>2, <2>3 DEF HandleStart, transferVars, masks
<1>2. CASE HandleNote \/ HandleConnected
  BY <1>2 DEF HandleNote, HandleConnected, transferVars, masks, coreVars, Counting, NotCounting
<1>n. NetStop => /\ reports' \in [Channels -> Seq({"start", "stop"})]
                 /\ connected' = {} /\ stopped' = {}
                 /\ UNCHANGED <<link, update, transport, met>>
  BY DEF NetStop
<1>3. CASE HandleDisconnected
  BY <1>3, <1>n DEF HandleDisconnected, transferVars, masks
<1>4. CASE Closed
  BY <1>4 DEF Closed, transferVars, masks, VoteRemoved, Counting
<1>5. CASE HandleStop
  <2>1. unanswered' \in BOOLEAN
    BY <1>5 DEF HandleStop
  <2>2. pending' \in BOOLEAN
    BY <1>5 DEF HandleStop
  <2> QED
    BY <1>5, <1>n, <2>1, <2>2 DEF HandleStop, transferVars, masks
<1>6. CASE HandleStopResponse
  BY <1>6 DEF HandleStopResponse, transferVars, masks
<1>7. CASE SendKeepalive
  BY <1>7 DEF SendKeepalive, transferVars, masks, NotCounting
<1> QED
  BY <1>1, <1>2, <1>3, <1>4, <1>5, <1>6, <1>7 DEF CoreStep

LEMMA CmdTypes ==
    ASSUME TypeOK, Receive \/ CmdStep
    PROVE  Types'
<1> USE TypesUnfolded, CmdParts DEF Types, transferVars, masks
<1>1. CASE Receive
  BY <1>1 DEF Receive, NotCounting
<1>2. CASE Vote
  <2>1. (cmd.medium \in votes) \in BOOLEAN
    OBVIOUS
  <2>2. cmd' \in Cmds /\ votes' \subseteq Media
    BY <1>2, <2>1 DEF Vote
  <2> QED
    BY <1>2, <2>2 DEF Vote, NotCounting
<1>3. ASSUME NEW v \in SUBSET Media, running' \subseteq Media, Done(v) PROVE Types'
  BY <1>3 DEF Done, Counting
<1>4. CASE TurnedOn
  <2>1. PICK v \in SUBSET Media : running' \subseteq Media /\ Done(v)
    BY <1>4 DEF TurnedOn
  <2> QED
    BY <1>3, <2>1
<1>5. CASE TurnedOff
  <2>1. PICK v \in SUBSET Media : running' \subseteq Media /\ Done(v)
    BY <1>5 DEF TurnedOff
  <2> QED
    BY <1>3, <2>1
<1>6. CASE Queried
  BY <1>3, <1>6 DEF Queried
<1> QED
  BY <1>1, <1>2, <1>4, <1>5, <1>6 DEF CmdStep

\* What the threads of the channels leave alone.
LEMMA ChannelLeaves ==
    ASSUME NEW c \in Channels, Report(c) \/ Network(c) \/ Update(c)
    PROVE  /\ UNCHANGED <<votes, pending, wakeCmd, timer, handler, flash>>
           /\ UNCHANGED <<service, core, cmd, running, power, unanswered>>
           /\ transport' \in {transport, None}
           /\ Network(c) => UNCHANGED <<queue, reports, connected, stopped, transport>>
           /\ Update(c) => UNCHANGED <<link, reports, stopped, transport, met>>
BY DEF Report, ReportStart, ReportStop, Network, Connect, Lose, Update, SetConnected,
       ClearConnected, coreVars, keepaliveVars, masks

LEMMA OtherTypes ==
    ASSUME TypeOK, \/ \E c \in Channels : Report(c) \/ Network(c) \/ Update(c)
                   \/ TimerStep \/ Console \/ Boarding \/ Reboot \/ UNCHANGED vars
    PROVE  Types'
<1> USE TypesUnfolded DEF Types, masks
<1>1. ASSUME NEW c \in Channels, Report(c) PROVE Types'
  <2>1. /\ reports[c] # <<>> /\ Heard(c)
        /\ connected' \subseteq Channels /\ stopped' \subseteq Channels
        /\ UNCHANGED <<update, met>>
    BY <1>1 DEF Report, ReportStart, ReportStop
  <2>2. reports' \in [Channels -> Seq({"start", "stop"})]
    BY <2>1 DEF Heard
  <2>3. link' \in [Channels -> {"down", "trying", "up"}]
    BY <1>1 DEF Report, ReportStart, ReportStop
  <2> QED
    BY <1>1, <2>1, <2>2, <2>3, ChannelLeaves
<1>2. ASSUME NEW c \in Channels, Network(c) PROVE Types'
  <2>1. /\ link' \in [Channels -> {"down", "trying", "up"}]
        /\ met' \subseteq Channels
    BY <1>2 DEF Network, Connect, Lose
  <2>2. update' \in [Channels -> Updates]
    <3>1. connected \cup {c} \in SUBSET Channels /\ connected \ {c} \in SUBSET Channels
      OBVIOUS
    <3>2. \E u \in Updates : update' = [update EXCEPT ![c] = u]
      BY <1>2, <3>1, UpdateParts DEF Network, Connect, Lose
    <3> QED
      BY <3>2
  <2> QED
    BY <1>2, <2>1, <2>2, ChannelLeaves
<1>3. ASSUME NEW c \in Channels, Update(c) PROVE Types'
  <2>1. update' \in [Channels -> Updates] /\ connected' \subseteq Channels
    BY <1>3, UpdateParts DEF Update, SetConnected, ClearConnected
  <2> QED
    BY <1>3, <2>1, ChannelLeaves
<1>4. CASE TimerStep
  BY <1>4 DEF TimerStep, Expire, FlagStop, transferVars, coreVars
<1>5. CASE Console \/ Boarding
  BY <1>5 DEF Console, SetInterval, Boarding, transferVars, coreVars
<1>6. CASE Reboot
  <2>1. wakeCmd' \in BOOLEAN
    BY <1>6, Zenon DEF Reboot, Booted
  <2>2. \E reason, done : Booted(reason, done)
    BY <1>6 DEF Reboot
  <2>3. /\ votes' = {} /\ pending' = FALSE /\ timer' = "none" /\ handler' = "idle"
        /\ flash' = flash
    BY <2>2 DEF Booted
  <2>4. /\ link' \in [Channels -> {"down", "trying", "up"}]
        /\ reports' \in [Channels -> Seq({"start", "stop"})]
        /\ update' \in [Channels -> Updates]
    BY <1>6, UpdateParts DEF Reboot
  <2> QED
    BY <1>6, <2>1, <2>3, <2>4, CmdParts DEF Reboot
<1>7. CASE UNCHANGED vars
  BY <1>7 DEF vars, keepaliveVars, transferVars, coreVars
<1> QED
  BY <1>1, <1>2, <1>3, <1>4, <1>5, <1>6, <1>7

\* The other threads only send.  Only the user asks for a service, and only the
\* timer thread for its end.
SentBy(m) ==
    /\ Send(m)
    /\ m.event = "start" => Boarding
    /\ m.event = "stop" => TimerStep

LEMMA OthersSend ==
    ASSUME Whole, \/ \E c \in Channels : Report(c) \/ Network(c) \/ Update(c)
                  \/ TimerStep \/ Console \/ Boarding
    PROVE  queue' = queue \/ \E m \in Message : SentBy(m)
<1> USE DEF Whole
<1>1. ASSUME NEW c \in Channels, Report(c)
      PROVE  queue' = queue \/ \E m \in Message : SentBy(m)
  <2>1. transport # None
    BY <1>1 DEF Report, ReportStart, ReportStop, Links, Reported
  <2>2. StopResponse(transport) \in Message
    BY <2>1, MessageParts, TypesUnfolded DEF Types
  <2> QED
    BY <1>1, <2>2, MessageParts DEF Report, ReportStart, ReportStop, SentBy
<1>2. ASSUME NEW c \in Channels, Network(c) \/ Update(c)
      PROVE  queue' = queue \/ \E m \in Message : SentBy(m)
  <2>1. CASE Network(c)
    BY <2>1, ChannelLeaves
  <2>2. CASE Update(c)
    BY <2>2, MessageParts DEF Update, SetConnected, ClearConnected, LossEvent, SentBy
  <2> QED
    BY <1>2, <2>1, <2>2
<1>3. CASE TimerStep
  BY <1>3, MessageParts, TypesUnfolded DEF TimerStep, Expire, FlagStop, Types, SentBy
<1>4. CASE Console \/ Boarding
  BY <1>4, MessageParts DEF Console, SetInterval, Boarding, SentBy
<1> QED
  BY <1>1, <1>2, <1>3, <1>4

\* What becomes of the queue in a step: a message is taken or sent, or the AP
\* boots with its first messages.
LEMMA QueueMoves ==
    ASSUME Whole, [Next]_vars
    PROVE  \/ queue' = queue
           \/ \E e : Take(e)
           \/ \E m \in Message : SentBy(m)
           \/ Reboot
<1>1. ASSUME HandleStart \/ HandleNote \/ HandleConnected \/ HandleDisconnected
             \/ HandleStop \/ HandleStopResponse
      PROVE  \E e : Take(e)
  BY <1>1 DEF HandleStart, HandleNote, HandleConnected, HandleDisconnected, HandleStop,
              HandleStopResponse
<1>2. ASSUME Closed \/ SendKeepalive \/ Receive \/ CmdStep PROVE queue' = queue
  BY <1>2 DEF Closed, SendKeepalive, Receive, CmdStep, Vote, TurnedOn, TurnedOff, Queried,
              Done
<1>3. ASSUME UNCHANGED vars PROVE queue' = queue
  BY <1>3 DEF vars, keepaliveVars
<1> QED
  BY <1>1, <1>2, <1>3, OthersSend, Zenon DEF Next, CoreStep

\* The messages of a booted AP.
LEMMA BootMessages ==
    ASSUME TypeOK, Reboot
    PROVE  /\ QueueOK' /\ Len(queue') <= 2
           /\ \A e : Has(queue', e) => e \in {"start", "bleOff"}
           /\ \A i \in DOMAIN queue' : queue'[i].event \in {"start", "bleOff"}
<1>1. PICK reason, done : queue' = BootQueue(reason, done)
  BY DEF Reboot, Booted
<1> DEFINE b == Note("bleOff") s == Start(flash)
           start == IF flash \in Services THEN <<s>> ELSE <<>>
<1> DEFINE Few(q) == /\ q \in Seq(Message) /\ Len(q) <= 2
                     /\ \A i \in DOMAIN q : q[i].event \in {"start", "bleOff"}
<1>2. queue' \in {<<b>> \o start, <<b>> \o <<>>, start, <<>>}
  BY <1>1 DEF BootQueue
<1>3. b \in Message /\ b.event = "bleOff" /\ s.event = "start"
      /\ (flash \in Services => s \in Message)
  BY MessageParts
<1>s. start = <<>> \/ (s \in Message /\ start = <<s>>)
  BY <1>3
<1> HIDE DEF b, s, start
<1>4. ASSUME NEW q \in {start, <<>>}
      PROVE  /\ q \in Seq(Message) /\ Len(q) \in {0, 1}
             /\ \A i \in DOMAIN q : q[i].event = "start"
  <2>1. CASE q = <<>>
    BY <2>1
  <2>2. CASE q # <<>>
    <3>1. q = <<s>> /\ s \in Message
      BY <1>s, <2>2
    <3> QED
      BY <1>3, <3>1
  <2> QED
    BY <2>1, <2>2
<1>5. ASSUME NEW q \in {start, <<>>} PROVE Few(q) /\ Few(<<b>> \o q)
  <2>1. /\ q \in Seq(Message) /\ Len(q) \in {0, 1}
        /\ \A i \in DOMAIN q : q[i].event = "start"
    BY <1>4
  <2>2. <<b>> \in Seq(Message) /\ Len(<<b>>) = 1 /\ <<b>>[1] = b
    BY <1>3
  <2>3. /\ <<b>> \o q \in Seq(Message) /\ Len(<<b>> \o q) = 1 + Len(q)
        /\ \A i \in 1 .. 1 + Len(q) :
              (<<b>> \o q)[i] = IF i <= 1 THEN <<b>>[i] ELSE q[i - 1]
    BY <2>1, <2>2, ConcatProperties
  <2> HIDE DEF b
  <2>4. ASSUME NEW i \in 1 .. 1 + Len(q)
        PROVE  (<<b>> \o q)[i].event \in {"start", "bleOff"}
    <3>1. CASE i = 1
      BY <1>3, <2>2, <2>3, <3>1
    <3>2. CASE i # 1
      <4>1. i - 1 \in DOMAIN q /\ (<<b>> \o q)[i] = q[i - 1]
        BY <2>1, <2>3, <3>2
      <4> QED
        BY <2>1, <4>1
    <3> QED
      BY <3>1, <3>2
  <2>5. DOMAIN (<<b>> \o q) = 1 .. 1 + Len(q)
    BY <2>1, <2>3
  <2> QED
    BY <2>1, <2>3, <2>4, <2>5
<1>6. Few(queue')
  BY <1>2, <1>5
<1> QED
  BY <1>6, DoorbellAssumption DEF QueueOK, Has

LEMMA TypeStep ==
    ASSUME Whole, [Next]_vars
    PROVE  TypeOK'
<1>1. QueueOK /\ TypeOK
  BY TypesUnfolded DEF Whole
<1>2. QueueOK'
  <2>1. CASE queue' = queue
    BY <1>1, <2>1 DEF QueueOK
  <2> QED
    BY <1>1, <2>1, QueueMoves, Taken, Sending, BootMessages DEF SentBy
<1>3. Types'
  BY <1>1, CoreTypes, CmdTypes, OtherTypes DEF Next
<1>4. TypeOK' <=> QueueOK' /\ Types'
  BY DEF TypeOK, KeepaliveTypeOK, TransferTypeOK, QueueOK, Types
<1> QED
  BY <1>2, <1>3, <1>4

\* What becomes of the channels in a step.
LEMMA TransferMoves ==
    ASSUME [Next]_vars
    PROVE  \/ UNCHANGED transferVars
           \/ HandleStart /\ NetStart(service') /\ service = None /\ service' = flash'
                          /\ service' = Head(queue).service
           \/ (HandleDisconnected \/ HandleStop) /\ NetStop
           \/ \E c \in Channels : Report(c) \/ Network(c) \/ Update(c)
           \/ Reboot
<1>1. CASE CoreStep
  BY <1>1 DEF CoreStep, HandleStart, HandleNote, HandleConnected, HandleDisconnected,
              Closed, HandleStop, HandleStopResponse, SendKeepalive
<1>2. CASE Receive \/ CmdStep
  BY <1>2 DEF Receive, CmdStep, Vote, TurnedOn, TurnedOff, Queried, Done
<1>3. CASE TimerStep \/ Console \/ Boarding \/ UNCHANGED vars
  BY <1>3 DEF TimerStep, Console, Boarding, vars
<1> QED
  BY <1>1, <1>2, <1>3 DEF Next

LEMMA StartedAll ==
    ASSUME Reports, Reported, NEW s, NetStart(s)
    PROVE  /\ \A c \in Channels : link'[c] = "trying" /\ reports'[c] = <<"start">>
           /\ ~Stopping /\ ~Stopping' /\ Starting' /\ stopped' = {}
           /\ UNCHANGED <<update, connected>> /\ transport' = s
<1>1. \A c \in Channels : reports[c] = <<>>
  BY DEF Reported
<1>2. /\ Append(<<>>, "start") = <<"start">> /\ <<"start">> # <<"stop">> /\ <<>> # <<"stop">>
      /\ "ctrl" \in Channels
  BY DEF Channels
<1> QED
  BY <1>1, <1>2 DEF NetStart, Reports, Starting, Stopping, masks

\* A stop finds the channels of a service, or no service.
LEMMA StoppedAll ==
    ASSUME Reported, NetStop
    PROVE  /\ stopped' = {} /\ connected' = {} /\ ~Starting'
           /\ UNCHANGED <<link, update, transport, met>>
           /\ \/ /\ transport # None /\ Stopping'
                 /\ \A c \in Channels : reports'[c] = <<"stop">>
              \/ transport = None /\ UNCHANGED reports /\ ~Stopping'
<1>1. \A c \in Channels : reports[c] = <<>>
  BY DEF Reported
<1>2. /\ Append(<<>>, "stop") = <<"stop">> /\ "ctrl" \in Channels
      /\ <<"stop">> # <<"start">> /\ <<>> # <<"start">> /\ <<>> # <<"stop">>
  BY DEF Channels
<1>3. CASE transport = None
  BY <1>1, <1>2, <1>3 DEF NetStop, Starting, Stopping
<1>4. CASE transport # None
  BY <1>1, <1>2, <1>4 DEF NetStop, Starting, Stopping
<1> QED
  BY <1>3, <1>4

\* A channel that reports owes nothing more.
LEMMA HeardOne ==
    ASSUME TypeOK, Reports, NEW c \in Channels, reports[c] # <<>>, Heard(c)
    PROVE  /\ reports'[c] = <<>>
           /\ \A d \in Channels : d # c => reports'[d] = reports[d]
           /\ Head(reports[c]) = "start" => reports[c] = <<"start">> /\ Starting /\ ~Stopping
           /\ Head(reports[c]) = "stop" => reports[c] = <<"stop">> /\ Stopping /\ ~Starting
<1>1. reports[c] \in {<<"start">>, <<"stop">>}
  BY DEF Reports
<1>2. /\ Tail(<<"start">>) = <<>> /\ Tail(<<"stop">>) = <<>>
      /\ Head(<<"start">>) = "start" /\ Head(<<"stop">>) = "stop"
  OBVIOUS
<1>3. /\ reports' = [reports EXCEPT ![c] = Tail(reports[c])]
      /\ reports \in [Channels -> Seq({"start", "stop"})]
  BY TypesUnfolded DEF Heard, Types
<1> QED
  BY <1>1, <1>2, <1>3 DEF Reports, Starting, Stopping

\* The start of a channel is reported.
LEMMA StartHeard ==
    ASSUME TypeOK, Reports, NEW c \in Channels, ReportStart(c)
    PROVE  /\ reports[c] = <<"start">> /\ reports'[c] = <<>>
           /\ \A d \in Channels : d # c => reports'[d] = reports[d]
           /\ Starting /\ ~Stopping /\ ~Stopping' /\ stopped' = {}
           /\ UNCHANGED <<link, update, transport, met>>
           /\ connected' = IF c = "ctrl" THEN {} ELSE connected
<1>1. /\ reports'[c] = <<>> /\ reports[c] = <<"start">> /\ Starting /\ ~Stopping
      /\ \A d \in Channels : d # c => reports'[d] = reports[d]
  BY HeardOne DEF ReportStart
<1>2. <<>> # <<"stop">>
  OBVIOUS
<1>3. ~Stopping'
  BY <1>1, <1>2 DEF Stopping
<1>4. stopped' = {} /\ connected' = IF c = "ctrl" THEN {} ELSE connected
  BY <1>1 DEF ReportStart, Reports, masks
<1> QED
  BY <1>1, <1>3, <1>4 DEF ReportStart

\* The end of a channel is reported; with the last the service is gone.
LEMMA StopHeard ==
    ASSUME TypeOK, Reports, NEW c \in Channels, ReportStop(c)
    PROVE  /\ reports[c] = <<"stop">> /\ reports'[c] = <<>>
           /\ \A d \in Channels : d # c => reports'[d] = reports[d]
           /\ Stopping /\ ~Starting /\ ~Reported
           /\ update[c] = NoUpdate /\ link'[c] = "down"
           /\ \A d \in Channels : d # c => link'[d] = link[d]
           /\ UNCHANGED <<update, met>> /\ connected' = IF c = "ctrl" THEN {} ELSE connected
           /\ \/ /\ Stopping' /\ UNCHANGED <<queue, transport>>
                 /\ stopped' = {d \in Channels : reports'[d] = <<>>}
              \/ /\ \A d \in Channels : reports'[d] = <<>>
                 /\ ~Stopping' /\ stopped' = {} /\ transport' = None
                 /\ Send(StopResponse(transport))
<1>1. /\ reports'[c] = <<>> /\ Stopping /\ ~Starting /\ reports[c] = <<"stop">>
      /\ \A d \in Channels : d # c => reports'[d] = reports[d]
  BY HeardOne DEF ReportStop
<1>2. stopped = {d \in Channels : reports[d] = <<>>}
  BY <1>1 DEF Reports
<1>3. stopped \cup {c} = {d \in Channels : reports'[d] = <<>>}
  BY <1>1, <1>2
<1>4. \A d \in Channels : reports'[d] \in {<<>>, <<"stop">>}
  BY <1>1 DEF Reports, Starting, Stopping
<1>5. /\ link' = [link EXCEPT ![c] = "down"] /\ link \in [Channels -> {"down", "trying", "up"}]
      /\ UNCHANGED <<update, met>> /\ update[c] = NoUpdate
      /\ connected' = IF c = "ctrl" THEN {} ELSE connected
  BY TypesUnfolded DEF ReportStop, Types
<1>6. ~Reported
  BY <1>1 DEF Reported
<1>e. <<>> # <<"stop">>
  OBVIOUS
<1>7. CASE Channels \subseteq stopped \cup {c}
  <2>1. \A d \in Channels : reports'[d] = <<>>
    BY <1>3, <1>7
  <2>2. ~Stopping'
    BY <1>e, <2>1 DEF Stopping
  <2> QED
    BY <1>1, <1>5, <1>6, <1>7, <2>1, <2>2 DEF ReportStop
<1>8. CASE ~(Channels \subseteq stopped \cup {c})
  <2>1. Stopping'
    BY <1>3, <1>4, <1>8 DEF Stopping
  <2> QED
    BY <1>1, <1>3, <1>5, <1>6, <1>8, <2>1 DEF ReportStop
<1> QED
  BY <1>7, <1>8

LEMMA ReportsStep ==
    ASSUME Whole, [Next]_vars
    PROVE  Reports'
<1> USE DEF Whole
<1>e. <<"start">> # <<"stop">> /\ <<>> # <<"stop">> /\ <<>> # <<"start">>
  OBVIOUS
<1>1. CASE UNCHANGED <<reports, stopped>>
  BY <1>1 DEF Reports, Starting, Stopping
<1>2. CASE HandleStart /\ NetStart(service')
  <2>1. Reported
    BY <1>2 DEF HandleStart, Take
  <2> QED
    BY <1>2, <1>e, <2>1, StartedAll DEF Reports
<1>3. CASE (HandleDisconnected \/ HandleStop) /\ NetStop
  <2>1. Reported
    BY <1>3 DEF HandleDisconnected, HandleStop, Take
  <2> QED
    BY <1>3, <1>e, <2>1, StoppedAll DEF Reports
<1>4. ASSUME NEW c \in Channels, Report(c) PROVE Reports'
  <2>1. CASE ReportStart(c)
    BY <2>1, StartHeard DEF Reports
  <2>2. CASE ReportStop(c)
    <3>1. \A d \in Channels : reports'[d] \in {<<>>, <<"stop">>}
      BY <2>2, StopHeard DEF Reports, Starting
    <3>2. ~Starting'
      BY <1>e, <3>1 DEF Starting
    <3> QED
      BY <2>2, <3>1, <3>2, StopHeard DEF Reports
  <2> QED
    BY <1>4, <2>1, <2>2 DEF Report
<1>5. ASSUME NEW c \in Channels, Network(c) \/ Update(c) PROVE UNCHANGED <<reports, stopped>>
  BY <1>5, ChannelLeaves
<1>6. CASE Reboot
  BY <1>6, <1>e DEF Reboot, Reports, Starting, Stopping
<1> QED
  BY <1>1, <1>2, <1>3, <1>4, <1>5, <1>6, TransferMoves DEF transferVars, masks

LEMMA UnstartedStep ==
    ASSUME Whole, [Next]_vars
    PROVE  Unstarted'
<1> USE DEF Whole
<1>1. TypeOK /\ QueueOK /\ Types /\ Types'
  BY TypesUnfolded, CoreTypes, CmdTypes, OtherTypes DEF Next
<1> DEFINE Early == {"connected", "disconnected", "stop", "stopResponse"}
<1>2. CASE Reboot
  <2>1. \A e \in Early : ~Has(queue', e)
    BY <1>1, <1>2, BootMessages
  <2>2. timer' = "none" /\ handler' = "idle"
    BY <1>2 DEF Reboot, Booted
  <2> QED
    BY <1>2, <2>1, <2>2 DEF Reboot, Unstarted
<1>3. CASE HandleStart
  <2>1. flash' # None \/ UNCHANGED <<service, flash, transferVars>>
    <3>1. Head(queue).service \in Services
      BY <1>1, <1>3, Taken, MessageParts DEF HandleStart
    <3> QED
      BY <1>3, <3>1, DoorbellAssumption DEF HandleStart
  <2>2. ASSUME NEW e \in Early, ~Has(queue, e) PROVE ~Has(queue', e)
    BY <1>1, <1>3, <2>2, Taken DEF HandleStart
  <2> QED
    BY <1>3, <2>1, <2>2 DEF Unstarted, HandleStart, transferVars
<1>4. ASSUME ~HandleStart PROVE flash' = flash
  <2>1. ASSUME NEW c \in Channels, Report(c) \/ Network(c) \/ Update(c)
        PROVE  flash' = flash
    BY <2>1, ChannelLeaves
  <2>2. CASE CoreStep
    BY <1>4, <2>2 DEF CoreStep, HandleNote, HandleConnected, HandleDisconnected, Closed,
                HandleStop, HandleStopResponse, SendKeepalive
  <2>3. CASE Receive \/ CmdStep
    BY <2>3 DEF Receive, CmdStep, Vote, TurnedOn, TurnedOff, Queried, Done
  <2>4. CASE TimerStep \/ Console \/ Boarding \/ UNCHANGED vars
    BY <2>4 DEF TimerStep, Expire, FlagStop, Console, SetInterval, Boarding, vars,
                keepaliveVars
  <2>5. CASE Reboot
    BY <2>5 DEF Reboot, Booted
  <2> QED
    BY <2>1, <2>2, <2>3, <2>4, <2>5 DEF Next
<1>5. ASSUME flash = None, ~HandleStart, ~Reboot PROVE Unstarted'
  <2>1. /\ AllDown /\ Reported /\ timer = "none" /\ core = "idle" /\ transport = None
        /\ cmd = NoCmd /\ handler = "idle" /\ \A e \in Early : ~Has(queue, e)
        /\ \A c \in Channels : update[c] = NoUpdate
    BY <1>5 DEF Unstarted, Links, AllDown, Channels
  <2>2. ASSUME NEW e, Take(e) PROVE e \notin Early /\ \A f \in Early : ~Has(queue', f)
    BY <1>1, <2>1, <2>2, Taken
  <2>3. CASE HandleNote
    BY <2>1, <2>2, <2>3 DEF HandleNote, transferVars, coreVars, Unstarted
  <2>4. ~(HandleConnected \/ HandleDisconnected \/ HandleStop \/ HandleStopResponse)
    BY <2>2 DEF HandleConnected, HandleDisconnected, HandleStop, HandleStopResponse
  <2>5. ~(Closed \/ SendKeepalive \/ Receive \/ CmdStep)
    BY <2>1, CmdParts DEF Closed, SendKeepalive, Receive, CmdStep, Vote, TurnedOn,
                          TurnedOff, Queried, AllDown, Channels
  <2>6. ASSUME NEW c \in Channels PROVE ~(Report(c) \/ Network(c) \/ Update(c))
    BY <2>1, UpdateParts DEF Report, ReportStart, ReportStop, Network, Connect, Lose, Update,
                SetConnected, ClearConnected, AllDown, Reported
  <2>7. ~(TimerStep \/ Console)
    BY <2>1 DEF TimerStep, Expire, FlagStop, Console, SetInterval
  <2>8. CASE Boarding
    <3>1. \A e \in Early : ~Has(queue', e)
      BY <1>1, <2>1, <2>8, Sending, MessageParts DEF Boarding
    <3> QED
      BY <2>1, <2>8, <3>1 DEF Boarding, transferVars, coreVars, Unstarted
  <2>9. CASE UNCHANGED vars
    BY <2>1, <2>9 DEF vars, keepaliveVars, transferVars, coreVars, Unstarted
  <2> QED
    BY <1>5, <2>3, <2>4, <2>5, <2>6, <2>7, <2>8, <2>9 DEF Next, CoreStep
<1>6. ASSUME flash # None, ~HandleStart, ~Reboot PROVE Unstarted'
  BY <1>4, <1>6 DEF Unstarted
<1> QED
  BY <1>2, <1>3, <1>5, <1>6

\* Who takes and gives back the service, who closes it, who brings a command.
LEMMA ControlMoves ==
    ASSUME TypeOK, [Next]_vars, ~HandleDisconnected, ~Closed, ~Receive, ~Reboot
    PROVE  /\ service' = None => service = None
           /\ core' = "closing" => core = "closing"
           /\ cmd' # NoCmd => cmd # NoCmd
<1>1. HandleStart => service' # None \/ service' = service
  <2>1. HandleStart => Head(queue).service \in Services
    BY TypesUnfolded, Taken, MessageParts DEF HandleStart
  <2> QED
    BY <2>1, DoorbellAssumption DEF HandleStart
<1>2. CASE CoreStep
  BY <1>1, <1>2 DEF CoreStep, HandleStart, HandleNote, HandleConnected, HandleStop,
                    HandleStopResponse, SendKeepalive, coreVars
<1>3. CASE CmdStep
  BY <1>3, CmdParts DEF CmdStep, Vote, TurnedOn, TurnedOff, Queried, Done
<1>4. CASE \E c \in Channels : Report(c) \/ Network(c) \/ Update(c)
  BY <1>4, ChannelLeaves
<1>5. CASE TimerStep \/ Console \/ Boarding \/ UNCHANGED vars
  BY <1>5 DEF TimerStep, Console, Boarding, vars, coreVars
<1> QED
  BY <1>2, <1>3, <1>4, <1>5 DEF Next

\* Without a service no command is executed.
LEMMA Unserved ==
    ASSUME Links, transport = None
    PROVE  AllDown /\ Reported /\ cmd = NoCmd /\ \A c \in Channels : update[c] = NoUpdate
BY DEF Links, AllDown, Channels

LEMMA LinksStep ==
    ASSUME Whole, [Next]_vars
    PROVE  Links'
<1> USE DEF Whole
<1>1. TypeOK /\ QueueOK /\ Types /\ "ctrl" \in Channels
  BY TypesUnfolded DEF Channels
<1>e. <<"start">> # <<>> /\ <<"stop">> # <<>>
  OBVIOUS
<1>2. CASE HandleStart /\ NetStart(service') /\ service = None
  <2>1. Reported /\ core' = "idle" /\ cmd' = cmd
    BY <1>2 DEF HandleStart, Take
  <2>2. transport = None
    BY <1>2 DEF Links
  <2>3. service' # None
    BY <1>1, <1>2, Taken, MessageParts, DoorbellAssumption DEF HandleStart
  <2> QED
    BY <1>2, <2>1, <2>2, <2>3, StartedAll, Unserved DEF Links
<1>3. CASE (HandleDisconnected \/ HandleStop) /\ NetStop
  <2>1. Reported /\ UNCHANGED <<cmd, service>>
    BY <1>3 DEF HandleDisconnected, HandleStop, Take
  <2>2. /\ ~Starting' /\ UNCHANGED <<link, update, transport>>
        /\ \/ /\ transport # None /\ Stopping'
              /\ \A c \in Channels : reports'[c] = <<"stop">>
           \/ transport = None /\ UNCHANGED reports /\ ~Stopping'
    BY <1>3, <2>1, StoppedAll
  <2> QED
    BY <1>e, <2>1, <2>2 DEF Links, AllDown, Reported
<1>4. ASSUME NEW c \in Channels, Report(c) PROVE Links'
  <2>1. UNCHANGED <<service, core, cmd>> /\ (c = "ctrl" => cmd = NoCmd)
    BY <1>4, ChannelLeaves DEF Report
  <2>2. CASE ReportStart(c)
    <3>1. /\ Starting /\ ~Stopping /\ ~Stopping'
          /\ UNCHANGED <<link, update, transport>>
      BY <1>1, <2>2, StartHeard
    <3>2. transport # None /\ (core # "closing")
      BY <1>e, <3>1 DEF Links, Reported, Starting
    <3> QED
      BY <2>1, <3>1, <3>2 DEF Links
  <2>3. CASE ReportStop(c)
    <3>1. /\ reports[c] = <<"stop">> /\ reports'[c] = <<>>
          /\ \A d \in Channels : d # c => reports'[d] = reports[d]
          /\ Stopping /\ ~Starting /\ ~Reported
          /\ update[c] = NoUpdate /\ link'[c] = "down"
          /\ \A d \in Channels : d # c => link'[d] = link[d]
          /\ UNCHANGED update
      BY <1>1, <2>3, StopHeard
    <3>2. transport # None
      BY <3>1 DEF Links
    <3>3. ~Starting'
      BY <3>1 DEF Starting
    <3>4. cmd # NoCmd => link'["ctrl"] = "up"
      BY <1>1, <2>1, <3>1 DEF Links
    <3>5. \A d \in Channels :
             reports'[d] = <<>> => link'[d] = "down" /\ update'[d] = NoUpdate
      BY <3>1 DEF Links
    <3>6. CASE Stopping' /\ UNCHANGED transport
      BY <2>1, <3>2, <3>3, <3>4, <3>5, <3>6 DEF Links
    <3>7. CASE transport' = None /\ \A d \in Channels : reports'[d] = <<>>
      BY <2>1, <3>3, <3>4, <3>5, <3>7 DEF Links, AllDown, Reported
    <3> QED
      BY <1>1, <2>3, <3>6, <3>7, StopHeard
  <2> QED
    BY <1>4, <2>2, <2>3 DEF Report
<1>5. ASSUME NEW c \in Channels, Network(c) PROVE Links'
  <2>1. /\ UNCHANGED <<reports, transport, service, core, cmd>>
        /\ c = "ctrl" => cmd = NoCmd
    BY <1>5, ChannelLeaves DEF Network
  <2>2. link[c] # "down" /\ update[c] = NoUpdate
    BY <1>5 DEF Network, Connect, Lose
  <2>3. \A d \in Channels : d # c => link'[d] = link[d] /\ update'[d] = update[d]
    BY <1>1, <1>5 DEF Network, Connect, Lose, Types
  <2>4. transport # None
    BY <2>2 DEF Links, AllDown
  <2>5. ~Starting
    <3>1. CASE Connect(c)
      BY <3>1 DEF Connect, Starting
    <3>2. CASE Lose(c)
      BY <3>2 DEF Lose, Links
    <3> QED
      BY <1>5, <3>1, <3>2 DEF Network
  <2>6. Stopping => reports[c] # <<>>
    BY <2>2 DEF Links
  <2>7. cmd # NoCmd => link'["ctrl"] = "up"
    BY <1>1, <2>1, <2>3 DEF Links
  <2> QED
    BY <2>1, <2>3, <2>4, <2>5, <2>6, <2>7 DEF Links, Starting, Stopping
<1>6. ASSUME NEW c \in Channels, Update(c) PROVE Links'
  <2>1. /\ UNCHANGED <<link, reports, transport, service, core, cmd>>
        /\ update' = [update EXCEPT ![c] = NoUpdate]
    BY <1>6, ChannelLeaves DEF Update, SetConnected, ClearConnected
  <2>2. \A d \in Channels : update[d] = NoUpdate => update'[d] = NoUpdate
    BY <1>1, <2>1 DEF Types
  <2> QED
    BY <2>1, <2>2 DEF Links, AllDown, Reported, Starting, Stopping
<1>7. CASE Reboot
  BY <1>7, <1>e DEF Reboot, Links, AllDown, Reported, Starting, Stopping
<1>8. CASE UNCHANGED transferVars
  <2>1. UNCHANGED <<link, reports, update, transport>>
    BY <1>8 DEF transferVars
  <2>2. /\ service' = None => transport = None
        /\ core' = "closing" => Stopping \/ transport = None
        /\ cmd' # NoCmd => link["ctrl"] = "up"
    <3>1. CASE HandleDisconnected
      <4>1. Reported /\ service' = service /\ cmd' = cmd
        BY <3>1 DEF HandleDisconnected, Take
      <4>2. transport = None
        <5>1. CASE service \in Services /\ NetStop
          BY <1>e, <2>1, <4>1, <5>1, StoppedAll DEF Reported, Stopping
        <5>2. CASE service \notin Services
          BY <1>1, <5>2 DEF Links, Types
        <5> QED
          BY <3>1, <5>1, <5>2 DEF HandleDisconnected
      <4> QED
        BY <4>1, <4>2 DEF Links
    <3>2. CASE Closed
      BY <1>e, <3>2 DEF Closed, Links, Reported, Stopping
    <3>3. CASE Receive
      BY <3>3 DEF Receive, Links
    <3>4. CASE Reboot
      BY <2>1, <3>4, <1>1 DEF Reboot
    <3>5. ASSUME ~HandleDisconnected, ~Closed, ~Receive, ~Reboot
          PROVE  /\ service' = None => service = None
                 /\ core' = "closing" => core = "closing"
                 /\ cmd' # NoCmd => cmd # NoCmd
      BY <1>1, <3>5, ControlMoves
    <3> QED
      BY <3>1, <3>2, <3>3, <3>4, <3>5 DEF Links
  <2> QED
    BY <2>1, <2>2 DEF Links, AllDown, Reported, Starting, Stopping
<1> QED
  BY <1>2, <1>3, <1>4, <1>5, <1>6, <1>7, <1>8, TransferMoves

\* A mask that was read before another thread wrote it brings back what was there
\* then, which is of the same service all the same.
LEMMA GateStep ==
    ASSUME Whole, [Next]_vars
    PROVE  Gate'
<1> USE DEF Whole
<1>1. TypeOK /\ Types /\ "ctrl" \in Channels
  BY TypesUnfolded DEF Channels
<1>2. CASE UNCHANGED <<reports, connected, update, met>>
  BY <1>2 DEF Gate
<1>3. CASE HandleStart /\ NetStart(service')
  <2>1. Reported
    BY <1>3 DEF HandleStart, Take
  <2> QED
    BY <1>1, <1>3, <2>1, StartedAll DEF Gate
<1>4. CASE (HandleDisconnected \/ HandleStop) /\ NetStop
  <2>1. Reported
    BY <1>4 DEF HandleDisconnected, HandleStop, Take
  <2>2. reports["ctrl"] # <<"start">>
    <3>1. <<>> # <<"start">>
      OBVIOUS
    <3> QED
      BY <1>1, <2>1, <3>1 DEF Reported
  <2> QED
    BY <1>4, <2>1, <2>2, StoppedAll DEF Gate
<1>5. ASSUME NEW c \in Channels, Report(c) PROVE Gate'
  <2>1. CASE ReportStart(c)
    <3>1. /\ UNCHANGED <<update, met>> /\ Starting
          /\ connected' = IF c = "ctrl" THEN {} ELSE connected
          /\ \A d \in Channels : d # c => reports'[d] = reports[d]
      BY <1>1, <2>1, StartHeard
    <3>2. \A d \in Channels : update[d] = NoUpdate
      BY <3>1 DEF Links
    <3> QED
      BY <1>1, <3>1, <3>2, UpdateParts DEF Gate
  <2>2. CASE ReportStop(c)
    <3>1. /\ UNCHANGED <<update, met>> /\ ~Starting
          /\ connected' = IF c = "ctrl" THEN {} ELSE connected
      BY <1>1, <2>2, StopHeard
    <3> QED
      BY <1>1, <3>1 DEF Gate, Starting
  <2> QED
    BY <1>5, <2>1, <2>2 DEF Report
<1>6. ASSUME NEW c \in Channels, Network(c) PROVE Gate'
  <2>1. UNCHANGED <<reports, connected>>
    BY <1>6, ChannelLeaves
  <2>2. CASE Connect(c)
    <3>1. met' = met \cup {c}
      BY <2>2 DEF Connect
    <3>2. \A d \in Channels :
             update'[d] = IF d = c THEN [op |-> "set", mask |-> connected \cup {c}]
                                   ELSE update[d]
      BY <1>1, <2>2 DEF Connect, Types
    <3> QED
      BY <2>1, <3>1, <3>2 DEF Gate
  <2>3. CASE Lose(c)
    <3>1. met' = met
      BY <2>3 DEF Lose
    <3>2. \A d \in Channels :
             update'[d] = IF d = c THEN [op |-> "clear", mask |-> connected \ {c}]
                                   ELSE update[d]
      BY <1>1, <2>3 DEF Lose, Types
    <3> QED
      BY <2>1, <3>1, <3>2 DEF Gate
  <2> QED
    BY <1>6, <2>2, <2>3 DEF Network
<1>7. ASSUME NEW c \in Channels, Update(c) PROVE Gate'
  <2>1. /\ UNCHANGED <<reports, met>> /\ connected' = update[c].mask
        /\ update' = [update EXCEPT ![c] = NoUpdate]
    BY <1>7, ChannelLeaves DEF Update, SetConnected, ClearConnected
  <2>2. \A d \in Channels : update'[d] = IF d = c THEN NoUpdate ELSE update[d]
    BY <1>1, <2>1 DEF Types
  <2> QED
    BY <2>1, <2>2, UpdateParts DEF Gate
<1>8. CASE Reboot
  BY <1>8, UpdateParts DEF Reboot, Gate
<1> QED
  BY <1>2, <1>3, <1>4, <1>5, <1>6, <1>7, <1>8, TransferMoves DEF transferVars, masks

\* A lost connection takes all votes, and finds no command that has voted.
LEMMA ClosedIdle == Whole /\ Closed => cmd = NoCmd
<1> SUFFICES ASSUME Whole, Closed PROVE cmd = NoCmd
  OBVIOUS
<1>1. ~Stopping
  <2>1. <<>> # <<"stop">>
    OBVIOUS
  <2> QED
    BY <2>1 DEF Closed, Reported, Stopping
<1> QED
  BY <1>1, Unserved DEF Closed, Whole, Links

LEMMA VotedStep ==
    ASSUME Whole, [Next]_vars
    PROVE  Voted'
<1> USE DEF Whole
<1>1. Types /\ cmd \in Cmds
  BY TypesUnfolded DEF Types
<1>2. CASE UNCHANGED <<votes, running, cmd>>
  BY <1>2 DEF Voted, RunningIsVoted
<1>3. CASE HandleDisconnected
  BY <1>3 DEF HandleDisconnected, Voted, RunningIsVoted
<1>4. CASE Closed
  <2>1. cmd' = NoCmd
    BY <1>4, ClosedIdle DEF Closed
  <2> QED
    BY <1>4, <2>1, CmdParts DEF Closed, Voted, RunningIsVoted
<1>5. CASE Receive
  <2>1. cmd'.op # "on" /\ votes' = votes /\ running' = running
    BY <1>5, CmdParts DEF Receive
  <2> QED
    BY <2>1 DEF Voted, RunningIsVoted
<1>6. CASE Vote
  <2>1. cmd.medium \in Media
    BY <1>1, <1>6, CmdParts DEF Vote
  <2>2. /\ cmd'.op = "on" /\ cmd'.medium = cmd.medium
        /\ cmd'.was <=> cmd.medium \in votes
    BY <1>6 DEF Vote
  <2>3. votes' = votes \cup {cmd.medium} /\ running' = running
    BY <1>6 DEF Vote
  <2> QED
    BY <2>1, <2>2, <2>3 DEF Voted, RunningIsVoted
<1>7. ASSUME NEW v, Done(v), running' \subseteq v \cup TurnedOffFirst PROVE Voted'
  BY <1>7, CmdParts DEF Done, Voted, RunningIsVoted
<1>8. CASE TurnedOn
  <2>1. cmd.medium \in votes /\ (~cmd.was => cmd.medium \notin running \ TurnedOffFirst)
    BY <1>8 DEF TurnedOn, Voted
  <2>2. CASE running' = running \cup {cmd.medium} /\ Done(votes)
    BY <1>7, <2>1, <2>2 DEF Voted, RunningIsVoted
  <2>3. CASE running' \subseteq running /\ cmd.was /\ Done(votes)
    BY <1>7, <2>3 DEF Voted, RunningIsVoted
  <2>4. CASE running' \subseteq running /\ ~cmd.was /\ Done(votes \ {cmd.medium})
    BY <1>7, <2>1, <2>4 DEF Voted, RunningIsVoted
  <2> QED
    BY <1>8, <2>2, <2>3, <2>4 DEF TurnedOn
<1>9. CASE TurnedOff \/ Queried
  <2>1. \/ running' \subseteq running \ {cmd.medium} /\ Done(votes \ {cmd.medium})
        \/ running' = running /\ Done(votes)
    BY <1>9 DEF TurnedOff, Queried
  <2> QED
    BY <1>7, <2>1 DEF Voted, RunningIsVoted
<1>10. ASSUME HandleStart \/ HandleNote \/ HandleConnected \/ HandleStop
              \/ HandleStopResponse \/ SendKeepalive
       PROVE  UNCHANGED <<votes, running, cmd>>
  BY <1>10 DEF HandleStart, HandleNote, HandleConnected, HandleStop, HandleStopResponse,
               SendKeepalive, coreVars
<1>11. ASSUME NEW c \in Channels, Report(c) \/ Network(c) \/ Update(c)
       PROVE  UNCHANGED <<votes, running, cmd>>
  BY <1>11, ChannelLeaves
<1>12. ASSUME TimerStep \/ Console \/ Boarding \/ UNCHANGED vars
       PROVE  UNCHANGED <<votes, running, cmd>>
  BY <1>12 DEF TimerStep, Expire, FlagStop, Console, SetInterval, Boarding, vars,
               keepaliveVars, coreVars
<1>13. CASE Reboot
  BY <1>13, CmdParts DEF Reboot, Voted, RunningIsVoted
<1> QED
  BY <1>2, <1>3, <1>4, <1>5, <1>6, <1>8, <1>9, <1>10, <1>11, <1>12, <1>13
     DEF Next, CoreStep, CmdStep

LEMMA WholeAlways == Spec => []Whole
<1>1. Whole /\ [Next]_vars => Whole'
  BY TypeStep, UnstartedStep, ReportsStep, LinksStep, GateStep, VotedStep DEF Whole
<1> QED
  BY <1>1, WholeInit, PTL DEF Spec

\* "network transfer is not ready, reject control command": whatever fails,
\* overflows or is preempted, and in whatever order four threads write the mask
\* of connected channels, no command gets through before every channel has
\* connected since the service started; and every variable has its type.
THEOREM CommandsAlwaysGated == Spec => []CommandsGated
<1>1. Whole => CommandsGated
  <2> SUFFICES ASSUME Whole, link["ctrl"] = "up", AllConnected PROVE met = Channels
    BY DEF Whole, CommandsGated
  <2>1. ~Starting
    BY DEF Whole, Links, Channels
  <2>2. connected \subseteq met
    BY <2>1 DEF Whole, Gate, Starting, Channels
  <2> QED
    BY <2>2, TypesUnfolded DEF AllConnected, Whole, Types
<1> QED
  BY <1>1, WholeAlways, PTL

\* doorbell_mm_service_vote around the commands and doorbell_devices_deinit: no
\* medium but the audio is on without a vote for it, whatever fails.
THEOREM VotesCoverMedia == Spec => []RunningIsVoted
<1>1. Whole => RunningIsVoted
  BY DEF Whole, Voted
<1> QED
  BY <1>1, WholeAlways, PTL

-----------------------------------------------------------------------------
(* Sent is inductive, when what is sent fits and the flag is set in time.  *)

Punctual == ~Preempted /\ "full" \notin Faults /\ "flash" \notin Faults

\* Who touches the queue, the reports, the masks being written, the flag or the
\* timer thread.
LEMMA SentMoves ==
    ASSUME [Next]_vars
    PROVE  \/ UNCHANGED <<queue, reports, update, pending, handler, unanswered>>
           \/ /\ HandleStart \/ HandleNote \/ HandleConnected \/ HandleDisconnected
              /\ \E e \in {"start", "started", "bleOff", "imageOff", "connected",
                           "disconnected"} : Take(e)
              /\ UNCHANGED <<update, pending, handler, unanswered>>
              /\ \/ UNCHANGED reports
                 \/ Take("start") /\ \E s : NetStart(s)
                 \/ NetStop
           \/ HandleStop \/ HandleStopResponse
           \/ \E c \in Channels : Report(c) \/ Network(c) \/ Update(c)
           \/ TimerStep \/ Boarding \/ Reboot
<1>n. /\ \A s : NetStart(s) => UNCHANGED update
      /\ NetStop => UNCHANGED update
  BY DEF NetStart, NetStop
<1>1. CASE HandleStart \/ HandleNote \/ HandleConnected \/ HandleDisconnected
  <2>1. CASE HandleStart
    <3>1. Take("start") /\ UNCHANGED <<pending, handler, unanswered>>
      BY <2>1 DEF HandleStart
    <3>2. UNCHANGED <<reports, update>> \/ \E s : NetStart(s)
      BY <2>1, Zenon DEF HandleStart, transferVars
    <3> QED
      BY <1>n, <2>1, <3>1, <3>2
  <2>2. CASE HandleNote
    BY <2>2 DEF HandleNote, transferVars, coreVars
  <2>3. CASE HandleConnected
    BY <2>3 DEF HandleConnected, transferVars, coreVars
  <2>4. CASE HandleDisconnected
    <3>1. Take("disconnected") /\ UNCHANGED <<pending, handler, unanswered>>
      BY <2>4 DEF HandleDisconnected
    <3>2. UNCHANGED <<reports, update>> \/ NetStop
      BY <2>4 DEF HandleDisconnected, transferVars
    <3> QED
      BY <1>n, <2>4, <3>1, <3>2
  <2> QED
    BY <1>1, <2>1, <2>2, <2>3, <2>4
<1>2. CASE Closed \/ SendKeepalive
  BY <1>2 DEF Closed, SendKeepalive, transferVars
<1>3. CASE Receive \/ CmdStep
  BY <1>3 DEF Receive, CmdStep, Vote, TurnedOn, TurnedOff, Queried, Done, transferVars
<1>4. CASE Console \/ UNCHANGED vars
  BY <1>4 DEF Console, SetInterval, vars, keepaliveVars, transferVars, coreVars
<1> QED
  BY <1>1, <1>2, <1>3, <1>4 DEF Next, CoreStep

LEMMA NoneToFollow ==
    ASSUME NEW q, NEW e, NEW f, ~Has(q, f)
    PROVE  NoneBehind(q, e, f)
BY DEF Has, NoneBehind

LEMMA TakenOrder ==
    ASSUME QueueOK, NEW e, Take(e), NEW d, NEW f, NoneBehind(queue, d, f)
    PROVE  /\ NoneBehind(queue', d, f)
           /\ e = d => ~Has(queue', f)
<1>1. /\ queue # <<>> /\ queue' = Tail(queue) /\ Head(queue).event = e
      /\ queue \in Seq(Message)
  BY DEF Take, QueueOK
<1> QED
  BY <1>1, PoppedOrder

LEMMA SentOrder ==
    ASSUME QueueOK, NEW m \in Message, Send(m), NEW d, NEW f, NoneBehind(queue, d, f),
           Has(queue, d) => m.event # f
    PROVE  NoneBehind(queue', d, f)
BY PushedOrder DEF Send, Pushed, QueueOK

\* A thread that writes the mask may send one message.
LEMMA InFlightMoves ==
    ASSUME Types
    PROVE  /\ InFlight \in Nat
           /\ UNCHANGED update => InFlight' = InFlight
           /\ \A c \in Channels :
                 /\ Network(c) => InFlight' = InFlight + 1
                 /\ Update(c) => InFlight' = InFlight - 1 /\ InFlight > 0
<1>1. InFlight \in Nat /\ (UNCHANGED update => InFlight' = InFlight)
  BY DEF InFlight, Updating
<1>2. ASSUME NEW c \in Channels, Network(c) PROVE InFlight' = InFlight + 1
  <2>1. /\ update[c] = NoUpdate /\ update'[c] # NoUpdate
        /\ \A d \in Channels : d # c => update'[d] = update[d]
    BY <1>2, UpdateParts DEF Network, Connect, Lose, Types
  <2> QED
    BY <2>1 DEF InFlight, Updating, Channels
<1>3. ASSUME NEW c \in Channels, Update(c) PROVE InFlight' = InFlight - 1 /\ InFlight > 0
  <2>1. /\ update[c] # NoUpdate /\ update'[c] = NoUpdate
        /\ \A d \in Channels : d # c => update'[d] = update[d]
    BY <1>3, UpdateParts DEF Update, SetConnected, ClearConnected, Types
  <2> QED
    BY <2>1 DEF InFlight, Updating, Channels
<1> QED
  BY <1>1, <1>2, <1>3

\* With all reported nothing is owed.
LEMMA NothingOwed ==
    Reported => Owed = 0 /\ ~Starting /\ ~Stopping /\ reports["video"] = <<>>
<1>1. <<>> # <<"stop">> /\ <<>> # <<"start">> /\ "video" \in Channels
  BY DEF Channels
<1> QED
  BY <1>1 DEF Reported, Owed, Starting, Stopping

\* A countdown that ends finds flash written, and room.
LEMMA Expires ==
    ASSUME Whole, Room, Flagged, Punctual, TimerStep, ~FlagStop
    PROVE  /\ Reported /\ ~Has(queue, "stopResponse") /\ handler = "idle"
           /\ timer = "running" /\ UNCHANGED votes
           /\ UNCHANGED <<transferVars, coreVars>>
           /\ \/ /\ votes # {} \/ pending
                 /\ UNCHANGED <<queue, pending, handler>>
              \/ /\ votes = {} /\ ~pending /\ ~Has(queue, "stop")
                 /\ Fits /\ Stop(flash) \in Message /\ Send(Stop(flash))
                 /\ Len(queue) + InFlight < QueueLen
                 /\ handler' = "sent" /\ UNCHANGED pending
<1>1. /\ Reported /\ ~Has(queue, "stopResponse") /\ Expire
      /\ UNCHANGED <<transferVars, coreVars>>
  BY InQueueIs DEF TimerStep
<1>2. timer = "running" /\ handler = "idle" /\ UNCHANGED votes
  BY <1>1 DEF Expire
<1>3. flash # None /\ flash \in Services
  BY <1>2, TypesUnfolded DEF Whole, Unstarted, Types
<1>4. ASSUME ~pending
      PROVE  ~Has(queue, "stop") /\ Fits /\ Len(queue) + InFlight < QueueLen
  <2>1. ~Has(queue, "stop")
    BY <1>2, <1>4 DEF Flagged
  <2>2. Len(queue) \in Nat /\ QueueLen \in Nat /\ InFlight \in Nat
    BY TypesUnfolded, DoorbellAssumption, InFlightMoves DEF Whole, QueueOK
  <2>3. Len(queue) + InFlight < QueueLen
    BY <1>1, <2>1, <2>2, NothingOwed DEF Room
  <2> QED
    BY <2>1, <2>2, <2>3 DEF Fits
<1> QED
  BY <1>1, <1>2, <1>3, <1>4, MessageParts DEF Expire, Punctual

LEMMA RoomStep ==
    ASSUME Whole, Room, Flagged, Punctual, [Next]_vars
    PROVE  Room'
<1>1. /\ TypeOK /\ QueueOK /\ Types /\ Reports
      /\ Len(queue) \in Nat /\ Owed \in {0, 1} /\ Owed' \in {0, 1}
      /\ InFlight \in Nat
  BY TypesUnfolded, InFlightMoves DEF Whole, QueueOK, Owed
<1>2. QueueLen \in Nat /\ QueueLen > 2 /\ Len(queue) + Owed + InFlight <= QueueLen
  BY <1>1, DoorbellAssumption DEF Room
<1>u. UNCHANGED update => InFlight' = InFlight
  BY <1>1, InFlightMoves
<1>3. CASE UNCHANGED <<queue, reports, update>>
  BY <1>3, <1>u DEF Room, Owed, Stopping
\* A message is taken, and may leave one to be made by a channel.
<1>4. ASSUME NEW e, Take(e) PROVE Len(queue') = Len(queue) - 1 /\ Owed = 0 /\ ~Stopping
  BY <1>1, <1>4, Taken, NothingOwed
<1>5. CASE (\E e : Take(e)) /\ UNCHANGED <<reports, update>>
  <2>1. Owed' = 0
    BY <1>4, <1>5 DEF Owed, Stopping
  <2> QED
    BY <1>1, <1>2, <1>4, <1>5, <1>u, <2>1 DEF Room
<1>6. CASE (\E e : Take(e)) /\ NetStop
  <2>1. Reported
    BY <1>1, <1>6, Taken
  <2>2. UNCHANGED update
    BY <1>6 DEF NetStop
  <2>3. CASE Stopping'
    BY <1>1, <1>2, <1>4, <1>6, <1>u, <2>2, <2>3 DEF Room
  <2>4. CASE ~Stopping'
    BY <1>5, <1>6, <2>1, <2>2, <2>4, StoppedAll
  <2> QED
    BY <2>3, <2>4
<1>7. CASE Take("start") /\ \E s : NetStart(s)
  <2>1. "start" # "stop" /\ "start" # "stopResponse"
    OBVIOUS
  <2>2. /\ Has(queue, "stop") => Has(queue', "stop")
        /\ Has(queue, "stopResponse") => Has(queue', "stopResponse")
    BY <1>1, <1>7, <2>1, Taken
  <2>3. UNCHANGED update
    BY <1>7 DEF NetStart
  <2> QED
    BY <1>1, <1>2, <1>4, <1>7, <1>u, <2>2, <2>3 DEF Room
<1>8. ASSUME NEW c \in Channels, Report(c) PROVE Room'
  <2>1. CASE ReportStart(c)
    <3>1. /\ reports'[c] = <<>> /\ reports[c] = <<"start">> /\ ~Stopping /\ ~Stopping'
          /\ \A d \in Channels : d # c => reports'[d] = reports[d]
          /\ UNCHANGED update
      BY <1>1, <2>1, StartHeard
    <3>2. <<>> # <<"start">> /\ "video" \in Channels
      BY DEF Channels
    <3>4. CASE c = "video"
      <4>1. Owed = 1 /\ Owed' = 0
        BY <3>1, <3>2, <3>4 DEF Owed
      <4>2. Fits /\ Send(Note("started")) /\ Note("started") \in Message
        BY <1>1, <1>2, <2>1, <3>4, <4>1, MessageParts DEF ReportStart, Fits
      <4>3. /\ Len(queue') = Len(queue) + 1
            /\ \A f : Has(queue, f) => Has(queue', f)
        BY <1>1, <4>2, Sending
      <4> QED
        BY <1>1, <1>2, <1>u, <3>1, <4>1, <4>3 DEF Room
    <3>5. CASE c # "video"
      <4>1. Owed' = Owed /\ queue' = queue
        BY <2>1, <3>1, <3>2, <3>5 DEF Owed, ReportStart
      <4> QED
        BY <1>u, <3>1, <4>1 DEF Room
    <3> QED
      BY <3>4, <3>5
  <2>2. CASE ReportStop(c)
    <3>1. Stopping /\ Owed = 1 /\ ~Reported /\ UNCHANGED update
      BY <1>1, <2>2, StopHeard DEF Owed
    <3>2. CASE UNCHANGED queue /\ Stopping'
      BY <1>1, <1>2, <1>u, <3>1, <3>2 DEF Room, Owed
    <3>3. CASE /\ Send(StopResponse(transport)) /\ ~Stopping'
               /\ \A d \in Channels : reports'[d] = <<>>
      <4>1. StopResponse(transport) \in Message
        <5>1. transport # None
          BY <3>1 DEF Whole, Links
        <5> QED
          BY <1>1, <5>1, MessageParts DEF Types
      <4>2. Fits
        BY <1>1, <1>2, <3>1 DEF Fits
      <4>3. Len(queue') = Len(queue) + 1 /\ Has(queue', "stopResponse")
        BY <1>1, <3>3, <4>1, <4>2, Sending, MessageParts
      <4>4. Owed' = 0
        <5>1. <<>> # <<"start">> /\ "video" \in Channels
          BY DEF Channels
        <5> QED
          BY <3>3, <5>1 DEF Owed
      <4> QED
        BY <1>1, <1>2, <1>u, <3>1, <4>3, <4>4 DEF Room
    <3> QED
      BY <1>1, <2>2, <3>2, <3>3, StopHeard
  <2> QED
    BY <1>8, <2>1, <2>2 DEF Report
<1>9. ASSUME NEW c \in Channels, Network(c) PROVE Room'
  <2>1. Len(queue) + InFlight + 2 < QueueLen
    BY <1>9 DEF Network, Roomy, Punctual
  <2>2. UNCHANGED queue /\ InFlight' = InFlight + 1
    BY <1>1, <1>9, InFlightMoves, ChannelLeaves
  <2> QED
    BY <1>1, <1>2, <2>1, <2>2 DEF Room
<1>10. ASSUME NEW c \in Channels, Update(c) PROVE Room'
  <2>1. InFlight' = InFlight - 1 /\ InFlight > 0 /\ UNCHANGED reports
    BY <1>1, <1>10, InFlightMoves, ChannelLeaves
  <2>2. UNCHANGED queue \/ \E m \in Message : Send(m)
    BY <1>10, MessageParts DEF Update, SetConnected, ClearConnected, LossEvent
  <2>3. /\ Len(queue') \in Nat /\ Len(queue') <= Len(queue) + 1
        /\ \A f : Has(queue, f) => Has(queue', f)
    BY <1>1, <1>2, <2>1, <2>2, Sending DEF Fits, QueueOK
  <2>4. Owed' = Owed /\ (Stopping' <=> Stopping)
    BY <2>1 DEF Owed, Stopping
  <2> QED
    BY <1>1, <1>2, <2>1, <2>3, <2>4 DEF Room
<1>11. CASE Boarding
  <2>1. /\ Len(queue) + InFlight + 2 < QueueLen /\ UNCHANGED <<reports, update>>
        /\ Fits /\ \E m \in Message : Send(m)
    BY <1>11, MessageParts DEF Boarding, Roomy, Punctual, transferVars
  <2>2. Len(queue') = Len(queue) + 1
    BY <1>1, <2>1, Sending
  <2> QED
    BY <1>1, <1>2, <1>u, <2>1, <2>2 DEF Room
<1>12. CASE TimerStep
  <2>1. CASE FlagStop
    BY <1>3, <1>12, <2>1 DEF FlagStop, TimerStep, transferVars, Expire
  <2>2. CASE ~FlagStop
    <3>1. Reported /\ UNCHANGED <<reports, update>>
      BY <1>12, <2>2, Expires DEF transferVars
    <3>2. CASE UNCHANGED queue
      BY <1>3, <3>1, <3>2
    <3>3. ASSUME Fits, Stop(flash) \in Message, Send(Stop(flash)),
                 Len(queue) + InFlight < QueueLen
          PROVE  Room'
      <4>1. Len(queue') = Len(queue) + 1 /\ Has(queue', "stop")
        BY <1>1, <3>3, Sending, MessageParts
      <4>2. Owed' = 0
        BY <3>1, NothingOwed DEF Owed, Stopping
      <4> QED
        BY <1>1, <1>2, <1>u, <3>1, <3>3, <4>1, <4>2 DEF Room
    <3> QED
      BY <1>12, <2>2, <3>2, <3>3, Expires
  <2> QED
    BY <2>1, <2>2
<1>13. CASE Reboot
  <2>1. QueueOK' /\ Len(queue') <= 2
    BY <1>1, <1>13, BootMessages
  <2>2. Owed' = 0
    <3>1. Reported'
      BY <1>13 DEF Reboot, Reported
    <3>2. <<>> # <<"start">> /\ <<>> # <<"stop">> /\ "video" \in Channels
      BY DEF Channels
    <3> QED
      BY <3>1, <3>2 DEF Owed, Stopping, Reported
  <2>3. InFlight' = 0
    BY <1>13 DEF Reboot, InFlight, Updating, Channels
  <2> QED
    BY <1>2, <2>1, <2>2, <2>3 DEF Room, QueueOK
<1>14. CASE HandleStop \/ HandleStopResponse
  <2>1. UNCHANGED <<reports, update>> \/ NetStop
    BY <1>14 DEF HandleStop, HandleStopResponse, transferVars
  <2>2. \E e : Take(e)
    BY <1>14 DEF HandleStop, HandleStopResponse
  <2> QED
    BY <1>5, <1>6, <2>1, <2>2
<1> QED
  BY <1>3, <1>5, <1>6, <1>7, <1>8, <1>9, <1>10, <1>11, <1>12, <1>13, <1>14, SentMoves

LEMMA FlaggedStep ==
    ASSUME Whole, Room, Flagged, Punctual, [Next]_vars
    PROVE  Flagged'
<1>1. /\ TypeOK /\ QueueOK /\ Types /\ Reports
      /\ Len(queue) \in Nat /\ Owed \in {0, 1} /\ InFlight \in Nat
      /\ QueueLen \in Nat /\ Len(queue) + Owed + InFlight <= QueueLen
  BY TypesUnfolded, DoorbellAssumption, InFlightMoves DEF Whole, QueueOK, Owed, Room
<1>2. CASE UNCHANGED <<queue, reports, pending, handler, unanswered>>
  BY <1>2 DEF Flagged, Stopping
<1>3. ASSUME NEW e, Take(e) PROVE handler = "idle" /\ ~Stopping
  BY <1>3, NothingOwed DEF Take, Punctual
\* A message other than a stop and its response is taken.
<1>4. ASSUME NEW e, Take(e), e \notin {"stop", "stopResponse"},
             UNCHANGED <<pending, handler, unanswered>>
      PROVE  Flagged'
  <2>1. \A f \in {"stop", "stopResponse"} : Has(queue', f) <=> Has(queue, f)
    BY <1>1, <1>4, Taken
  <2>2. NoneBehind(queue', "stop", "stop") /\ NoneBehind(queue', "stopResponse", "stop")
    BY <1>1, <1>4, TakenOrder DEF Flagged
  <2> QED
    BY <1>3, <1>4, <2>1, <2>2 DEF Flagged
\* A stop is skipped, finds a service, or finds none.
<1>5. CASE HandleStop
  <2>1. Take("stop") /\ UNCHANGED handler /\ Reported
    BY <1>5 DEF HandleStop, Take
  <2>2. ~Has(queue', "stop")
    BY <1>1, <2>1, TakenOrder DEF Flagged
  <2>3. pending' => Stopping' \/ unanswered'
    <3>1. pending' => NetStop /\ unanswered' = (transport = None)
      BY <1>5 DEF HandleStop
    <3> QED
      BY <2>1, <3>1, StoppedAll
  <2>4. unanswered' => pending'
    <3>1. pending
      BY <1>1, <1>3, <2>1, Taken DEF Flagged
    <3> QED
      BY <1>5, <3>1 DEF HandleStop
  <2> QED
    BY <1>3, <2>1, <2>2, <2>3, <2>4, NoneToFollow DEF Flagged
<1>6. CASE HandleStopResponse
  <2>1. Take("stopResponse") /\ UNCHANGED handler /\ ~pending' /\ ~unanswered'
    BY <1>6 DEF HandleStopResponse
  <2>2. ~Has(queue', "stop")
    BY <1>1, <2>1, TakenOrder DEF Flagged
  <2> QED
    BY <1>3, <2>1, <2>2, NoneToFollow DEF Flagged
\* Something other than a stop is sent.
<1>7. ASSUME NEW m \in Message, Send(m), m.event # "stop",
             UNCHANGED <<pending, handler, unanswered>>,
             Stopping => Stopping' \/ Has(queue', "stopResponse")
      PROVE  Flagged'
  <2>1. /\ Has(queue', "stop") <=> Has(queue, "stop")
        /\ Has(queue, "stopResponse") => Has(queue', "stopResponse")
    BY <1>1, <1>7, Sending
  <2>2. NoneBehind(queue', "stop", "stop") /\ NoneBehind(queue', "stopResponse", "stop")
    BY <1>1, <1>7, SentOrder DEF Flagged
  <2> QED
    BY <1>7, <2>1, <2>2 DEF Flagged
<1>8. ASSUME NEW c \in Channels, Report(c) PROVE Flagged'
  <2>1. UNCHANGED <<pending, handler, unanswered>>
    BY <1>8, ChannelLeaves
  <2>2. CASE ReportStart(c)
    <3>1. ~Stopping
      BY <1>1, <2>2, StartHeard
    <3>2. CASE Send(Note("started"))
      BY <1>7, <2>1, <3>1, <3>2, MessageParts
    <3>3. CASE UNCHANGED queue
      BY <2>1, <3>1, <3>3 DEF Flagged
    <3> QED
      BY <2>2, <3>2, <3>3 DEF ReportStart
  <2>3. CASE ReportStop(c)
    <3>1. CASE UNCHANGED queue /\ Stopping'
      BY <2>1, <3>1 DEF Flagged
    <3>2. CASE Send(StopResponse(transport))
      <4>0. Stopping /\ ~Reported
        BY <1>1, <2>3, StopHeard
      <4>1. StopResponse(transport) \in Message
        <5>1. transport # None
          BY <4>0 DEF Whole, Links
        <5> QED
          BY <1>1, <5>1, MessageParts DEF Types
      <4>2. Fits
        BY <1>1, <4>0 DEF Fits, Owed
      <4>3. Has(queue', "stopResponse") /\ StopResponse(transport).event = "stopResponse"
        BY <1>1, <3>2, <4>1, <4>2, Sending, MessageParts
      <4>4. StopResponse(transport).event # "stop"
        BY <4>3
      <4> QED
        BY <1>7, <2>1, <3>2, <4>1, <4>3, <4>4
    <3> QED
      BY <1>1, <2>3, <3>1, <3>2, StopHeard
  <2> QED
    BY <1>8, <2>2, <2>3 DEF Report
<1>9. ASSUME NEW c \in Channels, Network(c) \/ Update(c) PROVE Flagged'
  <2>1. UNCHANGED <<pending, handler, unanswered, reports>>
    BY <1>9, ChannelLeaves
  <2>2. UNCHANGED queue \/ \E m \in Message : Send(m) /\ m.event # "stop"
    <3>1. CASE Network(c)
      BY <3>1, ChannelLeaves
    <3>2. CASE Update(c)
      BY <3>2, MessageParts DEF Update, SetConnected, ClearConnected, LossEvent
    <3> QED
      BY <1>9, <3>1, <3>2
  <2>3. Stopping => Stopping'
    BY <2>1 DEF Stopping
  <2> QED
    BY <1>2, <1>7, <2>1, <2>2, <2>3
<1>10. CASE Boarding
  <2>1. \E s \in Services : Send(Start(s))
    BY <1>10 DEF Boarding
  <2>2. \E m \in Message : Send(m) /\ m.event # "stop"
    BY <2>1, MessageParts
  <2>3. UNCHANGED <<pending, handler, unanswered, reports>> /\ (Stopping => Stopping')
    BY <1>10 DEF Boarding, transferVars, coreVars, Stopping
  <2> QED
    BY <1>7, <2>2, <2>3
<1>11. CASE TimerStep
  <2>0. UNCHANGED <<reports, unanswered>>
    BY <1>11 DEF TimerStep, transferVars, coreVars
  <2>1. CASE FlagStop
    BY <2>0, <2>1 DEF FlagStop, Flagged, Stopping
  <2>2. CASE ~FlagStop
    <3>1. ~Has(queue, "stopResponse")
      BY <1>11, <2>2, Expires
    <3>2. CASE UNCHANGED <<queue, pending, handler>>
      BY <1>2, <2>0, <3>2
    <3>3. ASSUME ~pending, ~Has(queue, "stop"), Fits, Stop(flash) \in Message,
                 Send(Stop(flash)), handler' = "sent", UNCHANGED pending
          PROVE  Flagged'
      <4>1. Has(queue', "stop")
        BY <1>1, <3>3, Sending, MessageParts
      <4>2. /\ NoneBehind(queue', "stop", "stop")
            /\ NoneBehind(queue', "stopResponse", "stop")
        BY <1>1, <3>1, <3>3, SentOrder DEF Flagged
      <4> QED
        BY <2>0, <3>3, <4>1, <4>2 DEF Flagged
    <3> QED
      BY <1>11, <2>2, <3>2, <3>3, Expires
  <2> QED
    BY <2>1, <2>2
<1>12. CASE Reboot
  <2>1. ~Has(queue', "stop")
    BY <1>1, <1>12, BootMessages
  <2>2. pending' = FALSE /\ handler' = "idle" /\ unanswered' = FALSE
    BY <1>12 DEF Reboot, Booted
  <2> QED
    BY <2>1, <2>2, NoneToFollow DEF Flagged
<1>13. ASSUME NEW e \in {"start", "started", "bleOff", "imageOff", "connected",
                         "disconnected"},
              Take(e), UNCHANGED <<pending, handler, unanswered>>
       PROVE  Flagged'
  BY <1>4, <1>13
<1> QED
  BY <1>2, <1>5, <1>6, <1>8, <1>9, <1>10, <1>11, <1>12, <1>13, SentMoves

\* A countdown that is on its way is left on it by every step but a few.
LEMMA CountedStep ==
    ASSUME Whole, Room, Flagged, Counted, Punctual, [Next]_vars
    PROVE  Counted'
<1>1. /\ TypeOK /\ QueueOK /\ Types /\ Reports /\ Channels # {}
      /\ Len(queue) \in Nat /\ Owed \in {0, 1} /\ InFlight \in Nat
      /\ QueueLen \in Nat /\ Len(queue) + Owed + InFlight <= QueueLen
  BY TypesUnfolded, DoorbellAssumption, InFlightMoves
     DEF Whole, QueueOK, Owed, Room, Channels
<1>2. ASSUME connected' = {} PROVE Counted'
  BY <1>1, <1>2 DEF Counted, AllConnected
<1>3. ASSUME connected' \subseteq connected, UNCHANGED <<power, votes, cmd, timer>>,
             Has(queue, "connected") => Has(queue', "connected"),
             Has(queue, "stop") => Has(queue', "stop"),
             Stranded => Stranded'
      PROVE  Counted'
  BY <1>3 DEF Counted, AllConnected, Stranded
<1>4. ASSUME NEW e, Take(e), e \notin {"connected", "stop"},
             UNCHANGED <<reports, unanswered>> \/ \E s : NetStart(s) /\ UNCHANGED unanswered
      PROVE  /\ Has(queue, "connected") => Has(queue', "connected")
             /\ Has(queue, "stop") => Has(queue', "stop")
             /\ Stranded => Stranded'
  <2>1. \A f : Has(queue', f) => Has(queue, f)
    BY <1>1, <1>4, Taken
  <2>2. ~Stopping'
    BY <1>1, <1>4, Taken, StartedAll, NothingOwed DEF Stopping
  <2> QED
    BY <1>1, <1>4, <2>1, <2>2, Taken DEF Stranded
<1>5. ASSUME NEW m \in Message, Send(m), m.event # "stopResponse", connected' \subseteq connected,
             UNCHANGED <<power, votes, cmd, timer, unanswered>>, ~Stopping => ~Stopping'
      PROVE  Counted'
  BY <1>1, <1>3, <1>5, Sending DEF Stranded
<1>6. CASE HandleStart
  <2>1. /\ Take("start") /\ UNCHANGED <<power, votes, cmd, timer, unanswered, connected>>
        /\ UNCHANGED reports \/ \E s : NetStart(s)
    BY <1>6, Zenon DEF HandleStart, NetStart, transferVars, masks
  <2> QED
    BY <1>3, <1>4, <2>1
<1>7. CASE HandleNote
  BY <1>3, <1>4, <1>7 DEF HandleNote, transferVars, masks, coreVars
<1>8. CASE HandleConnected
  BY <1>8 DEF HandleConnected, Counting, Counted, coreVars
<1>9. CASE HandleDisconnected
  <2>1. Take("disconnected") /\ UNCHANGED <<power, votes, cmd, timer, unanswered>>
    BY <1>9 DEF HandleDisconnected
  <2>2. UNCHANGED transferVars \/ NetStop
    BY <1>9 DEF HandleDisconnected
  <2> QED
    BY <1>2, <1>3, <1>4, <2>1, <2>2 DEF NetStop, transferVars, masks
<1>10. CASE Closed
  <2>1. votes \ Media = {}
    BY <1>1 DEF Types
  <2> QED
    BY <1>10, <2>1 DEF Closed, VoteRemoved, Counting, Counted
<1>11. CASE HandleStop
  BY <1>2, <1>11 DEF HandleStop, NetStop, Counted
<1>12. CASE HandleStopResponse
  <2>1. /\ Take("stopResponse") /\ UNCHANGED <<power, votes, cmd, timer, transferVars>>
        /\ Has(queue, "stopResponse")
    BY <1>1, <1>12, Taken DEF HandleStopResponse
  <2>2. /\ Has(queue, "connected") => Has(queue', "connected")
        /\ Has(queue, "stop") => Has(queue', "stop")
    BY <1>1, <2>1, Taken
  <2> QED
    BY <1>3, <2>1, <2>2 DEF Stranded, transferVars, masks
<1>13. CASE SendKeepalive
  BY <1>3, <1>13 DEF SendKeepalive, transferVars, masks, Counted, Stranded, Stopping
<1>14. CASE Receive \/ Vote
  <2>1. cmd' # NoCmd
    BY <1>14 DEF Receive, Vote, NoCmd
  <2> QED
    BY <2>1 DEF Counted
<1>15. ASSUME NEW v, Done(v) PROVE Counted'
  BY <1>15 DEF Done, Counting, Counted
<1>16. CASE TurnedOn \/ TurnedOff \/ Queried
  BY <1>15, <1>16 DEF TurnedOn, TurnedOff, Queried
<1>17. ASSUME NEW c \in Channels, Report(c) PROVE Counted'
  <2>1. UNCHANGED <<power, votes, cmd, timer, unanswered>> /\ connected' \subseteq connected
    BY <1>17, ChannelLeaves DEF Report, ReportStart, ReportStop, masks
  <2>2. CASE ReportStart(c)
    <3>1. ~Stopping'
      BY <1>1, <2>2, StartHeard
    <3>2. CASE UNCHANGED queue
      BY <1>3, <2>1, <3>1, <3>2 DEF Stranded
    <3>3. CASE Send(Note("started"))
      BY <1>5, <2>1, <3>1, <3>3, MessageParts
    <3> QED
      BY <2>2, <3>2, <3>3 DEF ReportStart
  <2>3. CASE ReportStop(c)
    <3>1. Stopping /\ ~Reported
      BY <1>1, <2>3, StopHeard
    <3>2. \A f : Has(queue, f) => Has(queue', f)
      <4>1. StopResponse(transport) \in Message
        BY <1>1, <3>1, MessageParts DEF Whole, Links, Types
      <4> QED
        BY <1>1, <2>3, <4>1, StopHeard, Sending
    <3> QED
      BY <1>3, <2>1, <3>1, <3>2 DEF Stranded
  <2> QED
    BY <1>17, <2>2, <2>3 DEF Report
<1>18. ASSUME NEW c \in Channels, Network(c) PROVE Counted'
  <2>1. UNCHANGED <<power, votes, cmd, timer, unanswered, queue, reports, connected>>
    BY <1>18, ChannelLeaves
  <2> QED
    BY <1>3, <2>1 DEF Stranded, Stopping
<1>19. ASSUME NEW c \in Channels, Update(c) PROVE Counted'
  <2>1. CASE SetConnected(c) /\ AllConnected'
    <3>1. Fits /\ Send(Note("connected"))
      <4>1. InFlight > 0
        BY <1>1, <1>19, InFlightMoves
      <4>2. Len(queue) < QueueLen
        BY <1>1, <4>1
      <4> QED
        BY <2>1, <4>2 DEF SetConnected, Fits
    <3>2. Has(queue', "connected")
      BY <1>1, <3>1, Sending, MessageParts
    <3> QED
      BY <3>2 DEF Counted
  <2>2. CASE ClearConnected(c)
    <3>1. c \notin connected'
      BY <2>2 DEF ClearConnected, Whole, Gate
    <3> QED
      BY <3>1 DEF Counted, AllConnected
  <2>3. CASE ~AllConnected'
    BY <2>3 DEF Counted
  <2> QED
    BY <1>19, <2>1, <2>2, <2>3 DEF Update
<1>20. CASE TimerStep
  <2>0. UNCHANGED <<reports, connected, power, cmd, unanswered>>
    BY <1>20 DEF TimerStep, transferVars, masks, coreVars
  <2>1. CASE FlagStop
    BY <1>3, <2>0, <2>1 DEF FlagStop, Stranded, Stopping
  <2>2. CASE ~FlagStop
    <3>1. /\ ~Has(queue, "stopResponse") /\ Reported /\ UNCHANGED votes
          /\ \/ (votes # {} \/ pending) /\ UNCHANGED queue
             \/ Fits /\ Stop(flash) \in Message /\ Send(Stop(flash))
      BY <1>20, <2>2, Expires
    <3>2. CASE votes # {}
      BY <3>1, <3>2 DEF Counted
    <3>3. CASE pending /\ UNCHANGED queue
      <4>1. ~Stopping /\ ~Stopping'
        BY <2>0, <3>1, NothingOwed DEF Stopping
      <4>2. Has(queue', "stop") \/ Stranded'
        BY <2>0, <3>1, <3>3, <4>1 DEF Flagged, Stranded
      <4> QED
        BY <4>2 DEF Counted, Stranded
    <3>4. CASE Fits /\ Stop(flash) \in Message /\ Send(Stop(flash))
      <4>1. Has(queue', "stop")
        BY <1>1, <3>4, Sending, MessageParts
      <4> QED
        BY <4>1 DEF Counted
    <3> QED
      BY <3>1, <3>2, <3>3, <3>4
  <2> QED
    BY <2>1, <2>2
<1>21. CASE Console
  BY <1>21 DEF Console, SetInterval, Counted
<1>22. CASE Boarding
  <2>1. /\ \E s \in Services : Send(Start(s))
        /\ UNCHANGED <<power, votes, cmd, timer, unanswered, connected, reports>>
    BY <1>22 DEF Boarding, transferVars, masks, coreVars
  <2> QED
    BY <1>5, <2>1, MessageParts DEF Stopping
<1>23. CASE Reboot
  BY <1>2, <1>23 DEF Reboot
<1>24. CASE UNCHANGED vars
  BY <1>3, <1>24 DEF vars, keepaliveVars, transferVars, masks, coreVars, Stranded, Stopping
<1> QED
  BY <1>6, <1>7, <1>8, <1>9, <1>10, <1>11, <1>12, <1>13, <1>14, <1>16, <1>17, <1>18, <1>19,
     <1>20, <1>21, <1>22, <1>23, <1>24 DEF Next, CoreStep, CmdStep

LEMMA SentInit == Init => Sent
<1> SUFFICES ASSUME Init PROVE Sent
  OBVIOUS
<1> USE DEF Init, KeepaliveInit, TransferInit
<1>1. Reported /\ queue = <<>> /\ Len(queue) = 0
  BY DEF Reported
<1>2. \A e : ~Has(queue, e)
  BY <1>1 DEF Has
<1>3. InFlight = 0
  BY DEF InFlight, Updating, Channels
<1>4. Room
  BY <1>1, <1>3, NothingOwed, DoorbellAssumption DEF Room
<1>5. Flagged
  BY <1>2, NoneToFollow DEF Flagged
<1>6. Counted
  BY DEF Counted, AllConnected, Channels
<1> QED
  BY <1>4, <1>5, <1>6 DEF Sent

\* Unless flash cannot be read, the queue fills or the flag comes late, the
\* stop of the countdown is where it should be.
LEMMA SentAlways == ASSUME Punctual PROVE Spec => []Sent
<1>1. Init => Sent
  BY SentInit
<1>2. Whole /\ Sent /\ [Next]_vars => Sent'
  BY RoomStep, FlaggedStep, CountedStep DEF Sent
<1> QED
  BY <1>1, <1>2, WholeAlways, PTL DEF Spec

\* doorbell_keepalive_stop_service_if_running: the flag that holds back a second
\* stop is left behind with nothing on the way that clears it only by a stop that
\* came when the service was already gone, which no STOP_RESPONSE answers.
THEOREM FlagIsCleared ==
    ASSUME Punctual
    PROVE  Spec => []PendingHasCause
<1>1. Whole /\ Sent => PendingHasCause
  <2> SUFFICES ASSUME Whole, Sent, Stopping PROVE StopUnderway
    BY InQueueIs DEF Sent, Flagged, PendingHasCause
  <2>1. \A c \in Channels : reports[c] \in {<<>>, <<"stop">>}
    BY DEF Whole, Reports, Starting, Stopping
  <2>2. 1 \in DOMAIN <<"stop">> /\ <<"stop">>[1] = "stop"
    OBVIOUS
  <2> QED
    BY <2>1, <2>2 DEF StopUnderway, Whole, Reports
<1> QED
  BY <1>1, SentAlways, WholeAlways, PTL

\* "clear stale votes so the keepalive idle check can detect idle and sleep": when
\* every thread is at rest, an idle and connected AP that waits for no stop
\* counts down.
THEOREM IdleApCounts ==
    ASSUME Punctual
    PROVE  Spec => []IdleCounts
<1>1. Sent => IdleCounts
  <2> SUFFICES ASSUME Counted, Flagged, queue = <<>>, cmd = NoCmd, power = "on",
                      votes = {}, AllConnected, ~pending
               PROVE  timer = "running"
    BY DEF Sent, IdleCounts, Quiet
  <2>1. \A e : ~Has(queue, e)
    BY DEF Has
  <2> QED
    BY <2>1 DEF Counted, Flagged, Stranded
<1> QED
  BY <1>1, SentAlways, PTL

-----------------------------------------------------------------------------
(* Released is inductive, when the user does not come in the hand-over.    *)

Undisturbed == Punctual /\ "intrude" \notin Faults

\* Who changes links, when no service is started.
LEMMA LinkMoves ==
    ASSUME Whole, [Next]_vars, ~Has(queue, "start"), ~Reboot
    PROVE  \/ UNCHANGED <<link, reports>>
           \/ UNCHANGED link /\ NetStop /\ Reported
           \/ \E c \in Channels : Report(c) \/ Network(c)
<1>1. ~HandleStart
  BY Taken, TypesUnfolded DEF HandleStart, Whole
<1>2. ASSUME NEW c \in Channels, Update(c) PROVE UNCHANGED <<link, reports>>
  BY <1>2, ChannelLeaves
<1>3. ASSUME (HandleDisconnected \/ HandleStop) /\ NetStop PROVE UNCHANGED link /\ Reported
  BY <1>3 DEF HandleDisconnected, HandleStop, Take, NetStop
<1> QED
  BY <1>1, <1>2, <1>3, TransferMoves DEF transferVars

\* What channels do while they end.
LEMMA EndingStays ==
    ASSUME Whole, Ending, [Next]_vars, ~Boarding, ~Reboot
    PROVE  Ending'
<1>1. QueueOK /\ TypeOK /\ Types /\ Reports /\ ~Has(queue, "start")
  BY TypesUnfolded DEF Whole, Ending
<1>e. <<>> # <<"stop">> /\ <<"start">> # <<"stop">>
  OBVIOUS
<1>2. ~Has(queue', "start")
  BY <1>1, QueueMoves, Taken, Sending DEF SentBy
<1>3. ASSUME UNCHANGED link, Reported \/ UNCHANGED reports PROVE Ending'
  BY <1>e, <1>2, <1>3 DEF Ending, Reported
<1>4. ASSUME NEW c \in Channels, Report(c) PROVE Ending'
  <2>1. CASE ReportStart(c)
    <3>1. /\ UNCHANGED link /\ reports[c] = <<"start">>
          /\ \A d \in Channels : d # c => reports'[d] = reports[d]
      BY <1>1, <2>1, StartHeard
    <3> QED
      BY <1>e, <1>2, <3>1 DEF Ending
  <2>2. CASE ReportStop(c)
    <3>1. /\ link'[c] = "down"
          /\ \A d \in Channels : d # c => reports'[d] = reports[d] /\ link'[d] = link[d]
      BY <1>1, <2>2, StopHeard
    <3> QED
      BY <1>2, <3>1 DEF Ending
  <2> QED
    BY <1>4, <2>1, <2>2 DEF Report
<1>5. ASSUME NEW c \in Channels, Network(c) PROVE Ending'
  <2>1. /\ link[c] # "down" /\ UNCHANGED reports
        /\ \A d \in Channels : d # c => link'[d] = link[d]
    BY <1>1, <1>5 DEF Network, Connect, Lose, Types
  <2> QED
    BY <1>2, <2>1 DEF Ending
<1> QED
  BY <1>1, <1>3, <1>4, <1>5, LinkMoves

\* A service that is down stays down until one is asked for, and without it no
\* command comes and no vote.
LEMMA RestStays ==
    ASSUME Whole, Resting, [Next]_vars, ~Boarding, ~Reboot
    PROVE  /\ Resting'
           /\ cmd = NoCmd /\ votes = {} => cmd' = NoCmd /\ votes' = {}
<1>1. QueueOK /\ TypeOK /\ Reports /\ AllDown /\ ~Has(queue, "start")
  BY TypesUnfolded DEF Whole, Resting
<1>2. ~Has(queue', "start")
  BY <1>1, QueueMoves, Taken, Sending DEF SentBy
<1>3. AllDown'
  <2>1. ASSUME NEW c \in Channels, ReportStart(c) PROVE AllDown'
    BY <1>1, <2>1, StartHeard DEF AllDown
  <2>2. ASSUME NEW c \in Channels, ReportStop(c) PROVE AllDown'
    BY <1>1, <2>2, StopHeard DEF AllDown
  <2>3. ASSUME NEW c \in Channels PROVE ~Network(c)
    BY <1>1 DEF Network, Connect, Lose, AllDown
  <2>4. ASSUME UNCHANGED link PROVE AllDown'
    BY <1>1, <2>4 DEF AllDown
  <2> QED
    BY <1>1, <2>1, <2>2, <2>3, <2>4, LinkMoves DEF Report
<1>4. ASSUME cmd = NoCmd, votes = {} PROVE cmd' = NoCmd /\ votes' = {}
  <2>1. CASE CoreStep
    BY <1>4, <2>1 DEF CoreStep, HandleStart, HandleNote, HandleConnected, Closed,
                      HandleStop, HandleDisconnected, HandleStopResponse, SendKeepalive,
                      coreVars
  <2>2. ~Receive
    BY <1>1 DEF Receive, AllDown, Channels
  <2>3. ~CmdStep
    BY <1>4, CmdParts DEF CmdStep, Vote, TurnedOn, TurnedOff, Queried
  <2>4. CASE \E c \in Channels : Report(c) \/ Network(c) \/ Update(c)
    BY <1>4, <2>4, ChannelLeaves
  <2>5. CASE TimerStep \/ Console \/ UNCHANGED vars
    BY <1>4, <2>5 DEF TimerStep, Expire, FlagStop, Console, SetInterval, vars,
                      keepaliveVars, coreVars
  <2> QED
    BY <2>1, <2>2, <2>3, <2>4, <2>5 DEF Next
<1> QED
  BY <1>2, <1>3, <1>4 DEF Resting

\* With the flag set, the user comes only when nothing is on its way down.
LEMMA BoardsSettled ==
    ASSUME Whole, Sent, Undisturbed, Boarding
    PROVE  /\ ~Has(queue, "stop")
           /\ pending => /\ core = "idle" /\ ~Stopping
                         /\ ~Has(queue, "stopResponse") /\ ~Has(queue, "disconnected")
<1>1. ASSUME pending
      PROVE  /\ core = "idle" /\ ~Stopping /\ ~Has(queue, "stop")
             /\ ~Has(queue, "stopResponse") /\ ~Has(queue, "disconnected")
  <2>1. core = "idle" /\ Reported
        /\ \A e \in {"stop", "stopResponse", "disconnected"} : ~InQueue(e)
    BY <1>1 DEF Boarding, Undisturbed, Settled
  <2> QED
    BY <2>1, InQueueIs, NothingOwed
<1>2. ~pending => ~Has(queue, "stop")
  BY DEF Boarding, Undisturbed, Sent, Flagged
<1> QED
  BY <1>1, <1>2

\* No start behind a stop: while there is one, none is asked for.
LEMMA NoStartBehind ==
    ASSUME Whole, Sent, Released, Undisturbed, [Next]_vars
    PROVE  NoneBehind(queue', "stop", "start")
<1>1. QueueOK /\ TypeOK /\ NoneBehind(queue, "stop", "start")
  BY TypesUnfolded DEF Whole, Released
<1>2. ASSUME NEW e, Take(e) PROVE NoneBehind(queue', "stop", "start")
  BY <1>1, <1>2, TakenOrder
<1>3. ASSUME NEW m \in Message, SentBy(m) PROVE NoneBehind(queue', "stop", "start")
  <2>1. m.event = "start" => ~Has(queue, "stop")
    BY <1>3, BoardsSettled DEF SentBy
  <2> QED
    BY <1>1, <1>3, <2>1, SentOrder DEF SentBy
<1>4. CASE Reboot
  <2>1. ~Has(queue', "stop")
    BY <1>1, <1>4, BootMessages
  <2> QED
    BY <2>1 DEF Has, NoneBehind
<1> QED
  BY <1>1, <1>2, <1>3, <1>4, QueueMoves

\* The stop that set the flag is handled, and finds a service or none: either way
\* nothing begins.
LEMMA StopEnds ==
    ASSUME Whole, Released, HandleStop, pending'
    PROVE  ~Has(queue', "start") /\ Ending'
<1>1. Take("stop") /\ NetStop /\ QueueOK /\ Reported
  BY TypesUnfolded DEF HandleStop, Whole, Take
<1>2. ~Has(queue', "start")
  BY <1>1, TakenOrder DEF Released
<1>3. transport = None => AllDown
  BY Unserved DEF Whole
<1> QED
  BY <1>1, <1>2, <1>3, StoppedAll DEF Ending, AllDown

\* So it is with the loss of a connection, while the flag is left behind.
LEMMA LossEnds ==
    ASSUME Whole, NoneBehind(queue, "disconnected", "start"), HandleDisconnected
    PROVE  Ending'
<1>1. Take("disconnected") /\ QueueOK /\ Types /\ Reported
  BY TypesUnfolded DEF HandleDisconnected, Whole, Take
<1>2. ~Has(queue', "start")
  BY <1>1, TakenOrder
<1>3. transport = None => AllDown
  BY Unserved DEF Whole
<1>4. CASE NetStop
  BY <1>1, <1>2, <1>3, <1>4, StoppedAll DEF Ending, AllDown
<1>5. CASE service \notin Services /\ UNCHANGED transferVars
  <2>1. AllDown
    BY <1>1, <1>3, <1>5 DEF Whole, Links, Types
  <2> QED
    BY <1>2, <1>5, <2>1 DEF Ending, AllDown, transferVars
<1> QED
  BY <1>4, <1>5 DEF HandleDisconnected

\* It takes a stop or the loss of a connection for a service to go down.
LEMMA WhoGoesDown ==
    ASSUME Whole, [Next]_vars, ~GoingDown, GoingDown'
    PROVE  HandleDisconnected \/ HandleStop
<1>1. QueueOK /\ TypeOK /\ Reports
  BY TypesUnfolded DEF Whole
<1> SUFFICES ASSUME ~HandleDisconnected, ~HandleStop PROVE FALSE
  OBVIOUS
<1>e. <<>> # <<"stop">>
  OBVIOUS
<1>2. ~Stopping'
  <2>1. CASE UNCHANGED reports
    BY <2>1 DEF GoingDown, Stopping
  <2>2. CASE HandleStart /\ NetStart(service')
    BY <1>1, <2>2, StartedAll DEF HandleStart, Take
  <2>3. ASSUME NEW c \in Channels, Report(c) PROVE ~Stopping'
    BY <1>1, <2>3, StartHeard, StopHeard DEF Report, GoingDown
  <2>4. ASSUME NEW c \in Channels, Network(c) \/ Update(c) PROVE UNCHANGED reports
    BY <2>4, ChannelLeaves
  <2>5. CASE Reboot
    BY <1>e, <2>5 DEF Reboot, Stopping
  <2> QED
    BY <2>1, <2>2, <2>3, <2>4, <2>5, TransferMoves DEF transferVars
<1>3. core' # "closing"
  <2>1. CASE Closed \/ Receive \/ Reboot
    BY <2>1 DEF Closed, Receive, Reboot, GoingDown
  <2> QED
    BY <1>1, <2>1, ControlMoves DEF GoingDown
<1>4. ~Has(queue', "stopResponse")
  <2>1. ASSUME NEW m \in Message, Send(m), m.event # "stopResponse"
        PROVE  ~Has(queue', "stopResponse")
    BY <1>1, <2>1, Sending DEF GoingDown
  <2>2. ASSUME queue' = queue PROVE ~Has(queue', "stopResponse")
    BY <2>2 DEF GoingDown
  <2>3. ASSUME NEW e, Take(e) PROVE ~Has(queue', "stopResponse")
    BY <1>1, <2>3, Taken DEF GoingDown
  <2>4. CASE Reboot
    BY <1>1, <2>4, BootMessages
  <2>5. ASSUME NEW c \in Channels, Report(c) PROVE ~Has(queue', "stopResponse")
    <3>1. ~ReportStop(c)
      BY <1>1, StopHeard DEF GoingDown
    <3> QED
      BY <2>1, <2>2, <2>5, <3>1, MessageParts DEF Report, ReportStart
  <2>6. ASSUME NEW c \in Channels, Network(c) \/ Update(c)
        PROVE  ~Has(queue', "stopResponse")
    <3>1. CASE Network(c)
      BY <2>2, <3>1, ChannelLeaves
    <3>2. CASE Update(c)
      BY <2>1, <2>2, <3>2, MessageParts
         DEF Update, SetConnected, ClearConnected, LossEvent
    <3> QED
      BY <2>6, <3>1, <3>2
  <2>7. CASE TimerStep
    BY <2>1, <2>2, <2>7, MessageParts, TypesUnfolded
       DEF TimerStep, Expire, FlagStop, Whole, Types
  <2>8. CASE Boarding
    <3>1. \E s \in Services : Send(Start(s))
      BY <2>8 DEF Boarding
    <3> QED
      BY <2>1, <3>1, MessageParts
  <2> QED
    BY <2>2, <2>3, <2>4, <2>5, <2>6, <2>7, <2>8, SentMoves DEF HandleStopResponse
<1> QED
  BY <1>2, <1>3, <1>4 DEF GoingDown

\* The flag is set, and the stop that it was set for is handled in this step or
\* was before.
LEMMA StopHandled ==
    ASSUME Whole, Sent, Undisturbed, [Next]_vars, pending', ~Has(queue', "stop"),
           ~(pending /\ ~Has(queue, "stop"))
    PROVE  HandleStop
<1>1. QueueOK /\ TypeOK
  BY TypesUnfolded DEF Whole
<1>2. ~Reboot
  BY DEF Reboot, Booted
<1>3. ~UNCHANGED <<queue, pending>>
  OBVIOUS
<1>4. ASSUME UNCHANGED pending
      PROVE  ~(Has(queue, "stop") => Has(queue', "stop"))
  BY <1>4
<1>5. ASSUME NEW e \in {"start", "started", "bleOff", "imageOff", "connected",
                        "disconnected"},
             Take(e), UNCHANGED pending
      PROVE  FALSE
  BY <1>1, <1>4, <1>5, Taken
<1>6. ASSUME UNCHANGED pending, queue' = queue \/ \E m \in Message : SentBy(m)
      PROVE  FALSE
  BY <1>1, <1>4, <1>6, Sending DEF SentBy
<1>7. ASSUME NEW c \in Channels, Report(c) \/ Network(c) \/ Update(c) PROVE FALSE
  BY <1>6, <1>7, OthersSend, ChannelLeaves
<1>8. ~Boarding
  BY <1>6, OthersSend DEF Boarding
<1>9. ~TimerStep
  <2>1. TimerStep => ~FlagStop
    BY <1>1, <1>3 DEF FlagStop, Sent, Flagged
  <2>2. TimerStep => UNCHANGED pending
    BY <2>1, Expires DEF Sent, Undisturbed
  <2> QED
    BY <1>6, <2>2, OthersSend
<1>10. ~HandleStopResponse
  BY DEF HandleStopResponse
<1> QED
  BY <1>2, <1>3, <1>5, <1>7, <1>8, <1>9, <1>10, SentMoves

LEMMA PendingEnds ==
    ASSUME Whole, Sent, Released, Undisturbed, [Next]_vars, pending', ~Has(queue', "stop")
    PROVE  NoneBehind(queue', "disconnected", "start") /\ (GoingDown' => Ending')
<1>1. QueueOK /\ TypeOK
  BY TypesUnfolded DEF Whole
<1>2. ~Reboot
  BY DEF Reboot, Booted
<1>3. CASE HandleStop
  BY <1>3, StopEnds, NoneToFollow
<1>4. CASE pending /\ ~Has(queue, "stop") /\ ~HandleStop
  <2>1. NoneBehind(queue, "disconnected", "start") /\ (GoingDown => Ending)
    BY <1>4 DEF Released
  <2>2. Boarding => ~GoingDown /\ ~Has(queue, "disconnected")
    BY <1>4, BoardsSettled DEF GoingDown
  <2>3. NoneBehind(queue', "disconnected", "start")
    BY <1>1, <1>2, <2>1, <2>2, QueueMoves, TakenOrder, SentOrder DEF SentBy
  <2>4. CASE GoingDown
    BY <1>2, <2>1, <2>2, <2>3, <2>4, EndingStays
  <2>5. CASE ~GoingDown
    BY <1>4, <2>1, <2>3, <2>5, WhoGoesDown, LossEnds
  <2> QED
    BY <2>4, <2>5
<1> QED
  BY <1>3, <1>4, StopHandled

\* The hand-over begins at rest and stays there until the power is cut.
LEMMA HandOverRests ==
    ASSUME Whole, Sent, Released, Undisturbed, [Next]_vars,
           core' = "handover" \/ power' = "leaving"
    PROVE  Resting' /\ cmd' = NoCmd /\ votes' = {}
<1>1. QueueOK /\ TypeOK
  BY TypesUnfolded DEF Whole
<1>2. ~Reboot
  BY DEF Reboot
<1>3. CASE core = "handover" \/ power = "leaving"
  <2>1. Resting /\ cmd = NoCmd /\ votes = {} /\ ~Boarding
    BY <1>3 DEF Released, Boarding, Undisturbed
  <2> QED
    BY <1>2, <2>1, RestStays
<1>4. CASE ~(core = "handover" \/ power = "leaving")
  <2>1. HandleStopResponse /\ pending /\ votes = {}
    <3>1. CASE CoreStep
      BY <1>4, <3>1 DEF CoreStep, HandleStart, HandleNote, HandleConnected, Closed,
                        HandleStop, HandleDisconnected, HandleStopResponse, SendKeepalive,
                        coreVars, Take
    <3>2. CASE Receive \/ CmdStep
      BY <1>4, <3>2 DEF Receive, CmdStep, Vote, TurnedOn, TurnedOff, Queried, Done
    <3>3. CASE \/ \E c \in Channels : Report(c) \/ Network(c) \/ Update(c)
               \/ TimerStep \/ Console \/ Boarding \/ UNCHANGED vars
      BY <1>4, <3>3, ChannelLeaves DEF TimerStep, Console, Boarding, coreVars, vars
    <3> QED
      BY <1>2, <3>1, <3>2, <3>3 DEF Next
  <2>2. Take("stopResponse") /\ UNCHANGED <<cmd, votes, transferVars>> /\ Reported
    BY <2>1 DEF HandleStopResponse, Take
  <2>3. ~Has(queue, "stop") /\ Has(queue, "stopResponse")
    <3>1. ~Has(queue', "stop")
      BY <1>1, <2>2, TakenOrder DEF Sent, Flagged
    <3> QED
      BY <1>1, <2>2, <3>1, Taken
  <2>4. AllDown /\ ~Has(queue, "start")
    <3>1. Ending
      BY <2>1, <2>3 DEF Released, GoingDown
    <3>2. <<>> # <<"stop">>
      OBVIOUS
    <3> QED
      BY <2>2, <3>1, <3>2 DEF Ending, AllDown, Reported
  <2>5. AllDown' /\ ~Has(queue', "start")
    BY <1>1, <2>2, <2>4, Taken DEF AllDown, transferVars
  <2>6. cmd = NoCmd
    BY <2>4 DEF Whole, Links, AllDown, Channels
  <2> QED
    BY <2>1, <2>2, <2>5, <2>6 DEF Resting
<1> QED
  BY <1>3, <1>4

LEMMA ReleasedAlways == ASSUME Undisturbed PROVE Spec => []Released
<1>1. Init => Released
  BY DEF Init, KeepaliveInit, TransferInit, Released, NoneBehind
<1>2. Whole /\ Sent /\ Released /\ [Next]_vars => Released'
  BY NoStartBehind, PendingEnds, HandOverRests DEF Released
<1>3. Punctual
  BY DEF Undisturbed
<1> QED
  BY <1>1, <1>2, <1>3, WholeAlways, SentAlways, PTL DEF Spec

\* doorbell_keepalive_send_keepalive: the CP is told to cut the power only when no
\* media service votes and, but for the audio, none is on; no vote, no command and
\* no new service slips in between the check and the loss of power.
THEOREM OnlyIdleIsHandedOver ==
    ASSUME Undisturbed
    PROVE  Spec => []HandedOverIdle
<1>1. Whole /\ Released => HandedOverIdle
  BY DEF Whole, Voted, RunningIsVoted, Released, HandedOverIdle
<1> QED
  BY <1>1, WholeAlways, ReleasedAlways, PTL

=============================================================================
