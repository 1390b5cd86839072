------------------------ MODULE DownlinkVideo_proofs ------------------------
(***************************************************************************)
(* The downlink loses no slot, uses nothing it has torn down and decodes   *)
(* over no loss that was told in time, for any number of slots, as long as *)
(* no access unit is being stored while the pipeline is torn down and a    *)
(* decode task that has signalled leaves before the next is created.       *)
(***************************************************************************)
EXTENDS DownlinkVideo, QueueLemmas

ControlTyped ==
    /\ recv \in Receiver /\ gap \in Losses
    /\ dl \in Shared /\ dec \in Decoder /\ gone \in BOOLEAN /\ ctl \in Controller

\* TypeOK but for the lengths of the queues, which follow from Places.
Typed ==
    /\ up \in BOOLEAN
    /\ free \in Seq(Slots) /\ ready \in Seq(Slots)
    /\ unit \in [Slots -> Unit]
    /\ ControlTyped

Active == dec.pc \notin {"none", "signalled"}

Holding == dec.slot # NoSlot <=> dec.pc \in {"mark", "gate", "decode", "give"}

\* SlotsAccounted, queue by queue.
Places ==
    /\ IsInjective(free) /\ IsInjective(ready)
    /\ Range(free) \cap Range(ready) = {}
    /\ up => Range(free) \cup Range(ready) = Slots \ Hands
    /\ ~up => free = <<>> /\ ready = <<>> /\ recv.slot = NoSlot
    /\ recv.slot = dec.slot => Hands = {}

\* What the command thread knows of the decode task and of the pool: the done
\* semaphore and s_dl.task tell it that no task is at work.
Tenancy ==
    /\ ~gone
    /\ dl.handle <=> dec.pc # "none"
    /\ Active => dl.running /\ ~dl.done
    /\ dl.stop \/ dl.done => ctl.pc \in {"stop", "join", "teardown", "stopped"}
    /\ ctl.pc \in {"stop", "join", "teardown", "stopped"} => dl.running
    /\ ctl.pc \in {"start", "launch"} => ~dl.running
    /\ ctl.pc \in {"stop", "join", "teardown", "launch"} => up
    /\ ctl.pc \in {"stopped", "start"} => ~up
    /\ ctl.pc = "idle" => (up <=> dl.running)
    /\ ctl.pc \in {"teardown", "stopped", "start", "launch"} => ~Active
    /\ ctl.pc = "launch" => recv.slot = NoSlot

SlotInv == Typed /\ Holding /\ Places /\ Tenancy

\* What the theorems assume of the environment.
Punctual == "midframe" \notin Faults /\ "preempt" \notin Faults

LEMMA UpWhenActive == Tenancy /\ Typed /\ Active => up
BY DEF Tenancy, Typed, ControlTyped, Controller, Active

LEMMA Fits ==
    ASSUME Typed, Places
    PROVE  Len(free) <= Size /\ Len(ready) <= Size
<1>1. Range(free) \subseteq Slots /\ Range(ready) \subseteq Slots
  BY OnceMeans DEF Typed
<1> QED
  BY <1>1, PoolAssumption, NotLonger DEF Typed, Places, Size

LEMMA InvGives == SlotInv => TypeOK /\ SlotsAccounted /\ TornDownUnused
<1> SUFFICES ASSUME SlotInv PROVE TypeOK /\ SlotsAccounted /\ TornDownUnused
  OBVIOUS
<1>1. TypeOK
  BY Fits DEF SlotInv, Typed, ControlTyped, TypeOK, PoolTypeOK
<1>2. /\ Range(free \o ready) = Range(free) \cup Range(ready)
      /\ IsInjective(free \o ready)
  BY Joined DEF SlotInv, Typed, Places
<1>3. SlotsAccounted
  BY <1>1, <1>2 DEF SlotInv, Places, SlotsAccounted
<1>4. TornDownUnused
  BY UpWhenActive DEF SlotInv, Tenancy, Holding, Active, TornDownUnused
<1> QED
  BY <1>1, <1>3, <1>4

LEMMA InitInv == Init => SlotInv
<1> SUFFICES ASSUME Init PROVE SlotInv
  OBVIOUS
<1>1. up = FALSE /\ free = <<>> /\ ready = <<>> /\ unit = [s \in Slots |-> Blank]
  BY DEF Init, PoolInit
<1>2. /\ recv = [slot |-> NoSlot, kind |-> "p"] /\ gap = "untold"
      /\ dl = [running |-> FALSE, stop |-> FALSE, handle |-> FALSE,
               done |-> FALSE, broken |-> FALSE]
      /\ dec = NoTask /\ gone = FALSE
      /\ ctl = [pc |-> "idle", again |-> FALSE]
  BY DEF Init
<1>3. unit \in [Slots -> Unit] /\ free \in Seq(Slots) /\ ready \in Seq(Slots)
  BY <1>1 DEF Unit, Blank, Kinds, Losses
<1>4. ControlTyped
  BY <1>2 DEF ControlTyped, Receiver, Kinds, Losses, Shared, Decoder, NoTask, Controller
<1>5. Holding /\ Hands = {}
  BY <1>2 DEF Holding, Hands, NoTask
<1>6. Places
  BY <1>1, <1>2, <1>5, EmptyQueue DEF Places
<1>7. Tenancy
  BY <1>1, <1>2 DEF Tenancy, Active, NoTask
<1> QED
  BY <1>1, <1>3, <1>4, <1>5, <1>6, <1>7 DEF SlotInv, Typed

-----------------------------------------------------------------------------
(* Types.                                                                  *)

LEMMA PoolTypeStep == Typed /\ Holding /\ [Next]_vars =>
    /\ up' \in BOOLEAN
    /\ free' \in Seq(Slots) /\ ready' \in Seq(Slots)
    /\ unit' \in [Slots -> Unit]
<1> SUFFICES ASSUME Typed, Holding, [Next]_vars
             PROVE  /\ up' \in BOOLEAN
                    /\ free' \in Seq(Slots) /\ ready' \in Seq(Slots)
                    /\ unit' \in [Slots -> Unit]
  OBVIOUS
<1> USE DEF Typed
<1>1. Blank \in Unit /\ [s \in Slots |-> Blank] \in [Slots -> Unit]
  BY DEF Unit, Blank, Kinds, Losses
<1>2. CASE Receive
  <2>1. CASE RecvIgnored \/ RecvLost \/ RecvDropped
    BY <2>1 DEF RecvIgnored, RecvLost, RecvDropped, poolVars
  <2>2. ASSUME NEW k \in Kinds, RecvTake(k)
        PROVE  free' \in Seq(Slots) /\ UNCHANGED <<up, ready, unit>>
    BY <2>2, Unstacked DEF RecvTake, CanTake, TakeFree
  <2>3. CASE RecvPush
    <3>1. recv.slot \in Slots /\ [kind |-> recv.kind, after |-> gap] \in Unit
      BY <2>3 DEF RecvPush, ControlTyped, Receiver, Unit
    <3>2. Append(ready, recv.slot) \in Seq(Slots)
      BY <3>1
    <3> QED
      BY <2>3, <3>1, <3>2 DEF RecvPush, PushReady
  <2> QED
    BY <1>2, <2>1, <2>2, <2>3 DEF Receive
<1>3. CASE Decode
  <2>1. CASE DecPop
    BY <2>1, Popped DEF DecPop, PopReady
  <2>2. CASE DecGive
    <3>1. dec.slot \in Slots
      BY <2>2 DEF DecGive, Holding, ControlTyped, Decoder
    <3>2. Append(free, dec.slot) \in Seq(Slots)
      BY <3>1
    <3> QED
      BY <1>1, <2>2, <3>1, <3>2 DEF DecGive, GiveBack
  <2>3. CASE UNCHANGED poolVars
    BY <2>3 DEF poolVars
  <2> QED
    BY <1>3, <2>1, <2>2, <2>3 DEF Decode, DecTimeout, DecMark, DecSkip, DecPass,
       DecDecoded, DecFailed, DecExit, DecLeave
<1>4. CASE Configure \/ FindTask \/ Join \/ Stopped \/ Launch
  BY <1>4 DEF Configure, FindTask, Join, Stopped, Launch, poolVars
<1>5. CASE Teardown \/ StartFails
  <2>1. up' = FALSE /\ free' = <<>> /\ ready' = <<>> /\ unit' = [s \in Slots |-> Blank]
    BY <1>5 DEF Teardown, StartFails, PoolClose
  <2>2. <<>> \in Seq(Slots)
    OBVIOUS
  <2> QED
    BY <1>1, <2>1, <2>2
<1>6. CASE StartPool
  <2>1. SetToSeq(Slots) \in Seq(Slots)
    BY PoolAssumption, Filled
  <2> QED
    BY <1>1, <1>6, <2>1 DEF StartPool, PoolOpen
<1>7. CASE UNCHANGED vars
  BY <1>7 DEF vars, poolVars
<1> QED
  BY <1>2, <1>3, <1>4, <1>5, <1>6, <1>7 DEF Next, Carry

LEMMA ControlTypeStep == Typed /\ [Next]_vars => ControlTyped'
<1> SUFFICES ASSUME Typed, [Next]_vars PROVE ControlTyped'
  OBVIOUS
<1> USE DEF Typed
<1>1. CASE Receive
  <2>1. gap' \in Losses
    BY <1>1 DEF Receive, RecvIgnored, RecvLost, RecvDropped, RecvTake, RecvPush,
                Lose, Losses, ControlTyped
  <2>2. recv' \in Receiver
    <3>1. ASSUME NEW k \in Kinds, RecvTake(k) PROVE recv' \in Receiver
      <4>1. Last(free) \in Slots
        BY <3>1, Unstacked DEF RecvTake, CanTake
      <4> QED
        BY <3>1, <4>1 DEF RecvTake, Receiver
    <3>2. CASE RecvPush
      BY <3>2 DEF RecvPush, Receiver, ControlTyped
    <3> QED
      BY <1>1, <3>1, <3>2 DEF Receive, RecvIgnored, RecvLost, RecvDropped, ControlTyped
  <2>3. dl' \in Shared
    <3>1. CASE RecvDropped
      BY <3>1 DEF RecvDropped, Shared, ControlTyped
    <3>2. CASE dl' = dl
      BY <3>2 DEF ControlTyped
    <3> QED
      BY <1>1, <3>1, <3>2 DEF Receive, RecvIgnored, RecvLost, RecvTake, RecvPush
  <2>4. UNCHANGED <<dec, gone, ctl>>
    BY <1>1 DEF Receive, RecvIgnored, RecvLost, RecvDropped, RecvTake, RecvPush
  <2> QED
    BY <2>1, <2>2, <2>3, <2>4 DEF ControlTyped
<1>2. CASE Decode
  <2>1. dec' \in Decoder
    <3> USE DEF ControlTyped, Decoder
    <3>1. CASE DecPop
      <4>1. Head(ready) \in Slots
        BY <3>1, Popped DEF DecPop, PopReady
      <4> QED
        BY <3>1, <4>1 DEF DecPop
    <3>2. CASE DecTimeout
      BY <3>2 DEF DecTimeout
    <3>3. CASE DecMark
      <4>1. dec.wait \/ dl.broken \in BOOLEAN
        BY DEF Shared
      <4> QED
        BY <3>3, <4>1 DEF DecMark
    <3>4. CASE DecSkip \/ DecPass
      BY <3>4 DEF DecSkip, DecPass
    <3>5. CASE DecDecoded
      <4>1. (IF RefSound THEN "good" ELSE "garbage") \in {"good", "garbage", "missing"}
        OBVIOUS
      <4> QED
        BY <3>5, <4>1 DEF DecDecoded
    <3>6. CASE DecFailed
      BY <3>6 DEF DecFailed
    <3>7. CASE DecGive
      BY <3>7 DEF DecGive
    <3>8. CASE DecExit
      BY <3>8 DEF DecExit
    <3>9. CASE DecLeave
      BY <3>9 DEF DecLeave, NoTask
    <3> QED
      BY <1>2, <3>1, <3>2, <3>3, <3>4, <3>5, <3>6, <3>7, <3>8, <3>9 DEF Decode
  <2>2. dl' \in Shared
    <3>1. CASE DecMark
      BY <3>1 DEF DecMark, Shared, ControlTyped
    <3>2. CASE DecExit
      BY <3>2 DEF DecExit, Shared, ControlTyped
    <3>3. CASE DecLeave
      BY <3>3 DEF DecLeave, Shared, ControlTyped
    <3>4. CASE dl' = dl
      BY <3>4 DEF ControlTyped
    <3> QED
      BY <1>2, <3>1, <3>2, <3>3, <3>4 DEF Decode, DecPop, DecTimeout, DecSkip,
         DecPass, DecDecoded, DecFailed, DecGive
  <2>3. gone' \in BOOLEAN /\ UNCHANGED <<recv, gap, ctl>>
    BY <1>2 DEF Decode, DecPop, DecTimeout, DecMark, DecSkip, DecPass, DecDecoded,
                DecFailed, DecGive, DecExit, DecLeave, ControlTyped
  <2> QED
    BY <2>1, <2>2, <2>3 DEF ControlTyped
<1>3. CASE Configure \/ Carry
  <2>1. UNCHANGED <<recv, gap>>
    BY <1>3 DEF Configure, Carry, FindTask, Join, Teardown, Stopped, StartPool,
                StartFails, Launch
  <2>2. dl' \in Shared
    <3> USE DEF ControlTyped, Shared
    <3>1. CASE Configure
      BY <3>1 DEF Configure
    <3>2. CASE Join
      BY <3>2 DEF Join
    <3>3. CASE Stopped
      BY <3>3 DEF Stopped
    <3>4. CASE Launch
      BY <3>4 DEF Launch
    <3> QED
      BY <1>3, <3>1, <3>2, <3>3, <3>4
         DEF Carry, FindTask, Teardown, StartPool, StartFails
  <2>3. ctl' \in Controller
    <3> USE DEF ControlTyped, Controller
    <3>1. CASE Configure
      <4>1. PICK again \in BOOLEAN :
               \/ ctl' = [pc |-> "stop", again |-> again]
               \/ ctl' = [pc |-> "start", again |-> TRUE]
        BY <3>1 DEF Configure
      <4>2. CASE ctl' = [pc |-> "stop", again |-> again]
        BY <4>2
      <4>3. CASE ctl' = [pc |-> "start", again |-> TRUE]
        BY <4>3
      <4> QED
        BY <4>1, <4>2, <4>3
    <3>2. CASE FindTask
      BY <3>2 DEF FindTask
    <3>3. CASE Stopped
      BY <3>3 DEF Stopped
    <3>4. CASE Join \/ Teardown
      BY <3>4 DEF Join, Teardown
    <3>5. CASE StartPool \/ StartFails \/ Launch
      BY <3>5 DEF StartPool, StartFails, Launch
    <3> QED
      BY <1>3, <3>1, <3>2, <3>3, <3>4, <3>5 DEF Carry
  <2>4. dec' \in Decoder /\ gone' \in BOOLEAN
    <3>1. CASE Launch
      BY <3>1 DEF Launch, Decoder, NoTask
    <3> QED
      BY <1>3, <3>1 DEF Configure, Carry, FindTask, Join, Teardown, Stopped,
                        StartPool, StartFails, ControlTyped
  <2> QED
    BY <2>1, <2>2, <2>3, <2>4 DEF ControlTyped
<1>4. CASE UNCHANGED vars
  BY <1>4 DEF vars, threadVars, ControlTyped
<1> QED
  BY <1>1, <1>2, <1>3, <1>4 DEF Next

LEMMA TypeStep == Typed /\ Holding /\ [Next]_vars => Typed'
BY PoolTypeStep, ControlTypeStep DEF Typed

-----------------------------------------------------------------------------
(* Who may use what.                                                       *)

LEMMA WorkStaysActive ==
    ASSUME dec \in Decoder,
           \/ DecPop \/ DecTimeout \/ DecMark \/ DecSkip \/ DecPass
           \/ DecDecoded \/ DecFailed \/ DecGive
    PROVE  Active /\ Active'
<1>2. CASE DecPop
  BY <1>2 DEF DecPop, Active, Decoder
<1>3. CASE DecTimeout
  BY <1>3 DEF DecTimeout, Active, Decoder
<1>4. CASE DecMark
  BY <1>4 DEF DecMark, Active, Decoder
<1>5. CASE DecSkip
  BY <1>5 DEF DecSkip, Active, Decoder
<1>6. CASE DecPass
  BY <1>6 DEF DecPass, Active, Decoder
<1>7. CASE DecDecoded
  BY <1>7 DEF DecDecoded, Active, Decoder
<1>8. CASE DecFailed
  BY <1>8 DEF DecFailed, Active, Decoder
<1>9. CASE DecGive
  BY <1>9 DEF DecGive, Active, Decoder
<1> QED
  BY <1>2, <1>3, <1>4, <1>5, <1>6, <1>7, <1>8, <1>9

LEMMA TenancyStep ==
    ASSUME Punctual, SlotInv, Typed', [Next]_vars
    PROVE  Tenancy'
<1> USE DEF SlotInv, Typed, ControlTyped, Shared, Decoder, Controller, Tenancy,
            Active, Punctual
<1>1. CASE Receive
  <2>1. /\ UNCHANGED <<up, dec, gone, ctl>>
        /\ dl'.running = dl.running /\ dl'.stop = dl.stop
        /\ dl'.handle = dl.handle /\ dl'.done = dl.done
    BY <1>1 DEF Receive, RecvIgnored, RecvLost, RecvDropped, RecvTake, RecvPush,
                poolVars, TakeFree, PushReady
  <2>2. ctl.pc = "launch" => recv'.slot = NoSlot
    BY <1>1 DEF Receive, RecvIgnored, RecvLost, RecvDropped, RecvTake, RecvPush
  <2> QED
    BY <2>1, <2>2
<1>2. CASE Decode
  <2>1. UNCHANGED <<up, recv, ctl>>
    BY <1>2 DEF Decode, DecPop, DecTimeout, DecMark, DecSkip, DecPass, DecDecoded,
                DecFailed, DecGive, DecExit, DecLeave, poolVars, PopReady, GiveBack
  <2>2. CASE DecExit
    <3>1. /\ dec.pc = "pop" /\ dl.stop
          /\ dl'.done = TRUE /\ dec'.pc = "signalled" /\ gone' = gone
          /\ dl'.running = dl.running /\ dl'.stop = dl.stop /\ dl'.handle = dl.handle
      BY <2>2 DEF DecExit
    <3> QED
      BY <2>1, <3>1
  <2>3. CASE DecLeave
    <3>1. /\ dec.pc = "signalled" /\ dec'.pc = "none"
          /\ dl'.handle = FALSE /\ gone' = FALSE
          /\ dl'.running = dl.running /\ dl'.stop = dl.stop /\ dl'.done = dl.done
      BY <2>3 DEF DecLeave, NoTask
    <3> QED
      BY <2>1, <3>1
  <2>4. CASE ~DecExit /\ ~DecLeave
    <3>1. Active /\ Active'
      BY <1>2, <2>4, WorkStaysActive DEF Decode
    <3>2. /\ gone' = gone
          /\ dl'.running = dl.running /\ dl'.stop = dl.stop
          /\ dl'.handle = dl.handle /\ dl'.done = dl.done
      BY <1>2, <2>4 DEF Decode, DecPop, DecTimeout, DecMark, DecSkip, DecPass,
                        DecDecoded, DecFailed, DecGive
    <3> QED
      BY <2>1, <3>1, <3>2
  <2> QED
    BY <2>2, <2>3, <2>4
<1>3. CASE Configure
  <2>1. UNCHANGED <<up, recv, dec, gone>>
    BY <1>3 DEF Configure, poolVars
  <2>2. CASE dl.running
    <3>1. ctl.pc = "idle" /\ ctl'.pc = "stop" /\ dl' = [dl EXCEPT !.stop = TRUE]
      BY <1>3, <2>2 DEF Configure
    <3>2. /\ dl'.running = dl.running /\ dl'.handle = dl.handle
          /\ dl'.done = dl.done
      BY <3>1
    <3> QED
      BY <2>1, <2>2, <3>1, <3>2
  <2>3. CASE ~dl.running
    <3>1. ctl.pc = "idle" /\ ctl'.pc = "start" /\ dl' = dl
      BY <1>3, <2>3 DEF Configure
    <3> QED
      BY <2>1, <2>3, <3>1
  <2> QED
    BY <2>2, <2>3
<1>4. CASE FindTask
  BY <1>4 DEF FindTask, poolVars
<1>5. CASE Join
  <2>1. /\ ctl.pc = "join" /\ ctl'.pc = "teardown" /\ dl.done /\ dl'.done = FALSE
        /\ dl'.running = dl.running /\ dl'.stop = dl.stop /\ dl'.handle = dl.handle
        /\ UNCHANGED <<up, recv, dec, gone>>
    BY <1>5 DEF Join, poolVars
  <2> QED
    BY <2>1
<1>6. CASE Teardown
  BY <1>6 DEF Teardown, PoolClose
<1>7. CASE Stopped
  <2>1. /\ ctl.pc = "stopped" /\ ctl'.pc \in {"start", "idle"}
        /\ dl'.running = FALSE /\ dl'.stop = FALSE /\ dl'.done = FALSE
        /\ dl'.handle = dl.handle
        /\ UNCHANGED <<up, recv, dec, gone>>
    BY <1>7 DEF Stopped, poolVars
  <2> QED
    BY <2>1
<1>8. CASE StartPool
  <2>1. recv.slot = NoSlot
    BY <1>8 DEF StartPool, Places
  <2> QED
    BY <1>8, <2>1 DEF StartPool, PoolOpen
<1>9. CASE StartFails
  BY <1>9 DEF StartFails, PoolClose
<1>10. CASE Launch
  <2>1. /\ ctl.pc = "launch" /\ ctl'.pc = "idle" /\ dec.pc = "none" /\ dec'.pc = "pop"
        /\ gone' = FALSE
        /\ dl'.running /\ ~dl'.stop /\ dl'.handle /\ dl'.done = dl.done
        /\ UNCHANGED <<up, recv>>
    BY <1>10 DEF Launch, NoTask, poolVars
  <2> QED
    BY <2>1
<1>11. CASE UNCHANGED vars
  BY <1>11 DEF vars, poolVars, threadVars
<1> QED
  BY <1>1, <1>2, <1>3, <1>4, <1>5, <1>6, <1>7, <1>8, <1>9, <1>10, <1>11
     DEF Next, Carry

-----------------------------------------------------------------------------
(* Where the slots are.                                                    *)

LEMMA HoldingStep == Typed /\ Holding /\ [Next]_vars => Holding'
<1> SUFFICES ASSUME Typed, Holding, [Next]_vars PROVE Holding'
  OBVIOUS
<1> USE DEF Typed, ControlTyped, Decoder, Holding
<1>1. CASE dec' = dec
  BY <1>1
<1>2. CASE DecPop
  <2>1. Head(ready) \in Slots
    BY <1>2, Popped DEF DecPop, PopReady
  <2> QED
    BY <1>2, <2>1, PoolAssumption DEF DecPop
<1>3. CASE DecTimeout
  BY <1>3 DEF DecTimeout
<1>4. CASE DecMark
  BY <1>4 DEF DecMark
<1>5. CASE DecSkip \/ DecPass
  BY <1>5 DEF DecSkip, DecPass
<1>6. CASE DecDecoded
  BY <1>6 DEF DecDecoded
<1>7. CASE DecFailed
  BY <1>7 DEF DecFailed
<1>8. CASE DecGive
  BY <1>8 DEF DecGive
<1>9. CASE DecExit
  BY <1>9 DEF DecExit
<1>10. CASE DecLeave
  BY <1>10 DEF DecLeave, NoTask
<1>11. CASE Launch
  BY <1>11 DEF Launch, NoTask
<1>12. \/ dec' = dec \/ Decode \/ Launch
  BY DEF Next, Receive, Configure, Carry, RecvIgnored, RecvLost, RecvDropped,
         RecvTake, RecvPush, FindTask, Join, Teardown, Stopped, StartPool,
         StartFails, vars, threadVars
<1> QED
  BY <1>1, <1>2, <1>3, <1>4, <1>5, <1>6, <1>7, <1>8, <1>9, <1>10, <1>11, <1>12
     DEF Decode

\* Steps that move no slot.
Calm ==
    /\ UNCHANGED <<up, free, ready>>
    /\ recv'.slot = recv.slot /\ dec'.slot = dec.slot

LEMMA CalmKeeps == Places /\ Calm => Places'
<1> SUFFICES ASSUME Places, Calm PROVE Places'
  OBVIOUS
<1>1. Hands' = Hands
  BY DEF Calm, Hands
<1> QED
  BY <1>1 DEF Calm, Places

LEMMA CalmSteps ==
    ASSUME SlotInv, Punctual,
           \/ RecvIgnored \/ RecvLost \/ RecvDropped
           \/ DecTimeout \/ DecMark \/ DecSkip \/ DecPass \/ DecDecoded
           \/ DecFailed \/ DecExit \/ DecLeave
           \/ Configure \/ FindTask \/ Join \/ Stopped \/ Launch
           \/ UNCHANGED vars
    PROVE  Calm
<1> USE DEF SlotInv, Typed, ControlTyped, Decoder, Calm, poolVars
<1>1. CASE \/ RecvIgnored \/ RecvLost \/ RecvDropped \/ Configure \/ FindTask
           \/ Join \/ Stopped \/ UNCHANGED vars
  BY <1>1 DEF RecvIgnored, RecvLost, RecvDropped, Configure, FindTask, Join,
              Stopped, vars, threadVars
<1>2. CASE DecTimeout \/ DecMark \/ DecSkip \/ DecPass
  BY <1>2 DEF DecTimeout, DecMark, DecSkip, DecPass
<1>3. CASE DecDecoded \/ DecFailed \/ DecExit
  BY <1>3 DEF DecDecoded, DecFailed, DecExit
<1>4. CASE DecLeave
  <2>1. dec.pc = "signalled" /\ ~gone
    BY <1>4 DEF DecLeave, Tenancy
  <2>2. dec.slot = NoSlot
    BY <2>1 DEF Holding
  <2> QED
    BY <1>4, <2>1, <2>2 DEF DecLeave, NoTask
<1>5. CASE Launch
  <2>1. dec.pc = "none" /\ dec.slot = NoSlot
    BY <1>5 DEF Launch, Punctual, Holding
  <2> QED
    BY <1>5, <2>1 DEF Launch, NoTask
<1> QED
  BY <1>1, <1>2, <1>3, <1>4, <1>5

\* The receiver takes a slot, and the decode task one that is filled.
LEMMA TakeKeeps ==
    ASSUME SlotInv, (\E k \in Kinds : RecvTake(k)) \/ DecPop
    PROVE  Places'
<1> USE DEF SlotInv, Typed, ControlTyped, Receiver, Decoder
<1>1. CASE \E k \in Kinds : RecvTake(k)
  <2>1. /\ recv.slot = NoSlot /\ up /\ free # <<>>
        /\ free' = Front(free) /\ UNCHANGED <<up, ready, dec>>
        /\ recv'.slot = Last(free)
    BY <1>1 DEF RecvTake, CanTake, TakeFree
  <2>2. /\ Last(free) \in Slots /\ Last(free) \in Range(free)
        /\ IsInjective(Front(free))
        /\ Range(Front(free)) = Range(free) \ {Last(free)}
    BY <2>1, Unstacked DEF Places
  <2>3. /\ Last(free) \notin Hands /\ Last(free) # NoSlot
        /\ Hands' = Hands \cup {Last(free)}
    BY <2>1, <2>2, PoolAssumption DEF Hands, Places
  <2>4. recv'.slot # dec'.slot
    BY <2>1, <2>3 DEF Hands
  <2> QED
    BY <2>1, <2>2, <2>3, <2>4 DEF Places
<1>2. CASE DecPop
  <2>1. /\ dec.pc = "pop" /\ up /\ ready # <<>>
        /\ ready' = Tail(ready) /\ UNCHANGED <<up, free, recv>>
        /\ dec'.slot = Head(ready)
    BY <1>2 DEF DecPop, PopReady
  <2>2. /\ Head(ready) \in Slots /\ Head(ready) \in Range(ready)
        /\ IsInjective(Tail(ready))
        /\ Range(Tail(ready)) = Range(ready) \ {Head(ready)}
    BY <2>1, Popped DEF Places
  <2>3. dec.slot = NoSlot
    BY <2>1 DEF Holding
  <2>4. /\ Head(ready) \notin Hands /\ Head(ready) # NoSlot
        /\ Hands' = Hands \cup {Head(ready)}
    BY <2>1, <2>2, <2>3, PoolAssumption DEF Hands, Places
  <2>5. recv'.slot # dec'.slot
    BY <2>1, <2>4 DEF Hands
  <2> QED
    BY <2>1, <2>2, <2>4, <2>5 DEF Places
<1> QED
  BY <1>1, <1>2

\* A slot in hand goes to one of the queues, which has room for it.
LEMMA GiveKeeps ==
    ASSUME SlotInv, RecvPush \/ DecGive
    PROVE  Places'
<1> USE DEF SlotInv, Typed, ControlTyped, Receiver, Decoder
<1>1. CASE RecvPush
  <2>1. recv.slot \in Slots /\ up
    BY <1>1 DEF RecvPush, Places
  <2>2. /\ recv.slot \in Hands /\ recv.slot # dec.slot
        /\ recv.slot \notin Range(free) /\ recv.slot \notin Range(ready)
    BY <2>1, PoolAssumption DEF Hands, Places
  <2>3. Len(ready) < Size
    BY <2>1, <2>2, PoolAssumption, Room DEF Places, Size
  <2>4. /\ ready' = Append(ready, recv.slot) /\ UNCHANGED <<up, free, dec>>
        /\ recv'.slot = NoSlot
    BY <1>1, <2>1, <2>3 DEF RecvPush, PushReady
  <2>5. IsInjective(ready') /\ Range(ready') = Range(ready) \cup {recv.slot}
    BY <2>1, <2>2, <2>4, Appended DEF Places
  <2>6. /\ Hands' = Hands \ {recv.slot}
        /\ recv'.slot = dec'.slot => Hands' = {}
    BY <2>2, <2>4, PoolAssumption, <2>1 DEF Hands
  <2> QED
    BY <2>1, <2>2, <2>4, <2>5, <2>6 DEF Places
<1>2. CASE DecGive
  <2>1. dec.slot \in Slots /\ up
    BY <1>2, UpWhenActive DEF DecGive, Holding, Active
  <2>2. /\ dec.slot \in Hands /\ recv.slot # dec.slot
        /\ dec.slot \notin Range(free) /\ dec.slot \notin Range(ready)
    BY <2>1, PoolAssumption DEF Hands, Places
  <2>3. Len(free) < Size
    BY <2>1, <2>2, PoolAssumption, Room DEF Places, Size
  <2>4. /\ free' = Append(free, dec.slot) /\ UNCHANGED <<up, ready, recv>>
        /\ dec'.slot = NoSlot
    BY <1>2, <2>1, <2>3 DEF DecGive, GiveBack
  <2>5. IsInjective(free') /\ Range(free') = Range(free) \cup {dec.slot}
    BY <2>1, <2>2, <2>4, Appended DEF Places
  <2>6. /\ Hands' = Hands \ {dec.slot}
        /\ recv'.slot = dec'.slot => Hands' = {}
    BY <2>2, <2>4, PoolAssumption, <2>1 DEF Hands
  <2> QED
    BY <2>1, <2>2, <2>4, <2>5, <2>6 DEF Places
<1> QED
  BY <1>1, <1>2

\* The pool is opened and closed with no slot in hand.
LEMMA PoolKeeps ==
    ASSUME SlotInv, Punctual, Teardown \/ StartFails \/ StartPool
    PROVE  Places'
<1> USE DEF SlotInv
<1>1. recv.slot = NoSlot /\ recv' = recv
  BY DEF Teardown, StartFails, StartPool, Punctual, Tenancy, Places
<1>2. dec.slot = NoSlot /\ dec' = dec
  <2>1. ~Active
    BY DEF Teardown, StartFails, StartPool, Tenancy
  <2> QED
    BY <2>1 DEF Active, Holding, Teardown, StartFails, StartPool
<1>3. Hands' = {}
  BY <1>1, <1>2 DEF Hands
<1>4. CASE Teardown \/ StartFails
  <2>1. up' = FALSE /\ free' = <<>> /\ ready' = <<>>
    BY <1>4 DEF Teardown, StartFails, PoolClose
  <2> QED
    BY <1>1, <1>3, <2>1, EmptyQueue DEF Places
<1>5. CASE StartPool
  <2>1. up' = TRUE /\ free' = SetToSeq(Slots) /\ ready' = <<>>
    BY <1>5 DEF StartPool, PoolOpen
  <2>2. IsInjective(free') /\ Range(free') = Slots
    BY <2>1, PoolAssumption, Filled
  <2> QED
    BY <1>3, <2>1, <2>2, EmptyQueue DEF Places
<1> QED
  BY <1>4, <1>5

LEMMA PlacesStep ==
    ASSUME SlotInv, Punctual, [Next]_vars
    PROVE  Places'
BY CalmSteps, CalmKeeps, TakeKeeps, GiveKeeps, PoolKeeps
   DEF SlotInv, Next, Receive, Decode, Carry

LEMMA InvAlways ==
    ASSUME Punctual
    PROVE  Spec => []SlotInv
<1>1. SlotInv /\ [Next]_vars => SlotInv'
  BY TypeStep, TenancyStep, HoldingStep, PlacesStep DEF SlotInv
<1> QED
  BY <1>1, InitInv, PTL DEF Spec

\* doorbell_downlink_img_manager.c: while the pool is up every slot is in exactly
\* one place, over any number of restarts; and every variable has its type.
THEOREM SlotsConserved ==
    ASSUME "midframe" \notin Faults, "preempt" \notin Faults
    PROVE  Spec => []SlotsAccounted
<1>1. SlotInv => SlotsAccounted
  BY InvGives
<1> QED
  BY <1>1, InvAlways, PTL DEF Punctual

\* doorbell_downlink_video_stop: what is torn down is not used, and there is one
\* decode task at a time.
THEOREM TornDownSafely ==
    ASSUME "midframe" \notin Faults, "preempt" \notin Faults
    PROVE  Spec => []TornDownUnused
<1>1. SlotInv => TornDownUnused
  BY InvGives
<1> QED
  BY <1>1, InvAlways, PTL DEF Punctual

-----------------------------------------------------------------------------
(* The gate.                                                               *)

Queued(i) == unit[ready[i]]
Waiting == 1 .. Len(ready)

\* A loss that was told and whose gap is still ahead of the decoder.
Told == gap = "told" \/ \E i \in Waiting : Queued(i).after = "told"

\* No IDR waits ahead of the gap.
NoIdrBefore ==
    /\ gap = "told" => \A i \in Waiting : Queued(i).kind = "p"
    /\ \A i, j \in Waiting : j < i /\ Queued(i).after = "told" => Queued(j).kind = "p"

\* The decoder waits for an IDR, or will before it looks at another picture,
\* and what it has in hand does not end the wait.
Warned ==
    Told => /\ \/ dl.broken
               \/ dec.wait /\ ~(dec.pc \in {"gate", "decode"} /\ Held.kind = "idr")
            /\ dec.pc = "mark" => Held.kind = "p"

\* The same with the gap in hand.
WarnedInHand ==
    dec.pc \in {"mark", "gate", "decode"} /\ Held.kind = "p" /\ Held.after = "told"
    => dec.wait \/ (dl.broken /\ dec.pc = "mark")

GateInv ==
    /\ ~dec.wait => dec.ref # "missing"
    /\ dec.pc = "decode" /\ Held.kind = "p" => ~dec.wait
    /\ NoIdrBefore /\ Warned /\ WarnedInHand

LEMMA GateGives == GateInv => GateSeesLoss
BY DEF GateInv, WarnedInHand, GateSeesLoss

LEMMA GateInit == Init => GateInv
BY DEF Init, PoolInit, NoTask, GateInv, NoIdrBefore, Warned, WarnedInHand, Told, Waiting

\* Steps of others that tell the decoder nothing and leave the queue alone.
LEMMA GateUntouched ==
    ASSUME GateInv, UNCHANGED <<ready, unit, dec>>, dl'.broken = dl.broken,
           gap' = "told" => gap = "told"
    PROVE  GateInv'
<1>1. Told' => Told
  BY DEF Told, Queued, Waiting
<1> QED
  BY <1>1 DEF GateInv, NoIdrBefore, Warned, WarnedInHand, Queued, Waiting, Held

LEMMA GateReceive ==
    ASSUME SlotInv, GateInv, Receive
    PROVE  GateInv'
<1> USE DEF SlotInv, Typed, ControlTyped
<1>1. CASE RecvIgnored \/ RecvLost
  BY <1>1, GateUntouched DEF RecvIgnored, RecvLost, Lose, poolVars
<1>2. CASE \E k \in Kinds : RecvTake(k)
  BY <1>2, GateUntouched DEF RecvTake, TakeFree
<1>3. CASE RecvDropped
  <2>1. /\ UNCHANGED <<ready, unit, dec>> /\ dl'.broken = TRUE
        /\ gap' = "told" => gap = "told" \/ ~IdrAhead
    BY <1>3 DEF RecvDropped, Lose, poolVars, Shared
  <2>2. \A i \in Waiting : Queued(i).kind \in Kinds
    BY DEF Waiting, Queued, Unit
  <2>3. gap' = "told" => /\ \A i \in Waiting : Queued(i).kind = "p"
                         /\ dec.pc = "mark" => Held.kind = "p"
    <3>1. CASE gap = "told"
      BY <3>1 DEF GateInv, NoIdrBefore, Warned, Told
    <3>2. CASE ~IdrAhead
      <4>1. \A i \in Waiting : Queued(i).kind = "p"
        BY <2>2, <3>2 DEF IdrAhead, Waiting, Queued, Kinds
      <4>2. dec.pc = "mark" => dec.slot \in Slots
        BY DEF Holding, Decoder
      <4>3. dec.pc = "mark" => Held.kind = "p"
        BY <3>2, <4>2 DEF IdrAhead, Held, Unit, Kinds
      <4> QED
        BY <4>1, <4>3
    <3> QED
      BY <2>1, <3>1, <3>2
  <2>4. NoIdrBefore'
    BY <2>1, <2>3 DEF GateInv, NoIdrBefore, Waiting, Queued
  <2>5. Warned'
    BY <2>1, <2>3 DEF GateInv, Warned, Told, Waiting, Queued, Held
  <2>6. WarnedInHand'
    BY <2>1 DEF GateInv, WarnedInHand, Held
  <2> QED
    BY <2>1, <2>4, <2>5, <2>6 DEF GateInv, Held
<1>4. CASE RecvPush
  <2>1. recv.slot \in Slots /\ up
    BY <1>4 DEF RecvPush, Receiver, Places
  <2>2. /\ recv.slot # dec.slot
        /\ recv.slot \notin Range(ready)
    BY <2>1, PoolAssumption DEF Hands, Places
  <2>3. Len(ready) < Size
    BY <2>1, <2>2, PoolAssumption, Room DEF Places, Size
  <2>4. /\ ready' = Append(ready, recv.slot) /\ UNCHANGED <<dec, dl>>
        /\ unit' = [unit EXCEPT ![recv.slot] = [kind |-> recv.kind, after |-> gap]]
    BY <1>4, <2>1, <2>3 DEF RecvPush, PushReady
  <2>5. Len(ready') = Len(ready) + 1 /\ Len(ready) \in Nat
    BY <2>1, <2>4
  <2>6. gap' = "stored"
    BY <1>4, <2>4, <2>5 DEF RecvPush
  <2>7. \A i \in Waiting : i \in Waiting' /\ Queued(i)' = Queued(i)
    <3> TAKE i \in Waiting
    <3>1. ready'[i] = ready[i] /\ i \in Waiting'
      BY <2>1, <2>4, <2>5 DEF Waiting
    <3>2. ready[i] \in Slots /\ ready[i] # recv.slot
      BY <2>2, OnceMeans DEF Waiting
    <3> QED
      BY <2>4, <3>1, <3>2 DEF Queued
  <2>8. unit'[ready'[Len(ready) + 1]] = [kind |-> recv.kind, after |-> gap]
    <3>1. ready'[Len(ready) + 1] = recv.slot
      BY <2>1, <2>4
    <3> QED
      BY <2>1, <2>4, <3>1
  <2>9. \A i \in Waiting' : i \in Waiting \/ i = Len(ready) + 1
    BY <2>5 DEF Waiting
  <2>10. Told' => Told
    <3> SUFFICES ASSUME NEW i \in Waiting', Queued(i)'.after = "told"
                 PROVE  Told
      BY <2>6 DEF Told
    <3>1. CASE i \in Waiting
      BY <2>7, <3>1 DEF Told
    <3>2. CASE i = Len(ready) + 1
      BY <2>8, <3>2 DEF Told, Queued
    <3> QED
      BY <2>9, <3>1, <3>2
  <2>11. NoIdrBefore'
    <3> SUFFICES ASSUME NEW i \in Waiting', NEW j \in Waiting', j < i,
                        Queued(i)'.after = "told"
                 PROVE  Queued(j)'.kind = "p"
      BY <2>6 DEF NoIdrBefore
    <3>1. j \in Waiting
      BY <2>5, <2>9 DEF Waiting
    <3>2. CASE i \in Waiting
      BY <2>7, <3>1, <3>2 DEF GateInv, NoIdrBefore
    <3>3. CASE i = Len(ready) + 1
      <4>1. gap = "told"
        BY <2>8, <3>3 DEF Queued
      <4> QED
        BY <2>7, <3>1, <4>1 DEF GateInv, NoIdrBefore
    <3> QED
      BY <2>9, <3>2, <3>3
  <2>12. dec.pc \in {"mark", "gate", "decode"} => Held' = Held
    <3>1. dec.pc \in {"mark", "gate", "decode"} => dec.slot \in Slots
      BY DEF Holding, Decoder
    <3> QED
      BY <2>2, <2>4, <3>1 DEF Held
  <2> QED
    BY <2>4, <2>10, <2>11, <2>12 DEF GateInv, Warned, WarnedInHand
<1> QED
  BY <1>1, <1>2, <1>3, <1>4 DEF Receive

LEMMA GatePop ==
    ASSUME SlotInv, GateInv, DecPop
    PROVE  GateInv'
<1> USE DEF SlotInv, Typed, ControlTyped, Decoder
<1>1. /\ ready # <<>> /\ ready' = Tail(ready) /\ UNCHANGED <<unit, gap, dl>>
      /\ dec.pc = "pop" /\ dec'.pc = "mark" /\ dec'.slot = Head(ready)
      /\ dec'.wait = dec.wait /\ dec'.ref = dec.ref
  BY DEF DecPop, PopReady
<1>2. /\ 1 \in Waiting /\ Held' = Queued(1)
      /\ Len(ready') = Len(ready) - 1 /\ Len(ready) \in Nat
  BY <1>1 DEF Waiting, Queued, Held
<1>3. \A i \in Waiting' : i + 1 \in Waiting /\ Queued(i)' = Queued(i + 1) /\ 1 < i + 1
  BY <1>1, <1>2 DEF Waiting, Queued
<1>4. Told' => Told /\ Queued(1).kind = "p"
  BY <1>1, <1>2, <1>3 DEF Told, GateInv, NoIdrBefore
<1>5. NoIdrBefore'
  <2>1. gap' = "told" => \A i \in Waiting' : Queued(i)'.kind = "p"
    BY <1>1, <1>3 DEF GateInv, NoIdrBefore
  <2>2. ASSUME NEW i \in Waiting', NEW j \in Waiting', j < i, Queued(i)'.after = "told"
        PROVE  Queued(j)'.kind = "p"
    <3>1. j + 1 < i + 1
      BY <2>2 DEF Waiting
    <3> QED
      BY <1>3, <2>2, <3>1 DEF GateInv, NoIdrBefore
  <2> QED
    BY <2>1, <2>2 DEF NoIdrBefore
<1>6. Warned'
  BY <1>1, <1>2, <1>4 DEF GateInv, Warned
<1>7. WarnedInHand'
  <2>1. Queued(1).after = "told" => Told
    BY <1>2 DEF Told
  <2> QED
    BY <1>1, <1>2, <2>1 DEF GateInv, Warned, WarnedInHand
<1> QED
  BY <1>1, <1>5, <1>6, <1>7 DEF GateInv

LEMMA GateGive ==
    ASSUME SlotInv, GateInv, DecGive
    PROVE  GateInv'
<1> USE DEF SlotInv, Typed, ControlTyped, Decoder
<1>1. /\ dec.pc = "give" /\ dec'.pc = "pop"
      /\ dec'.wait = dec.wait /\ dec'.ref = dec.ref
      /\ UNCHANGED <<ready, gap, dl>>
      /\ unit' = [unit EXCEPT ![dec.slot] = Blank]
  BY DEF DecGive, GiveBack
<1>2. dec.slot \in Slots /\ up
  BY <1>1, UpWhenActive DEF Holding, Active
<1>3. dec.slot \notin Range(ready)
  BY <1>2, PoolAssumption DEF Hands, Places
<1>4. \A i \in Waiting : Queued(i)' = Queued(i)
  <2> TAKE i \in Waiting
  <2>1. ready[i] \in Slots /\ ready[i] # dec.slot
    BY <1>3, OnceMeans DEF Waiting
  <2> QED
    BY <1>1, <2>1 DEF Queued
<1>5. Waiting' = Waiting
  BY <1>1 DEF Waiting
<1>6. (Told' => Told) /\ NoIdrBefore'
  BY <1>1, <1>4, <1>5 DEF Told, NoIdrBefore, GateInv
<1> QED
  BY <1>1, <1>6 DEF GateInv, Warned, WarnedInHand

\* The decode task, with the picture in hand.
LEMMA GateWork ==
    ASSUME SlotInv, GateInv,
           \/ DecTimeout \/ DecMark \/ DecSkip \/ DecPass \/ DecDecoded
           \/ DecFailed \/ DecExit \/ DecLeave
    PROVE  GateInv'
<1> USE DEF SlotInv, Typed, ControlTyped, Decoder
<1>1. UNCHANGED <<ready, unit, gap>>
  BY DEF DecTimeout, DecMark, DecSkip, DecPass, DecDecoded, DecFailed, DecExit,
         DecLeave, poolVars
<1>2. Told' = Told /\ NoIdrBefore'
  BY <1>1 DEF Told, NoIdrBefore, GateInv, Queued, Waiting
<1>3. CASE DecTimeout
  <2>1. dec.pc = "pop" /\ dec' = [dec EXCEPT !.pc = "idle"] /\ dl' = dl
    BY <1>3 DEF DecTimeout
  <2> QED
    BY <1>1, <1>2, <2>1 DEF GateInv, Warned, WarnedInHand
<1>4. CASE DecMark
  <2>1. /\ dec.pc \in {"idle", "mark"}
        /\ dec'.pc = IF dec.pc = "mark" THEN "gate" ELSE "pop"
        /\ dec'.wait = (dec.wait \/ dl.broken) /\ dec'.ref = dec.ref
        /\ dec'.slot = dec.slot
    BY <1>4 DEF DecMark
  <2>2. Held' = Held
    BY <1>1, <2>1 DEF Held
  <2>3. Held.kind = "idr" => Held.kind # "p"
    OBVIOUS
  <2> QED
    BY <1>2, <2>1, <2>2, <2>3 DEF GateInv, Warned, WarnedInHand
<1>5. CASE DecSkip
  <2>1. /\ dec.pc = "gate" /\ dec.wait /\ Held.kind = "p"
        /\ dec'.pc = "give" /\ dec'.wait = dec.wait /\ dl' = dl
    BY <1>5 DEF DecSkip
  <2> QED
    BY <1>2, <2>1 DEF GateInv, Warned, WarnedInHand
<1>6. CASE DecPass
  <2>1. /\ dec.pc = "gate" /\ ~(dec.wait /\ Held.kind = "p")
        /\ dec'.pc = "decode" /\ dec'.wait = dec.wait /\ dec'.ref = dec.ref
        /\ dec'.slot = dec.slot /\ dl' = dl
    BY <1>6 DEF DecPass
  <2>2. Held' = Held
    BY <1>1, <2>1 DEF Held
  <2> QED
    BY <1>2, <2>1, <2>2 DEF GateInv, Warned, WarnedInHand
<1>7. CASE DecDecoded
  <2>1. /\ dec.pc = "decode" /\ dec'.pc = "give" /\ dec'.wait = FALSE
        /\ dec'.ref # "missing" /\ dl' = dl
    BY <1>7 DEF DecDecoded
  <2>2. Held.kind \in {"idr", "p"}
    <3>1. dec.slot \in Slots
      BY <2>1 DEF Holding
    <3> QED
      BY <3>1 DEF Held, Unit, Kinds
  <2>3. Told => dl.broken
    BY <2>1, <2>2 DEF GateInv, Warned
  <2> QED
    BY <1>2, <2>1, <2>3 DEF GateInv, Warned, WarnedInHand
<1>8. CASE DecFailed
  <2>1. dec'.pc = "give" /\ dec'.wait = TRUE /\ dl' = dl
    BY <1>8 DEF DecFailed
  <2> QED
    BY <1>2, <2>1 DEF GateInv, Warned, WarnedInHand
<1>9. CASE DecExit
  <2>1. /\ dec.pc = "pop" /\ dec'.pc = "signalled" /\ dec'.wait = dec.wait
        /\ dec'.ref = dec.ref /\ dl'.broken = dl.broken
    BY <1>9 DEF DecExit, Shared
  <2> QED
    BY <1>2, <2>1 DEF GateInv, Warned, WarnedInHand
<1>10. CASE DecLeave
  <2>1. dec'.pc = "none" /\ dec'.wait = TRUE
    BY <1>10 DEF DecLeave, NoTask, Tenancy
  <2> QED
    BY <1>2, <2>1 DEF GateInv, Warned, WarnedInHand
<1> QED
  BY <1>3, <1>4, <1>5, <1>6, <1>7, <1>8, <1>9, <1>10

LEMMA GateControl ==
    ASSUME SlotInv, GateInv, Configure \/ Carry
    PROVE  GateInv'
<1> USE DEF SlotInv, Typed, ControlTyped, Shared
<1>1. dl'.broken = dl.broken /\ gap' = gap
  BY DEF Configure, Carry, FindTask, Join, Teardown, Stopped,
         StartPool, StartFails, Launch
<1>2. CASE Configure \/ FindTask \/ Join \/ Stopped
  <2>1. UNCHANGED <<ready, unit, dec>>
    BY <1>2 DEF Configure, FindTask, Join, Stopped, poolVars
  <2> QED
    BY <1>1, <2>1, GateUntouched
<1>3. CASE Teardown \/ StartPool \/ StartFails
  <2>1. ready' = <<>> /\ dec' = dec /\ ~Active
    BY <1>3 DEF Teardown, StartPool, StartFails, PoolClose, PoolOpen, Tenancy
  <2>2. (Told' => Told) /\ NoIdrBefore'
    BY <1>1, <2>1 DEF Told, NoIdrBefore, Waiting
  <2> QED
    BY <1>1, <2>1, <2>2 DEF GateInv, Warned, WarnedInHand, Active
<1>4. CASE Launch
  <2>1. UNCHANGED <<ready, unit>> /\ dec'.pc = "pop" /\ dec'.wait = TRUE
    BY <1>4 DEF Launch, NoTask, poolVars
  <2>2. (Told' => Told) /\ NoIdrBefore'
    BY <1>1, <2>1 DEF Told, NoIdrBefore, GateInv, Waiting, Queued
  <2> QED
    BY <2>1, <2>2 DEF GateInv, Warned, WarnedInHand
<1> QED
  BY <1>2, <1>3, <1>4 DEF Carry

LEMMA GateStep == SlotInv /\ GateInv /\ [Next]_vars => GateInv'
<1>1. SlotInv /\ GateInv /\ Next => GateInv'
  BY GateReceive, GatePop, GateGive, GateWork, GateControl DEF Next, Decode
<1>2. GateInv /\ UNCHANGED vars => GateInv'
  BY GateUntouched DEF vars, poolVars, threadVars
<1> QED
  BY <1>1, <1>2

\* dl_apply_ref_break and the gate: no P picture is decoded after one that was
\* skipped or failed, nor over a loss that was told with no IDR waiting ahead.
THEOREM LossSeen ==
    ASSUME "midframe" \notin Faults, "preempt" \notin Faults
    PROVE  Spec => []GateSeesLoss
BY GateInit, GateStep, GateGives, InvAlways, PTL DEF Spec, Punctual

============================================================================
