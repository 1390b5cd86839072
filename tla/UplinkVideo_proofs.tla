------------------------- MODULE UplinkVideo_proofs -------------------------
(***************************************************************************)
(* No frame of the uplink is lost or in two places, and the counter of     *)
(* free frames errs on one side only, for any number of frames, of cameras *)
(* turned on and off, and for any fault.                                   *)
(***************************************************************************)
EXTENDS UplinkVideo, QueueLemmas

\* TypeOK but for the lengths of the queues, which follow from Places.
Typed ==
    /\ input \in BOOLEAN /\ count \in 0 .. Size
    /\ free \in Seq(Frames) /\ ready \in Seq(Frames)
    /\ enc \in Encoder /\ task \in Transfer /\ cfg \in Config
    /\ video \in BOOLEAN
    /\ ctl \in {"idle", "start", "create", "await", "stop", "join", "close",
               "drain"}

\* A thread has a frame in hand where it is at work on one.
Holding ==
    /\ enc.frame # NoFrame <=> enc.pc \in {"taken", "encode"}
    /\ task.frame # NoFrame <=> task.pc = "send"

\* FramesAccounted, queue by queue.
Places ==
    /\ IsInjective(free) /\ IsInjective(ready)
    /\ Range(free) \cap Range(ready) = {}
    /\ Range(free) \cup Range(ready) = Frames \ Hands
    /\ enc.frame = task.frame => Hands = {}

UplinkInv == Typed /\ Holding /\ Places /\ CountErrsHigh

LEMMA SizeIsNat == Size \in Nat
BY FramesAssumption, FS_CardinalityType DEF Size

LEMMA Fits ==
    ASSUME Typed, Places
    PROVE  Len(free) <= Size /\ Len(ready) <= Size
<1>1. /\ Range(free) \subseteq Frames /\ Range(ready) \subseteq Frames
  BY OnceMeans DEF Typed
<1> QED
  BY <1>1, FramesAssumption, NotLonger DEF Typed, Places, Size

\* A frame that the encoder holds is not free.
LEMMA HeldLeavesRoom ==
    ASSUME Typed, Holding, Places, enc.pc = "taken"
    PROVE  Len(free) < Size
<1>1. enc.frame \in Frames /\ enc.frame \in Hands
  BY DEF Typed, Holding, Encoder, Hands
<1>2. enc.frame \notin Range(free)
  BY <1>1 DEF Places
<1> QED
  BY <1>1, <1>2, FramesAssumption, Room DEF Typed, Places, Size

LEMMA InvGives == UplinkInv => TypeOK /\ FramesAccounted /\ CountErrsHigh
<1> SUFFICES ASSUME UplinkInv PROVE TypeOK /\ FramesAccounted /\ CountErrsHigh
  OBVIOUS
<1>1. TypeOK
  BY Fits DEF UplinkInv, Typed, TypeOK, FramesTypeOK
<1>2. /\ Range(free \o ready) = Range(free) \cup Range(ready)
      /\ IsInjective(free \o ready)
  BY Joined DEF UplinkInv, Typed, Places
<1> QED
  BY <1>1, <1>2 DEF UplinkInv, Places, FramesAccounted

LEMMA InitInv == Init => UplinkInv
<1> SUFFICES ASSUME Init PROVE UplinkInv
  OBVIOUS
<1>1. /\ free \in Seq(Frames) /\ Len(free) = Size
      /\ IsInjective(free) /\ Range(free) = Frames
  BY Filled, FramesAssumption DEF Init, FramesInit, Size
<1>2. ready = <<>> /\ count = Size /\ input = TRUE
  BY DEF Init, FramesInit
<1>3. /\ enc = [open |-> FALSE, pc |-> "idle", frame |-> NoFrame]
      /\ task = [pc |-> "none", frame |-> NoFrame]
      /\ cfg = NoConfig /\ video = FALSE /\ ctl = "idle"
  BY DEF Init
<1>4. Typed
  <2>1. count \in 0 .. Size /\ ready \in Seq(Frames)
    BY <1>2, SizeIsNat
  <2>2. enc \in Encoder /\ task \in Transfer /\ cfg \in Config
    BY <1>3 DEF Encoder, Transfer, Config, NoConfig
  <2> QED
    BY <1>1, <1>2, <1>3, <2>1, <2>2 DEF Typed
<1>5. Holding /\ Hands = {}
  BY <1>3 DEF Holding, Hands
<1>6. Places
  BY <1>1, <1>2, <1>3, <1>5, EmptyQueue DEF Places
<1>7. CountErrsHigh
  BY <1>1, <1>2, <1>3, SizeIsNat DEF CountErrsHigh, Due
<1> QED
  BY <1>4, <1>5, <1>6, <1>7 DEF UplinkInv

LEMMA TypeStep == Typed /\ Holding /\ [Next]_vars => Typed'
<1> SUFFICES ASSUME Typed, Holding, [Next]_vars PROVE Typed'
  OBVIOUS
<1> USE SizeIsNat DEF Typed, Encoder, Transfer, Config, NoConfig, frameVars, threadVars
<1>1. CASE Encode
  <2>1. CASE EncRequest
    BY <2>1, Popped DEF EncRequest, PopFree, Others
  <2>2. CASE EncCount
    BY <2>2 DEF EncCount, CountDown, Others
  <2>3. CASE EncComplete
    <3>1. enc.frame \in Frames
      BY <2>3 DEF EncComplete, Holding
    <3>2. Append(ready, enc.frame) \in Seq(Frames)
      BY <3>1
    <3> QED
      BY <2>3, <3>2 DEF EncComplete, PushReady, Others
  <2>4. CASE EncReturn
    <3>1. enc.frame \in Frames
      BY <2>4 DEF EncReturn, Holding
    <3>2. Append(free, enc.frame) \in Seq(Frames)
      BY <3>1
    <3> QED
      BY <2>4, <3>2 DEF EncReturn, PushFree, Others
  <2>5. CASE EncBack
    BY <2>5 DEF EncBack, CountUp, Others
  <2> QED
    BY <1>1, <2>1, <2>2, <2>3, <2>4, <2>5 DEF Encode
<1>2. CASE Send
  <2>1. CASE TaskBegin \/ TaskLook \/ TaskTimeout \/ TaskExit
    BY <2>1 DEF TaskBegin, TaskLook, TaskTimeout, TaskExit
  <2>2. CASE TaskPop
    BY <2>2, Popped DEF TaskPop, PopReady
  <2>3. CASE TaskSend
    BY <2>3 DEF TaskSend, PushFree, Holding
  <2>4. CASE TaskBack
    BY <2>4 DEF TaskBack, CountUp
  <2> QED
    BY <1>2, <2>1, <2>2, <2>3, <2>4 DEF Send
<1>3. CASE TurnOn \/ TurnOnFails \/ TurnOff
  BY <1>3 DEF TurnOn, TurnOnFails, TurnOff, ManagerInit, ManagerDeinit
<1>4. CASE Carry
  <2>1. CASE Start \/ StartFails
    BY <2>1 DEF Start, StartFails
  <2>2. CASE Stop
    <3>1. cfg' \in Config
      BY <2>2 DEF Stop
    <3>2. ctl' \in {"join", "close"}
      BY <2>2 DEF Stop
    <3> QED
      BY <2>2, <3>1, <3>2 DEF Stop
  <2>3. CASE Join
    BY <2>3 DEF Join
  <2>4. CASE Await
    <3>1. cfg' \in Config
      BY <2>4 DEF Await
    <3> QED
      BY <2>4, <3>1 DEF Await
  <2>5. CASE Create \/ CreateFails
    BY <2>5 DEF Create, CreateFails
  <2>6. CASE Unbond \/ Close
    BY <2>6 DEF Unbond, Close, ManagerDeinit
  <2> QED
    BY <1>4, <2>1, <2>2, <2>3, <2>4, <2>5, <2>6 DEF Carry
<1>5. CASE UNCHANGED vars
  BY <1>5 DEF vars
<1> QED
  BY <1>1, <1>2, <1>3, <1>4, <1>5 DEF Next

\* Steps that move no frame and count none.
Calm ==
    /\ UNCHANGED <<free, ready, count>>
    /\ enc'.pc = enc.pc /\ enc'.frame = enc.frame /\ task'.frame = task.frame
    /\ task'.pc = task.pc \/ {task.pc, task'.pc} \subseteq {"none", "new", "check", "pop"}

LEMMA CalmKeeps ==
    ASSUME UplinkInv, Typed', Calm
    PROVE  UplinkInv'
<1>1. Holding'
  BY DEF UplinkInv, Holding, Calm
<1>2. Hands' = Hands
  BY DEF Calm, Hands
<1>3. Places'
  BY <1>2 DEF UplinkInv, Places, Calm
<1>4. Due("back")' = Due("back") /\ Due("taken")' = Due("taken")
  BY DEF Calm, Due
<1>5. CountErrsHigh'
  BY <1>4 DEF UplinkInv, CountErrsHigh, Calm
<1> QED
  BY <1>1, <1>3, <1>5 DEF UplinkInv

\* The encoder takes a frame, and the transfer task one that is encoded.
LEMMA TakeKeeps ==
    ASSUME UplinkInv, Typed', EncRequest \/ TaskPop
    PROVE  UplinkInv'
<1> USE DEF Typed, Encoder, Transfer
<1>1. CASE EncRequest
  <2>1. /\ enc.pc = "idle" /\ free # <<>> /\ enc.frame = NoFrame
        /\ free' = Tail(free) /\ ready' = ready /\ count' = count
        /\ enc'.frame = Head(free) /\ enc'.pc = "taken" /\ task' = task
    BY <1>1 DEF EncRequest, PopFree, Others, UplinkInv, Holding
  <2>2. /\ Head(free) \in Frames /\ Head(free) \in Range(free)
        /\ Len(Tail(free)) = Len(free) - 1
        /\ IsInjective(Tail(free))
        /\ Range(Tail(free)) = Range(free) \ {Head(free)}
    BY <2>1, Popped DEF UplinkInv, Places
  <2>3. Head(free) # NoFrame /\ Hands' = Hands \cup {Head(free)} /\ Head(free) \notin Hands
    BY <2>1, <2>2, FramesAssumption DEF Hands, UplinkInv, Places
  <2>4. Holding'
    BY <2>1, <2>3 DEF UplinkInv, Holding
  <2>5. Places'
    <3>1. enc'.frame # task'.frame
      BY <2>1, <2>3 DEF Hands
    <3> QED
      BY <2>1, <2>2, <2>3, <3>1 DEF UplinkInv, Places
  <2>6. CountErrsHigh'
    BY <2>1, <2>2 DEF UplinkInv, CountErrsHigh, Due
  <2> QED
    BY <2>4, <2>5, <2>6 DEF UplinkInv
<1>2. CASE TaskPop
  <2>1. /\ task.pc = "pop" /\ ready # <<>> /\ task.frame = NoFrame
        /\ ready' = Tail(ready) /\ free' = free /\ count' = count
        /\ task'.frame = Head(ready) /\ task'.pc = "send" /\ enc' = enc
    BY <1>2 DEF TaskPop, PopReady, UplinkInv, Holding
  <2>2. /\ Head(ready) \in Frames /\ Head(ready) \in Range(ready)
        /\ IsInjective(Tail(ready))
        /\ Range(Tail(ready)) = Range(ready) \ {Head(ready)}
    BY <2>1, Popped DEF UplinkInv, Places
  <2>3. Head(ready) # NoFrame /\ Hands' = Hands \cup {Head(ready)} /\ Head(ready) \notin Hands
    BY <2>1, <2>2, FramesAssumption DEF Hands, UplinkInv, Places
  <2>4. Holding'
    BY <2>1, <2>3 DEF UplinkInv, Holding
  <2>5. Places'
    <3>1. enc'.frame # task'.frame
      BY <2>1, <2>3 DEF Hands
    <3> QED
      BY <2>1, <2>2, <2>3, <3>1 DEF UplinkInv, Places
  <2>6. CountErrsHigh'
    BY <2>1 DEF UplinkInv, CountErrsHigh, Due
  <2> QED
    BY <2>4, <2>5, <2>6 DEF UplinkInv
<1> QED
  BY <1>1, <1>2

\* A frame in hand goes to the end of one of the queues.
LEMMA GiveKeeps ==
    ASSUME UplinkInv, Typed', EncComplete \/ EncReturn \/ TaskSend
    PROVE  UplinkInv'
<1> USE DEF Typed, Encoder, Transfer
<1>1. CASE EncComplete
  <2>1. /\ enc.pc = "encode" /\ enc.frame \in Frames
        /\ ready' = Append(ready, enc.frame) /\ free' = free /\ count' = count
        /\ enc'.frame = NoFrame /\ enc'.pc = "idle" /\ task' = task
    BY <1>1 DEF EncComplete, PushReady, Others, UplinkInv, Holding
  <2>2. /\ enc.frame \in Hands /\ enc.frame # task.frame
        /\ Hands' = Hands \ {enc.frame}
    BY <2>1, FramesAssumption DEF Hands, UplinkInv, Places
  <2>3. enc.frame \notin Range(free) /\ enc.frame \notin Range(ready)
    BY <2>2 DEF UplinkInv, Places
  <2>4. /\ Range(ready') = Range(ready) \cup {enc.frame}
        /\ IsInjective(ready')
    BY <2>1, <2>3, Appended DEF UplinkInv, Places
  <2>5. Holding'
    BY <2>1 DEF UplinkInv, Holding
  <2>6. Places'
    <3>1. enc'.frame = task'.frame => Hands' = {}
      BY <2>1, <2>2 DEF Hands
    <3> QED
      BY <2>1, <2>2, <2>3, <2>4, <3>1 DEF UplinkInv, Places
  <2>7. CountErrsHigh'
    BY <2>1 DEF UplinkInv, CountErrsHigh, Due
  <2> QED
    BY <2>5, <2>6, <2>7 DEF UplinkInv
<1>2. CASE EncReturn
  <2>1. /\ enc.pc = "encode" /\ enc.frame \in Frames
        /\ free' = Append(free, enc.frame) /\ ready' = ready /\ count' = count
        /\ enc'.frame = NoFrame /\ enc'.pc = "back" /\ task' = task
    BY <1>2 DEF EncReturn, PushFree, Others, UplinkInv, Holding
  <2>2. /\ enc.frame \in Hands /\ enc.frame # task.frame
        /\ Hands' = Hands \ {enc.frame}
    BY <2>1, FramesAssumption DEF Hands, UplinkInv, Places
  <2>3. enc.frame \notin Range(free) /\ enc.frame \notin Range(ready)
    BY <2>2 DEF UplinkInv, Places
  <2>4. /\ Range(free') = Range(free) \cup {enc.frame}
        /\ IsInjective(free') /\ Len(free') = Len(free) + 1
    BY <2>1, <2>3, Appended DEF UplinkInv, Places
  <2>5. Holding'
    BY <2>1 DEF UplinkInv, Holding
  <2>6. Places'
    <3>1. enc'.frame = task'.frame => Hands' = {}
      BY <2>1, <2>2 DEF Hands
    <3> QED
      BY <2>1, <2>2, <2>3, <2>4, <3>1 DEF UplinkInv, Places
  <2>7. CountErrsHigh'
    BY <2>1, <2>4 DEF UplinkInv, CountErrsHigh, Due
  <2> QED
    BY <2>5, <2>6, <2>7 DEF UplinkInv
<1>3. CASE TaskSend
  <2>1. /\ task.pc = "send" /\ task.frame \in Frames
        /\ free' = Append(free, task.frame) /\ ready' = ready /\ count' = count
        /\ task'.frame = NoFrame /\ task'.pc = "back" /\ enc' = enc
    BY <1>3 DEF TaskSend, PushFree, UplinkInv, Holding
  <2>2. /\ task.frame \in Hands /\ enc.frame # task.frame
        /\ Hands' = Hands \ {task.frame}
    BY <2>1, FramesAssumption DEF Hands, UplinkInv, Places
  <2>3. task.frame \notin Range(free) /\ task.frame \notin Range(ready)
    BY <2>2 DEF UplinkInv, Places
  <2>4. /\ Range(free') = Range(free) \cup {task.frame}
        /\ IsInjective(free') /\ Len(free') = Len(free) + 1
    BY <2>1, <2>3, Appended DEF UplinkInv, Places
  <2>5. Holding'
    BY <2>1 DEF UplinkInv, Holding
  <2>6. Places'
    <3>1. enc'.frame = task'.frame => Hands' = {}
      BY <2>1, <2>2 DEF Hands
    <3> QED
      BY <2>1, <2>2, <2>3, <2>4, <3>1 DEF UplinkInv, Places
  <2>7. CountErrsHigh'
    BY <2>1, <2>4 DEF UplinkInv, CountErrsHigh, Due
  <2> QED
    BY <2>5, <2>6, <2>7 DEF UplinkInv
<1> QED
  BY <1>1, <1>2, <1>3

\* An update of the counter.  One that is lost finds the counter at its limit:
\* at 0 it errs high, and at Size it cannot be below what is free.
LEMMA CountKeeps ==
    ASSUME UplinkInv, Typed', EncCount \/ EncBack \/ TaskBack
    PROVE  UplinkInv'
<1> USE DEF Typed, Encoder, Transfer
<1>1. /\ UNCHANGED <<free, ready>>
      /\ enc'.frame = enc.frame /\ task'.frame = task.frame
  BY DEF EncCount, EncBack, TaskBack, CountDown, CountUp, Others, UplinkInv, Holding
<1>2. Holding'
  BY <1>1 DEF UplinkInv, Holding, EncCount, EncBack, TaskBack, Others
<1>3. Places'
  <2>1. Hands' = Hands
    BY <1>1 DEF Hands
  <2> QED
    BY <1>1, <2>1 DEF UplinkInv, Places
<1>4. Len(free) \in Nat /\ Size \in Nat /\ count \in 0 .. Size /\ count' \in 0 .. Size
  BY SizeIsNat DEF UplinkInv
<1>5. CountErrsHigh'
  <2>1. CASE EncCount
    <3>1. /\ enc.pc = "taken" /\ enc'.pc = "encode" /\ task' = task
          /\ count' = IF count > 0 THEN count - 1 ELSE 0
      BY <2>1 DEF EncCount, CountDown, Others, UplinkInv
    <3>2. /\ Due("taken") = Due("taken")' + 1 /\ Due("back")' = Due("back")
          /\ Due("taken") \in Nat /\ Due("back") \in Nat
      BY <3>1 DEF Due
    <3>3. CASE count > 0
      BY <1>1, <1>4, <3>1, <3>2, <3>3 DEF UplinkInv, CountErrsHigh, Due
    <3>4. CASE count = 0
      BY <1>1, <1>4, <3>1, <3>2, <3>4 DEF UplinkInv, CountErrsHigh, Due
    <3> QED
      BY <1>4, <3>3, <3>4
  <2>2. CASE EncBack \/ TaskBack
    <3>1. /\ count' = IF count < Size THEN count + 1 ELSE count
          /\ Due("back") = Due("back")' + 1 /\ Due("taken")' = Due("taken")
          /\ Due("taken") \in Nat /\ Due("back")' \in Nat
      BY <2>2 DEF EncBack, TaskBack, CountUp, Others, Due, UplinkInv
    <3>2. CASE count < Size
      BY <1>1, <1>4, <3>1, <3>2 DEF UplinkInv, CountErrsHigh
    <3>3. CASE count = Size
      <4>1. Len(free) + Due("taken") <= Size
        <5>1. task.pc # "taken"
          BY DEF UplinkInv
        <5>2. CASE enc.pc = "taken"
          <6>1. Len(free) < Size
            BY <5>2, HeldLeavesRoom DEF UplinkInv
          <6> QED
            BY <1>4, <5>1, <5>2, <6>1 DEF Due
        <5>3. CASE enc.pc # "taken"
          BY <1>4, <5>1, <5>3, Fits DEF Due, UplinkInv
        <5> QED
          BY <5>2, <5>3
      <4> QED
        BY <1>1, <1>4, <3>1, <3>3, <4>1 DEF CountErrsHigh
    <3> QED
      BY <1>4, <3>2, <3>3
  <2> QED
    BY <2>1, <2>2
<1> QED
  BY <1>2, <1>3, <1>5 DEF UplinkInv

LEMMA StepInv == UplinkInv /\ [Next]_vars => UplinkInv'
<1> SUFFICES ASSUME UplinkInv, [Next]_vars PROVE UplinkInv'
  OBVIOUS
<1>1. Typed'
  BY TypeStep DEF UplinkInv
<1>2. CASE Encode
  BY <1>1, <1>2, TakeKeeps, GiveKeeps, CountKeeps DEF Encode
<1>3. CASE Send
  <2>1. CASE TaskBegin \/ TaskLook \/ TaskTimeout \/ TaskExit
    <3>1. Calm
      BY <2>1 DEF TaskBegin, TaskLook, TaskTimeout, TaskExit, Calm, frameVars,
                  UplinkInv, Typed, Transfer
    <3> QED
      BY <1>1, <3>1, CalmKeeps
  <2> QED
    BY <1>1, <1>3, <2>1, TakeKeeps, GiveKeeps, CountKeeps DEF Send
<1>4. CASE TurnOn \/ TurnOnFails \/ TurnOff \/ Carry
  <2>1. Calm
    BY <1>4 DEF TurnOn, TurnOnFails, TurnOff, ManagerInit, ManagerDeinit, Carry,
                Start, StartFails, Create, CreateFails, Await, Stop, Join, Unbond,
                Close, Calm, frameVars, threadVars, UplinkInv, Typed, Encoder, Transfer
  <2> QED
    BY <1>1, <2>1, CalmKeeps
<1>5. CASE UNCHANGED vars
  <2>1. Calm
    BY <1>5 DEF vars, frameVars, threadVars, Calm
  <2> QED
    BY <1>1, <2>1, CalmKeeps
<1> QED
  BY <1>2, <1>3, <1>4, <1>5 DEF Next

LEMMA InvAlways == Spec => []UplinkInv
BY InitInv, StepInv, PTL DEF Spec

\* bk_encoded_data_request and its likes: every frame is in exactly one place
\* for ever, and every variable has its type, whatever cameras are turned on
\* and off and whatever fails.
THEOREM FramesConserved == Spec => []FramesAccounted
<1>1. UplinkInv => FramesAccounted
  BY InvGives
<1> QED
  BY <1>1, InvAlways, PTL

\* h264_available_buffer_count: but for the updates that are due it is never
\* below the number of free frames.
THEOREM CounterErrsHigh == Spec => []CountErrsHigh
<1>1. UplinkInv => CountErrsHigh
  BY InvGives
<1> QED
  BY <1>1, InvAlways, PTL

-----------------------------------------------------------------------------
(* That a camera which was reported on is sent.                            *)

\* How far the transfer has come, between the steps that change it.
Running == cfg.held /\ cfg.enable /\ ~cfg.sem /\ task.pc \notin {"none", "new"}
Unstarted == ~cfg.held /\ ~cfg.enable /\ ~cfg.sem /\ task.pc = "none"
Left == LeftBehind /\ ~cfg.sem

\* The command thread and the transfer task hand over by the semaphore: it is
\* up only where the command thread waits for it.
HandShake ==
    /\ video <=> enc.open \/ ctl = "drain"
    /\ ctl = "drain" => ~enc.open
    /\ ctl # "idle" => video
    /\ ctl = "idle" => Left \/ (IF video THEN Running ELSE Unstarted)
    /\ ctl = "start" => Left \/ Running \/ Unstarted
    /\ ctl = "create" => Left
    /\ ctl = "await" =>
          /\ cfg.held
          /\ \/ task.pc = "new" /\ ~cfg.enable /\ ~cfg.sem
             \/ task.pc \notin {"none", "new"} /\ cfg.enable /\ cfg.sem
    /\ ctl = "stop" => Left \/ Running
    /\ ctl = "join" =>
          /\ cfg.held /\ ~cfg.enable
          /\ \/ task.pc \notin {"none", "new"} /\ ~cfg.sem
             \/ task.pc = "none" /\ cfg.sem
    /\ ctl \in {"close", "drain"} => Left \/ Unstarted

LEMMA HandShakeInit == Init => HandShake
BY DEF Init, HandShake, NoConfig, Unstarted

LEMMA HandShakeStep ==
    ASSUME "isp" \notin Faults, Typed, Holding, HandShake, [Next]_vars
    PROVE  HandShake'
<1> USE DEF Typed, Encoder, Transfer, Config, NoConfig, HandShake, Running,
            Unstarted, Left, LeftBehind
<1>1. CASE Encode
  <2>1. enc'.open = enc.open /\ UNCHANGED <<task, cfg, video, ctl>>
    BY <1>1 DEF Encode, EncRequest, EncCount, EncComplete, EncReturn, EncBack, Others
  <2> QED
    BY <2>1
<1>2. CASE Send
  <2>1. UNCHANGED <<enc, video, ctl>>
    BY <1>2 DEF Send, TaskBegin, TaskLook, TaskPop, TaskTimeout, TaskSend,
                TaskBack, TaskExit
  <2>2. CASE TaskBegin
    BY <2>1, <2>2 DEF TaskBegin
  <2>3. CASE TaskExit
    BY <2>1, <2>3 DEF TaskExit
  <2>4. CASE TaskLook \/ TaskPop \/ TaskTimeout \/ TaskSend \/ TaskBack
    <3>1. /\ cfg' = cfg
          /\ task.pc \notin {"none", "new"} /\ task'.pc \notin {"none", "new"}
      BY <2>4 DEF TaskLook, TaskPop, TaskTimeout, TaskSend, TaskBack
    <3> QED
      BY <2>1, <3>1
  <2> QED
    BY <1>2, <2>2, <2>3, <2>4 DEF Send
<1>3. CASE TurnOn
  BY <1>3 DEF TurnOn
<1>4. CASE TurnOnFails \/ TurnOff
  BY <1>4 DEF TurnOnFails, TurnOff, threadVars
<1>5. CASE Start \/ StartFails
  BY <1>5 DEF Start, StartFails
<1>6. CASE Create \/ CreateFails
  BY <1>6 DEF Create, CreateFails
<1>7. CASE Await
  BY <1>7 DEF Await
<1>8. CASE Stop
  BY <1>8 DEF Stop
<1>9. CASE Join
  BY <1>9 DEF Join
<1>10. CASE Unbond
  BY <1>10 DEF Unbond
<1>11. CASE Close
  BY <1>11 DEF Close
<1>12. CASE UNCHANGED vars
  BY <1>12 DEF vars, threadVars
<1> QED
  BY <1>1, <1>2, <1>3, <1>4, <1>5, <1>6, <1>7, <1>8, <1>9, <1>10, <1>11, <1>12
     DEF Next, Carry

\* doorbell_devices_start and _stop: a camera that is reported on is encoded
\* and sent, and one that is reported off is not, unless a thread that could not
\* be created left its configuration behind.
THEOREM CameraDelivers ==
    ASSUME "isp" \notin Faults
    PROVE  Spec => []OnDelivers
<1>1. UplinkInv /\ HandShake /\ [Next]_vars => HandShake'
  BY HandShakeStep DEF UplinkInv
<1>2. Typed /\ HandShake => OnDelivers
  BY DEF Typed, Config, HandShake, Running, Unstarted, Left, OnDelivers
<1>3. UplinkInv => Typed
  BY DEF UplinkInv
<1> QED
  BY <1>1, <1>2, <1>3, HandShakeInit, InvAlways, PTL DEF Spec

============================================================================
