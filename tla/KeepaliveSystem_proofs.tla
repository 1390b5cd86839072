---------------------- MODULE KeepaliveSystem_proofs ----------------------
(***************************************************************************)
(* Theorems about the keepalive and its host for every value of the        *)
(* constants.  Whatever fails: the types, and that a session is released   *)
(* once, after its threads, and before the next one begins.  Then, with a  *)
(* server that waits for the hand-over, that a host that is off is watched *)
(* and one that is woken finds its reason.                                 *)
(***************************************************************************)
EXTENDS KeepaliveSystem, TLAPS

\* The inductive invariant.
IInv == TypeOK /\ TeardownInv

\* The types of where the threads are and of the wakeup host.
PcType == [tx : TxPcs, rx : RxPcs, cmd : CmdPcs]
HostType == [reason : Reasons, vote : BOOLEAN]

\* Voting and setting a reason keep the host's type.
LEMMA HostTypes ==
    ASSUME NEW h \in HostType, NEW b \in BOOLEAN, NEW r \in Reasons
    PROVE  [h EXCEPT !.vote = b] \in HostType /\ [h EXCEPT !.reason = r] \in HostType
BY DEF HostType

\* What the teardown's invariant asks of the record.
Core(e) == <<e.tx, e.rx, e.releasing, e.buffers>>

\* Two records that the teardown does not tell apart, but for a request to
\* clean up.
Alike(e, f) ==
    /\ f \in EnvType /\ Core(f) = Core(e)
    /\ e.cleanup => f.cleanup
    /\ (e.cleanup => ~e.ongoing) => (f.cleanup => ~f.ongoing)
    /\ f.sema = "null" <=> e.sema = "null"

\* The updates of a thread that is not tearing down.
LEMMA EnvAlike ==
    ASSUME NEW e \in EnvType, NEW b \in BOOLEAN
    PROVE  /\ Alike(e, e)
           /\ Alike(e, [e EXCEPT !.ongoing = FALSE])
           /\ Alike(e, [e EXCEPT !.rtc = b])
           /\ Alike(e, [e EXCEPT !.lowVoltage = b])
           /\ Alike(e, [e EXCEPT !.ongoing = FALSE, !.cleanup = TRUE])
           /\ Alike(e, [e EXCEPT !.lowVoltage = TRUE, !.timer = TRUE])
           /\ Alike(e, [e EXCEPT !.lowVoltage = FALSE, !.timer = FALSE, !.sock = "none"])
           /\ \A k \in {"none", "open"} : Alike(e, [e EXCEPT !.sock = k])
           /\ \A n \in 0 .. MaxNoResp : Alike(e, [e EXCEPT !.noResp = n])
<1>1. Alike(e, e) BY DEF Alike
<1>2. Alike(e, [e EXCEPT !.ongoing = FALSE]) BY Zenon DEF Alike, EnvType, Core
<1>3. Alike(e, [e EXCEPT !.rtc = b]) BY Zenon DEF Alike, EnvType, Core
<1>4. Alike(e, [e EXCEPT !.lowVoltage = b]) BY Zenon DEF Alike, EnvType, Core
<1>5. Alike(e, [e EXCEPT !.ongoing = FALSE, !.cleanup = TRUE])
  BY Zenon DEF Alike, EnvType, Core
<1>6. Alike(e, [e EXCEPT !.lowVoltage = TRUE, !.timer = TRUE])
  BY Zenon DEF Alike, EnvType, Core
<1>7. Alike(e, [e EXCEPT !.lowVoltage = FALSE, !.timer = FALSE, !.sock = "none"])
  BY Zenon DEF Alike, EnvType, Core
<1>8. \A k \in {"none", "open"} : Alike(e, [e EXCEPT !.sock = k])
  BY Zenon DEF Alike, EnvType, Core
<1>9. \A n \in 0 .. MaxNoResp : Alike(e, [e EXCEPT !.noResp = n])
  BY Zenon DEF Alike, EnvType, Core
<1> QED BY <1>1, <1>2, <1>3, <1>4, <1>5, <1>6, <1>7, <1>8, <1>9

\* Two such updates in a row are one.
LEMMA AlikeTwice ==
    ASSUME NEW e \in EnvType, NEW f \in EnvType, NEW g \in EnvType, Alike(e, f), Alike(f, g)
    PROVE  Alike(e, g)
BY DEF Alike

\* Posting the semaphore creates and deletes nothing.
LEMMA PostAlike == ASSUME NEW e \in EnvType PROVE Alike(e, Posted(e))
<1>1. CASE e.sema = "null" BY <1>1 DEF Posted, Alike
<1>2. CASE e.sema # "null"
  <2>1. Posted(e) = [e EXCEPT !.sema = "posted"] BY <1>2 DEF Posted
  <2>2. Posted(e) \in EnvType BY <2>1, Zenon DEF EnvType
  <2>3. Posted(e).sema = "posted" BY <2>1 DEF EnvType
  <2>4. Core(Posted(e)) = Core(e) /\ Posted(e).cleanup = e.cleanup /\ Posted(e).ongoing = e.ongoing
    BY <2>1, Zenon DEF EnvType, Core
  <2> QED BY <1>2, <2>2, <2>3, <2>4 DEF Alike
<1> QED BY <1>1, <1>2

\* A thread moves alone.
LEMMA Moves ==
    ASSUME pc \in PcType, NEW from, NEW to
    PROVE  /\ Move("tx", from, to) /\ to \in TxPcs
                => pc' \in PcType /\ pc.tx = from /\ pc'.tx = to /\ pc'.rx = pc.rx /\ pc'.cmd = pc.cmd
           /\ Move("rx", from, to) /\ to \in RxPcs
                => pc' \in PcType /\ pc.rx = from /\ pc'.rx = to /\ pc'.tx = pc.tx /\ pc'.cmd = pc.cmd
           /\ Move("cmd", from, to) /\ to \in CmdPcs
                => pc' \in PcType /\ pc.cmd = from /\ pc'.cmd = to /\ pc'.tx = pc.tx /\ pc'.rx = pc.rx
BY DEF Move, PcType

\* The types of the connection and of what the server sees.
NetOK ==
    /\ link \in {"none", "up", "silent", "closed"}
    /\ inbox \in Seq({"response", "wake"}) /\ Len(inbox) <= InboxDepth

\* A step that neither starts nor ends a thread, nor moves on in the teardown.
Calm ==
    /\ Alike(env, env') /\ leaving' = leaving
    /\ pc' \in PcType
    /\ pc'.tx = "none" <=> pc.tx = "none"
    /\ pc'.rx = "none" <=> pc.rx = "none"
    /\ pc'.cmd = "tear" <=> pc.cmd = "tear"
    /\ pc'.tx = "count" => env'.noResp < MaxNoResp

\* Everything but the session and its threads stays typed.
Rest ==
    /\ held' \in 0 .. MaxNoResp - 1
    /\ alarm' \in BOOLEAN
    /\ host' \in HostType
    /\ NetOK'
    /\ ap' \in ApStates

\* The type invariant in the names of this module.
LEMMA TypesUnfolded ==
    TypeOK <=> /\ env \in EnvType /\ pc \in PcType /\ leaving \in [Stages -> Nat]
               /\ held \in 0 .. MaxNoResp - 1 /\ alarm \in BOOLEAN /\ host \in HostType
               /\ NetOK /\ ap \in ApStates
BY DEF TypeOK, KeepaliveTypeOK, PcType, HostType, NetOK

\* A calm step keeps the invariant: each action below that is calm rests on this.
LEMMA CalmKeeps == ASSUME IInv, Calm, Rest PROVE IInv'
<1>1. TypeOK'
  BY TypesUnfolded DEF Calm, Rest, IInv, Alike, TypeOK, KeepaliveTypeOK, PcType, HostType, NetOK
<1>2. TeardownInv'
  BY DEF Calm, IInv, TeardownInv, Alike, Core, Tearing
<1> QED BY <1>1, <1>2 DEF IInv

\* What a step does to the connection keeps its types.
LEMMA NetSteps ==
    ASSUME NetOK
    PROVE  /\ UNCHANGED netVars => NetOK'
           /\ UNCHANGED <<link, inbox>> => NetOK'
           /\ link' = "up" /\ inbox' = <<>> => NetOK'
           /\ Send => NetOK'
           /\ Closed => NetOK'
           /\ \A p \in {"response", "wake"} :
                 Recv(p) => NetOK'
<1>1. \A s \in Seq({"response", "wake"}) : s # <<>> =>
          Tail(s) \in Seq({"response", "wake"}) /\ Len(Tail(s)) <= Len(s)
  OBVIOUS
<1>2. \A s \in Seq({"response", "wake"}) :
          LET t == Append(s, "response")
          IN  t \in Seq({"response", "wake"}) /\ Len(t) = Len(s) + 1 /\ Len(s) \in Nat
  OBVIOUS
<1>3. <<>> \in Seq({"response", "wake"}) /\ Len(<<>>) = 0 /\ InboxDepth \in Nat \ {0}
  BY KeepaliveAssumption
<1>4. UNCHANGED netVars => NetOK'
  BY DEF NetOK, netVars
<1>5. link' = "up" /\ inbox' = <<>> => NetOK'
  BY <1>3 DEF NetOK
<1>6. Send => NetOK'
  <2>1. ASSUME Send, UNCHANGED inbox PROVE NetOK'
    BY <2>1 DEF Send, NetOK
  <2>2. ASSUME Send, Len(inbox) < InboxDepth, inbox' = Append(inbox, "response") PROVE NetOK'
    BY <1>2, <1>3, <2>2 DEF Send, NetOK
  <2> QED
    BY <2>1, <2>2 DEF Send
<1>7. ASSUME Closed PROVE NetOK'
  <2>1. CASE link' = "none" /\ inbox' = <<>>
    BY <1>3, <1>7, <2>1 DEF NetOK
  <2>2. CASE UNCHANGED <<link, inbox>>
    BY <1>7, <2>2 DEF NetOK
  <2> QED
    BY <1>7, <2>1, <2>2 DEF Closed
<1>8. ASSUME NEW p \in {"response", "wake"}, Recv(p)
      PROVE  NetOK'
  <2>1. inbox # <<>> /\ inbox' = Tail(inbox) /\ link' = link
    BY <1>8 DEF Recv
  <2>3. inbox' \in Seq({"response", "wake"}) /\ Len(inbox') <= Len(inbox) /\ Len(inbox) \in Nat /\ Len(inbox') \in Nat
    BY <1>1, <2>1 DEF NetOK
  <2> QED
    BY <1>3, <2>1, <2>3 DEF NetOK
<1> QED
  BY <1>4, <1>5, <1>6, <1>7, <1>8 DEF netVars

\* Posting and deinit leave the watchdog's count alone.
LEMMA PostKeeps ==
    ASSUME NEW e \in EnvType
    PROVE  /\ Posted(e).noResp = e.noResp
           /\ Posted([e EXCEPT !.ongoing = FALSE]).noResp = e.noResp
           /\ Posted([e EXCEPT !.ongoing = FALSE, !.cleanup = TRUE]).noResp = e.noResp
<1>1. ASSUME NEW f \in EnvType PROVE Posted(f).noResp = f.noResp
  BY DEF Posted, EnvType
<1>2. [e EXCEPT !.ongoing = FALSE] \in EnvType
      /\ [e EXCEPT !.ongoing = FALSE, !.cleanup = TRUE] \in EnvType
  BY Zenon, EnvAlike DEF Alike
<1>3. [e EXCEPT !.ongoing = FALSE].noResp = e.noResp
      /\ [e EXCEPT !.ongoing = FALSE, !.cleanup = TRUE].noResp = e.noResp
  BY DEF EnvType
<1> QED
  BY Zenon, <1>1, <1>2, <1>3

\* Taking the semaphore does not delete it.
LEMMA WokenAlike ==
    ASSUME NEW e \in EnvType, e.sema = "posted"
    PROVE  Alike(e, [e EXCEPT !.sema = "empty"])
<1>1. Core([e EXCEPT !.sema = "empty"]) = Core(e)
      /\ [e EXCEPT !.sema = "empty"].cleanup = e.cleanup
      /\ [e EXCEPT !.sema = "empty"].sema = "empty"
      /\ [e EXCEPT !.sema = "empty"] \in EnvType
  BY Zenon DEF EnvType, Core
<1> QED
  BY <1>1 DEF Alike

\* db_keepalive_cp_deinit only asks: the session it leaves is alike.
LEMMA DeinitAlike ==
    ASSUME NEW e \in EnvType
    PROVE  /\ Alike(e, Posted([e EXCEPT !.ongoing = FALSE, !.cleanup = TRUE]))
           /\ Alike(e, Posted([e EXCEPT !.ongoing = FALSE]))
<1>1. ASSUME NEW f \in EnvType, Alike(e, f) PROVE Alike(e, Posted(f))
  <2>1. Alike(f, Posted(f)) /\ Posted(f) \in EnvType
    BY PostAlike DEF Alike
  <2> QED
    BY <1>1, <2>1, AlikeTwice
<1>2. Alike(e, [e EXCEPT !.ongoing = FALSE]) /\ [e EXCEPT !.ongoing = FALSE] \in EnvType
  BY Zenon, EnvAlike DEF Alike
<1>3. Alike(e, [e EXCEPT !.ongoing = FALSE, !.cleanup = TRUE])
      /\ [e EXCEPT !.ongoing = FALSE, !.cleanup = TRUE] \in EnvType
  BY Zenon, EnvAlike DEF Alike
<1> QED
  BY <1>1, <1>2, <1>3

\* A move of RX or of the command thread is none of TX's.
LEMMA Other ==
    ASSUME pc \in PcType, NEW t \in {"rx", "cmd"}, NEW from, NEW to, Move(t, from, to)
    PROVE  pc'.tx = pc.tx
BY DEF Move, PcType

\* The type invariant after a step, from its parts.
LEMMA OthersTyped ==
    ASSUME env' \in EnvType, pc' \in PcType, leaving' \in [Stages -> Nat],
           held' \in 0 .. MaxNoResp - 1, alarm' \in BOOLEAN, host' \in HostType, NetOK',
           ap' \in ApStates
    PROVE  TypeOK'
BY DEF TypeOK, KeepaliveTypeOK, PcType, HostType, NetOK

-----------------------------------------------------------------------------
(* TX: a step either is calm or ends the thread.                           *)

\* Every step of TX keeps the invariant.
LEMMA TxKeeps == ASSUME IInv, TxStep, ap' \in ApStates PROVE IInv'
<1>0. /\ env \in EnvType /\ pc \in PcType /\ held \in 0 .. MaxNoResp - 1
      /\ alarm \in BOOLEAN /\ host \in HostType /\ NetOK
      /\ leaving \in [Stages -> Nat] /\ TeardownInv
  BY TypesUnfolded DEF IInv
<1>1. CASE Connect
  <2>1. Alike(env, env')
    BY Zenon, <1>1, <1>0, EnvAlike DEF Connect
  <2>2. Move("tx", "connect", "hello")
    BY <1>1 DEF Connect
  <2>3. /\ pc' \in PcType
        /\ pc'.tx = "none" <=> pc.tx = "none"
        /\ pc'.rx = "none" <=> pc.rx = "none"
        /\ pc'.cmd = "tear" <=> pc.cmd = "tear"
    BY <2>2, <1>0, Moves DEF TxPcs, RxPcs, CmdPcs
  <2>4. pc'.tx = "count" => env'.noResp < MaxNoResp
    BY <1>1, <2>2, <1>0, Moves DEF TxPcs, RxPcs, CmdPcs, Connect
  <2>5. Calm
    BY <1>1, <2>1, <2>3, <2>4 DEF Calm, Connect
  <2>6. Rest
    BY <1>1, <1>0, HostTypes, NetSteps DEF Rest, Reasons, Connect
  <2> QED
    BY <2>5, <2>6, CalmKeeps
<1>2. CASE ConnectFails
  <2>1. Alike(env, env')
    BY Zenon, <1>2, <1>0, EnvAlike DEF ConnectFails
  <2>2. Move("tx", "connect", "deinit")
    BY <1>2 DEF ConnectFails
  <2>3. /\ pc' \in PcType
        /\ pc'.tx = "none" <=> pc.tx = "none"
        /\ pc'.rx = "none" <=> pc.rx = "none"
        /\ pc'.cmd = "tear" <=> pc.cmd = "tear"
    BY <2>2, <1>0, Moves DEF TxPcs, RxPcs, CmdPcs
  <2>4. pc'.tx = "count" => env'.noResp < MaxNoResp
    BY <1>2, <2>2, <1>0, Moves DEF TxPcs, RxPcs, CmdPcs, ConnectFails
  <2>5. Calm
    BY <1>2, <2>1, <2>3, <2>4 DEF Calm, ConnectFails
  <2>6. Rest
    BY Zenon, <1>2, <1>0, HostTypes, NetSteps DEF Rest, Reasons, ConnectFails
  <2> QED
    BY <2>5, <2>6, CalmKeeps
<1>3. CASE FirstHeartbeat
  <2>1. Alike(env, env')
    <3>1. env' = [env EXCEPT !.noResp = 1] \/ env' = env
      BY <1>3 DEF FirstHeartbeat
    <3>2. 1 \in 0 .. MaxNoResp
      BY KeepaliveAssumption
    <3> QED
      BY Zenon, <3>1, <3>2, <1>0, EnvAlike
  <2>2. Move("tx", "hello", "spawn")
    BY <1>3 DEF FirstHeartbeat
  <2>3. /\ pc' \in PcType
        /\ pc'.tx = "none" <=> pc.tx = "none"
        /\ pc'.rx = "none" <=> pc.rx = "none"
        /\ pc'.cmd = "tear" <=> pc.cmd = "tear"
    BY <2>2, <1>0, Moves DEF TxPcs, RxPcs, CmdPcs
  <2>4. pc'.tx = "count" => env'.noResp < MaxNoResp
    BY <2>2, <1>0, Moves DEF TxPcs, RxPcs, CmdPcs
  <2>5. Calm
    BY <1>3, <2>1, <2>3, <2>4 DEF Calm, FirstHeartbeat
  <2>6. Rest
    BY <1>3, <1>0, HostTypes, NetSteps DEF Rest, Reasons, FirstHeartbeat
  <2> QED
    BY <2>5, <2>6, CalmKeeps
<1>4. CASE InitRxFails
  <2>1. Alike(env, env')
    BY Zenon, <1>4, <1>0, EnvAlike DEF InitRxFails
  <2>2. Move("tx", "spawn", "deinit")
    BY <1>4 DEF InitRxFails
  <2>3. /\ pc' \in PcType
        /\ pc'.tx = "none" <=> pc.tx = "none"
        /\ pc'.rx = "none" <=> pc.rx = "none"
        /\ pc'.cmd = "tear" <=> pc.cmd = "tear"
    BY <2>2, <1>0, Moves DEF TxPcs, RxPcs, CmdPcs
  <2>4. pc'.tx = "count" => env'.noResp < MaxNoResp
    BY <1>4, <2>2, <1>0, Moves DEF TxPcs, RxPcs, CmdPcs, InitRxFails
  <2>5. Calm
    BY <1>4, <2>1, <2>3, <2>4 DEF Calm, InitRxFails
  <2>6. Rest
    BY Zenon, <1>4, <1>0, HostTypes, NetSteps DEF Rest, Reasons, InitRxFails
  <2> QED
    BY <2>5, <2>6, CalmKeeps
<1>5. CASE ResetReason
  <2>1. Alike(env, env')
    BY Zenon, <1>5, <1>0, EnvAlike DEF ResetReason
  <2>2. Move("tx", "reset", "unvote")
    BY <1>5 DEF ResetReason
  <2>3. /\ pc' \in PcType
        /\ pc'.tx = "none" <=> pc.tx = "none"
        /\ pc'.rx = "none" <=> pc.rx = "none"
        /\ pc'.cmd = "tear" <=> pc.cmd = "tear"
    BY <2>2, <1>0, Moves DEF TxPcs, RxPcs, CmdPcs
  <2>4. pc'.tx = "count" => env'.noResp < MaxNoResp
    BY <1>5, <2>2, <1>0, Moves DEF TxPcs, RxPcs, CmdPcs, ResetReason
  <2>5. Calm
    BY <1>5, <2>1, <2>3, <2>4 DEF Calm, ResetReason
  <2>6. Rest
    BY Zenon, <1>5, <1>0, HostTypes, NetSteps DEF Rest, Reasons, ResetReason
  <2> QED
    BY <2>5, <2>6, CalmKeeps
<1>6. CASE VoteOff
  <2>1. Alike(env, env')
    BY Zenon, <1>6, <1>0, EnvAlike DEF VoteOff
  <2>2. Move("tx", "unvote", "timers")
    BY <1>6 DEF VoteOff
  <2>3. /\ pc' \in PcType
        /\ pc'.tx = "none" <=> pc.tx = "none"
        /\ pc'.rx = "none" <=> pc.rx = "none"
        /\ pc'.cmd = "tear" <=> pc.cmd = "tear"
    BY <2>2, <1>0, Moves DEF TxPcs, RxPcs, CmdPcs
  <2>4. pc'.tx = "count" => env'.noResp < MaxNoResp
    BY <1>6, <2>2, <1>0, Moves DEF TxPcs, RxPcs, CmdPcs, VoteOff
  <2>5. Calm
    BY <1>6, <2>1, <2>3, <2>4 DEF Calm, VoteOff
  <2>6. Rest
    BY Zenon, <1>6, <1>0, HostTypes, NetSteps DEF Rest, Reasons, VoteOff
  <2> QED
    BY <2>5, <2>6, CalmKeeps
<1>7. CASE StartTimer
  <2>1. Alike(env, env')
    BY Zenon, <1>7, <1>0, EnvAlike DEF StartTimer
  <2>2. Move("tx", "timers", "loop")
    BY <1>7 DEF StartTimer
  <2>3. /\ pc' \in PcType
        /\ pc'.tx = "none" <=> pc.tx = "none"
        /\ pc'.rx = "none" <=> pc.rx = "none"
        /\ pc'.cmd = "tear" <=> pc.cmd = "tear"
    BY <2>2, <1>0, Moves DEF TxPcs, RxPcs, CmdPcs
  <2>4. pc'.tx = "count" => env'.noResp < MaxNoResp
    BY <1>7, <2>2, <1>0, Moves DEF TxPcs, RxPcs, CmdPcs, StartTimer
  <2>5. Calm
    BY <1>7, <2>1, <2>3, <2>4 DEF Calm, StartTimer
  <2>6. Rest
    BY <1>7, <1>0, HostTypes, NetSteps DEF Rest, Reasons, StartTimer
  <2> QED
    BY <2>5, <2>6, CalmKeeps
<1>8. CASE TimerFails
  <2>1. Alike(env, env')
    BY Zenon, <1>8, <1>0, EnvAlike DEF TimerFails
  <2>2. Move("tx", "timers", "fail")
    BY <1>8 DEF TimerFails
  <2>3. /\ pc' \in PcType
        /\ pc'.tx = "none" <=> pc.tx = "none"
        /\ pc'.rx = "none" <=> pc.rx = "none"
        /\ pc'.cmd = "tear" <=> pc.cmd = "tear"
    BY <2>2, <1>0, Moves DEF TxPcs, RxPcs, CmdPcs
  <2>4. pc'.tx = "count" => env'.noResp < MaxNoResp
    BY <1>8, <2>2, <1>0, Moves DEF TxPcs, RxPcs, CmdPcs, TimerFails
  <2>5. Calm
    BY <1>8, <2>1, <2>3, <2>4 DEF Calm, TimerFails
  <2>6. Rest
    BY <1>8, <1>0, HostTypes, NetSteps DEF Rest, Reasons, TimerFails
  <2> QED
    BY <2>5, <2>6, CalmKeeps
<1>9. CASE SetAlarm
  <2>1. Alike(env, env')
    BY Zenon, <1>9, <1>0, EnvAlike DEF SetAlarm
  <2>2. Move("tx", "loop", "wait")
    BY <1>9 DEF SetAlarm
  <2>3. /\ pc' \in PcType
        /\ pc'.tx = "none" <=> pc.tx = "none"
        /\ pc'.rx = "none" <=> pc.rx = "none"
        /\ pc'.cmd = "tear" <=> pc.cmd = "tear"
    BY <2>2, <1>0, Moves DEF TxPcs, RxPcs, CmdPcs
  <2>4. pc'.tx = "count" => env'.noResp < MaxNoResp
    BY <1>9, <2>2, <1>0, Moves DEF TxPcs, RxPcs, CmdPcs, SetAlarm
  <2>5. Calm
    BY <1>9, <2>1, <2>3, <2>4 DEF Calm, SetAlarm
  <2>6. Rest
    BY <1>9, <1>0, HostTypes, NetSteps DEF Rest, Reasons, SetAlarm
  <2> QED
    BY <2>5, <2>6, CalmKeeps
<1>10. CASE Woken
  <2>1. Alike(env, env')
    BY <1>10, <1>0, WokenAlike DEF Woken
  <2>2. Move("tx", "wait", "woken")
    BY <1>10 DEF Woken
  <2>3. /\ pc' \in PcType
        /\ pc'.tx = "none" <=> pc.tx = "none"
        /\ pc'.rx = "none" <=> pc.rx = "none"
        /\ pc'.cmd = "tear" <=> pc.cmd = "tear"
    BY <2>2, <1>0, Moves DEF TxPcs, RxPcs, CmdPcs
  <2>4. pc'.tx = "count" => env'.noResp < MaxNoResp
    BY <2>2, <1>0, Moves DEF TxPcs, RxPcs, CmdPcs
  <2>5. Calm
    BY <1>10, <2>1, <2>3, <2>4 DEF Calm, Woken
  <2>6. Rest
    BY <1>10, <1>0, HostTypes, NetSteps DEF Rest, Reasons, Woken
  <2> QED
    BY <2>5, <2>6, CalmKeeps
<1>11. CASE LoopEnds
  <2>1. Alike(env, env')
    BY Zenon, <1>11, <1>0, EnvAlike DEF LoopEnds
  <2>2. Move("tx", "loop", "deinit") \/ Move("tx", "woken", "deinit")
    BY <1>11 DEF LoopEnds
  <2>3. /\ pc' \in PcType
        /\ pc'.tx = "none" <=> pc.tx = "none"
        /\ pc'.rx = "none" <=> pc.rx = "none"
        /\ pc'.cmd = "tear" <=> pc.cmd = "tear"
    <3>1. CASE Move("tx", "loop", "deinit")
      BY <3>1, <1>0, Moves DEF TxPcs, RxPcs, CmdPcs
    <3>2. CASE Move("tx", "woken", "deinit")
      BY <3>2, <1>0, Moves DEF TxPcs, RxPcs, CmdPcs
    <3> QED
      BY <2>2, <3>1, <3>2
  <2>4. pc'.tx = "count" => env'.noResp < MaxNoResp
    <3>1. CASE Move("tx", "loop", "deinit")
      BY <3>1, <1>0, Moves DEF TxPcs, RxPcs, CmdPcs
    <3>2. CASE Move("tx", "woken", "deinit")
      BY <3>2, <1>0, Moves DEF TxPcs, RxPcs, CmdPcs
    <3> QED
      BY <2>2, <3>1, <3>2
  <2>5. Calm
    BY <1>11, <2>1, <2>3, <2>4 DEF Calm, LoopEnds
  <2>6. Rest
    BY <1>11, <1>0, HostTypes, NetSteps DEF Rest, Reasons, LoopEnds
  <2> QED
    BY <2>5, <2>6, CalmKeeps
<1>12. CASE NotSent
  <2>1. Alike(env, env')
    BY Zenon, <1>12, <1>0, EnvAlike DEF NotSent
  <2>2. Move("tx", "woken", "loop")
    BY <1>12 DEF NotSent
  <2>3. /\ pc' \in PcType
        /\ pc'.tx = "none" <=> pc.tx = "none"
        /\ pc'.rx = "none" <=> pc.rx = "none"
        /\ pc'.cmd = "tear" <=> pc.cmd = "tear"
    BY <2>2, <1>0, Moves DEF TxPcs, RxPcs, CmdPcs
  <2>4. pc'.tx = "count" => env'.noResp < MaxNoResp
    BY <1>12, <2>2, <1>0, Moves DEF TxPcs, RxPcs, CmdPcs, NotSent
  <2>5. Calm
    BY <1>12, <2>1, <2>3, <2>4 DEF Calm, NotSent
  <2>6. Rest
    BY <1>12, <1>0, HostTypes, NetSteps DEF Rest, Reasons, NotSent
  <2> QED
    BY <2>5, <2>6, CalmKeeps
<1>13. CASE Heartbeat
  <2>1. Alike(env, env')
    BY Zenon, <1>13, <1>0, EnvAlike DEF Heartbeat
  <2>2. Move("tx", "woken", "count")
    BY <1>13 DEF Heartbeat
  <2>3. /\ pc' \in PcType
        /\ pc'.tx = "none" <=> pc.tx = "none"
        /\ pc'.rx = "none" <=> pc.rx = "none"
        /\ pc'.cmd = "tear" <=> pc.cmd = "tear"
    BY <2>2, <1>0, Moves DEF TxPcs, RxPcs, CmdPcs
  <2>4. pc'.tx = "count" => env'.noResp < MaxNoResp
    BY <1>13, <2>2, <1>0, Moves DEF TxPcs, RxPcs, CmdPcs, Heartbeat
  <2>5. Calm
    BY <1>13, <2>1, <2>3, <2>4 DEF Calm, Heartbeat
  <2>6. Rest
    BY <1>13, <1>0, HostTypes, NetSteps DEF Rest, Reasons, Heartbeat
  <2> QED
    BY <2>5, <2>6, CalmKeeps
<1>14. CASE ReadCount
  <2>1. Alike(env, env')
    BY Zenon, <1>14, <1>0, EnvAlike DEF ReadCount
  <2>2. Move("tx", "count", "store")
    BY <1>14 DEF ReadCount
  <2>3. /\ pc' \in PcType
        /\ pc'.tx = "none" <=> pc.tx = "none"
        /\ pc'.rx = "none" <=> pc.rx = "none"
        /\ pc'.cmd = "tear" <=> pc.cmd = "tear"
    BY <2>2, <1>0, Moves DEF TxPcs, RxPcs, CmdPcs
  <2>4. pc'.tx = "count" => env'.noResp < MaxNoResp
    BY <1>14, <2>2, <1>0, Moves DEF TxPcs, RxPcs, CmdPcs, ReadCount
  <2>5. Calm
    BY <1>14, <2>1, <2>3, <2>4 DEF Calm, ReadCount
  <2>6. Rest
    <3>1. pc.tx = "count"
      BY <2>2, <1>0, Moves DEF TxPcs
    <3>2. held' \in 0 .. MaxNoResp - 1
      BY <1>14, <3>1, <1>0, KeepaliveAssumption DEF ReadCount, TeardownInv, EnvType
    <3> QED
      BY <1>14, <3>2, <1>0, NetSteps DEF Rest, ReadCount
  <2> QED
    BY <2>5, <2>6, CalmKeeps
<1>15. CASE WriteCount
  <2>1. Alike(env, env')
    <3>1. held + 1 \in 0 .. MaxNoResp
      BY <1>0, KeepaliveAssumption
    <3> QED
      BY Zenon, <1>15, <3>1, <1>0, EnvAlike DEF WriteCount
  <2>2. Move("tx", "store", "loop")
    BY <1>15 DEF WriteCount
  <2>3. /\ pc' \in PcType
        /\ pc'.tx = "none" <=> pc.tx = "none"
        /\ pc'.rx = "none" <=> pc.rx = "none"
        /\ pc'.cmd = "tear" <=> pc.cmd = "tear"
    BY <2>2, <1>0, Moves DEF TxPcs, RxPcs, CmdPcs
  <2>4. pc'.tx = "count" => env'.noResp < MaxNoResp
    BY <2>2, <1>0, Moves DEF TxPcs, RxPcs, CmdPcs
  <2>5. Calm
    BY <1>15, <2>1, <2>3, <2>4 DEF Calm, WriteCount
  <2>6. Rest
    BY <1>15, <1>0, HostTypes, NetSteps DEF Rest, Reasons, WriteCount
  <2> QED
    BY <2>5, <2>6, CalmKeeps
<1>16. CASE Watchdog
  <2>1. Alike(env, env')
    BY Zenon, <1>16, <1>0, EnvAlike DEF Watchdog
  <2>2. Move("tx", "woken", "fail")
    BY <1>16 DEF Watchdog
  <2>3. /\ pc' \in PcType
        /\ pc'.tx = "none" <=> pc.tx = "none"
        /\ pc'.rx = "none" <=> pc.rx = "none"
        /\ pc'.cmd = "tear" <=> pc.cmd = "tear"
    BY <2>2, <1>0, Moves DEF TxPcs, RxPcs, CmdPcs
  <2>4. pc'.tx = "count" => env'.noResp < MaxNoResp
    BY <1>16, <2>2, <1>0, Moves DEF TxPcs, RxPcs, CmdPcs, Watchdog
  <2>5. Calm
    BY <1>16, <2>1, <2>3, <2>4 DEF Calm, Watchdog
  <2>6. Rest
    BY <1>16, <1>0, HostTypes, NetSteps DEF Rest, Reasons, Watchdog
  <2> QED
    BY <2>5, <2>6, CalmKeeps
<1>17. CASE SetReason("tx")
  <2>1. Alike(env, env')
    BY Zenon, <1>17, <1>0, EnvAlike DEF SetReason
  <2>2. Move("tx", "fail", "failVote")
    BY <1>17, <1>0 DEF SetReason, Move, PcType, TxPcs
  <2>3. /\ pc' \in PcType
        /\ pc'.tx = "none" <=> pc.tx = "none"
        /\ pc'.rx = "none" <=> pc.rx = "none"
        /\ pc'.cmd = "tear" <=> pc.cmd = "tear"
    BY <2>2, <1>0, Moves DEF TxPcs, RxPcs, CmdPcs
  <2>4. pc'.tx = "count" => env'.noResp < MaxNoResp
    BY <2>2, <1>0, Moves DEF TxPcs, RxPcs, CmdPcs
  <2>5. Calm
    BY <1>17, <2>1, <2>3, <2>4 DEF Calm, SetReason
  <2>6. Rest
    BY Zenon, <1>17, <1>0, HostTypes, NetSteps DEF Rest, Reasons, SetReason
  <2> QED
    BY <2>5, <2>6, CalmKeeps
<1>18. CASE VoteOn("tx")
  <2>1. Alike(env, env')
    BY Zenon, <1>18, <1>0, EnvAlike DEF VoteOn
  <2>2. Move("tx", "failVote", "deinit")
    BY <1>18, <1>0 DEF VoteOn, Move, PcType, TxPcs
  <2>3. /\ pc' \in PcType
        /\ pc'.tx = "none" <=> pc.tx = "none"
        /\ pc'.rx = "none" <=> pc.rx = "none"
        /\ pc'.cmd = "tear" <=> pc.cmd = "tear"
    BY <2>2, <1>0, Moves DEF TxPcs, RxPcs, CmdPcs
  <2>4. pc'.tx = "count" => env'.noResp < MaxNoResp
    BY <2>2, <1>0, Moves DEF TxPcs, RxPcs, CmdPcs
  <2>5. Calm
    BY <1>18, <2>1, <2>3, <2>4 DEF Calm, VoteOn
  <2>6. Rest
    BY <1>18, <1>0, HostTypes, NetSteps DEF Rest, Reasons, VoteOn
  <2> QED
    BY <2>5, <2>6, CalmKeeps
<1>19. CASE Deinit("tx")
  <2>1. Alike(env, env')
    BY Zenon, <1>19, <1>0, DeinitAlike DEF Deinit
  <2>2. Move("tx", "deinit", "close")
    BY <1>19 DEF Deinit
  <2>3. /\ pc' \in PcType
        /\ pc'.tx = "none" <=> pc.tx = "none"
        /\ pc'.rx = "none" <=> pc.rx = "none"
        /\ pc'.cmd = "tear" <=> pc.cmd = "tear"
    BY <2>2, <1>0, Moves DEF TxPcs, RxPcs, CmdPcs
  <2>4. pc'.tx = "count" => env'.noResp < MaxNoResp
    BY <2>2, <1>0, Moves DEF TxPcs, RxPcs, CmdPcs
  <2>5. Calm
    BY <1>19, <2>1, <2>3, <2>4 DEF Calm, Deinit
  <2>6. Rest
    BY <1>19, <1>0, HostTypes, NetSteps DEF Rest, Reasons, Deinit
  <2> QED
    BY <2>5, <2>6, CalmKeeps
<1>20. CASE CloseSocket("tx")
  <2>1. Alike(env, env')
    BY Zenon, <1>20, <1>0, EnvAlike DEF CloseSocket
  <2>2. Move("tx", "close", "clear")
    BY <1>20 DEF CloseSocket
  <2>3. /\ pc' \in PcType
        /\ pc'.tx = "none" <=> pc.tx = "none"
        /\ pc'.rx = "none" <=> pc.rx = "none"
        /\ pc'.cmd = "tear" <=> pc.cmd = "tear"
    BY <2>2, <1>0, Moves DEF TxPcs, RxPcs, CmdPcs
  <2>4. pc'.tx = "count" => env'.noResp < MaxNoResp
    BY <2>2, <1>0, Moves DEF TxPcs, RxPcs, CmdPcs
  <2>5. Calm
    BY <1>20, <2>1, <2>3, <2>4 DEF Calm, CloseSocket
  <2>6. Rest
    BY <1>20, <1>0, HostTypes, NetSteps DEF Rest, Reasons, CloseSocket
  <2> QED
    BY <2>5, <2>6, CalmKeeps
<1>21. CASE InitRx
  <2>1. /\ env' \in EnvType /\ env'.rx = TRUE /\ env'.tx = env.tx
        /\ env'.releasing = env.releasing /\ env'.cleanup = env.cleanup /\ env'.ongoing = env.ongoing
        /\ env'.buffers = env.buffers /\ env'.sema = env.sema /\ env'.noResp = env.noResp
    BY <1>21, <1>0, Zenon DEF InitRx, EnvType
  <2>2. pc' \in PcType /\ pc.tx = "spawn" /\ pc'.tx = "reset" /\ pc'.rx = "loop" /\ pc'.cmd = pc.cmd
    BY <1>21, <1>0 DEF InitRx, PcType, TxPcs, RxPcs
  <2>3. leaving' = leaving
    BY <1>21 DEF InitRx
  <2>4. TypeOK'
    BY <1>21, <1>0, <2>1, <2>2, <2>3, NetSteps, OthersTyped DEF InitRx
  <2>5. TeardownInv'
    BY <1>0, <2>1, <2>2, <2>3 DEF TeardownInv, Tearing
  <2> QED
    BY <2>4, <2>5 DEF IInv
<1>22. CASE ClearHandle("tx")
  <2>1. /\ env' \in EnvType /\ env'.tx = FALSE /\ env'.rx = env.rx
        /\ env'.releasing = env.releasing /\ env'.cleanup = env.cleanup /\ env'.ongoing = env.ongoing
        /\ env'.buffers = env.buffers /\ env'.sema = env.sema /\ env'.noResp = env.noResp
    BY <1>22, <1>0, Zenon DEF ClearHandle, EnvType
  <2>2. pc' \in PcType /\ pc.tx = "clear" /\ pc'.tx = "none" /\ pc'.rx = pc.rx /\ pc'.cmd = pc.cmd
    BY <1>22, <1>0, Moves DEF ClearHandle, TxPcs, RxPcs
  <2>3. leaving' \in [Stages -> Nat] /\ leaving'["tear"] = leaving["tear"]
    BY <1>22, <1>0 DEF ClearHandle, Stages
  <2>4. TypeOK'
    BY <1>22, <1>0, <2>1, <2>2, <2>3, NetSteps, OthersTyped DEF ClearHandle
  <2>5. TeardownInv'
    BY <1>0, <2>1, <2>2, <2>3 DEF TeardownInv, Tearing
  <2> QED
    BY <2>4, <2>5 DEF IInv
<1> QED
  BY <1>1, <1>2, <1>3, <1>4, <1>5, <1>6, <1>7, <1>8, <1>9, <1>10, <1>11, <1>12, <1>13, <1>14, <1>15, <1>16, <1>17, <1>18, <1>19, <1>20, <1>21, <1>22 DEF TxStep

-----------------------------------------------------------------------------
(* RX.                                                                     *)

\* Every step of RX keeps the invariant.
LEMMA RxKeeps == ASSUME IInv, RxStep, ap' \in ApStates PROVE IInv'
<1>0. /\ env \in EnvType /\ pc \in PcType /\ held \in 0 .. MaxNoResp - 1
      /\ alarm \in BOOLEAN /\ host \in HostType /\ NetOK
      /\ leaving \in [Stages -> Nat] /\ TeardownInv
  BY TypesUnfolded DEF IInv
<1>1. CASE RxLoop
  <2>1. Alike(env, env')
    BY Zenon, <1>1, <1>0, EnvAlike DEF RxLoop
  <2>2. Move("rx", "loop", "recv") \/ Move("rx", "loop", "exit")
    BY <1>1 DEF RxLoop
  <2>3. /\ pc' \in PcType
        /\ pc'.tx = "none" <=> pc.tx = "none"
        /\ pc'.rx = "none" <=> pc.rx = "none"
        /\ pc'.cmd = "tear" <=> pc.cmd = "tear"
    <3>1. CASE Move("rx", "loop", "recv")
      BY <3>1, <1>0, Moves DEF TxPcs, RxPcs, CmdPcs
    <3>2. CASE Move("rx", "loop", "exit")
      BY <3>2, <1>0, Moves DEF TxPcs, RxPcs, CmdPcs
    <3> QED
      BY <2>2, <3>1, <3>2
  <2>4. pc'.tx = "count" => env'.noResp < MaxNoResp
    <3>1. pc'.tx = pc.tx
      BY <2>2, <1>0, Other
    <3>2. env'.noResp \in {0, env.noResp}
      BY <1>1, <1>0 DEF RxLoop
    <3> QED
      BY <3>1, <3>2, <1>0, KeepaliveAssumption DEF TeardownInv, EnvType
  <2>5. Calm
    BY <1>1, <2>1, <2>3, <2>4 DEF Calm, RxLoop
  <2>6. Rest
    BY <1>1, <1>0, HostTypes, NetSteps DEF Rest, Reasons, RxLoop
  <2> QED
    BY <2>5, <2>6, CalmKeeps
<1>2. CASE RecvResponse
  <2>1. Alike(env, env')
    <3>1. env' = [env EXCEPT !.noResp = 0] \/ env' = env
      BY <1>2 DEF RecvResponse
    <3>2. 0 \in 0 .. MaxNoResp
      BY KeepaliveAssumption
    <3> QED
      BY Zenon, <3>1, <3>2, <1>0, EnvAlike
  <2>2. Move("rx", "recv", "loop")
    BY <1>2 DEF RecvResponse
  <2>3. /\ pc' \in PcType
        /\ pc'.tx = "none" <=> pc.tx = "none"
        /\ pc'.rx = "none" <=> pc.rx = "none"
        /\ pc'.cmd = "tear" <=> pc.cmd = "tear"
    BY <2>2, <1>0, Moves DEF TxPcs, RxPcs, CmdPcs
  <2>4. pc'.tx = "count" => env'.noResp < MaxNoResp
    <3>1. pc'.tx = pc.tx
      BY <2>2, <1>0, Other
    <3>2. env'.noResp \in {0, env.noResp}
      BY <1>2, <1>0 DEF RecvResponse, EnvType
    <3> QED
      BY <3>1, <3>2, <1>0, KeepaliveAssumption DEF TeardownInv, EnvType
  <2>5. Calm
    BY <1>2, <2>1, <2>3, <2>4 DEF Calm, RecvResponse, Recv
  <2>6. Rest
    <3>1. NetOK'
      BY <1>2, <1>0, NetSteps DEF RecvResponse
    <3> QED
      BY <1>2, <3>1, <1>0 DEF Rest, RecvResponse, Recv
  <2> QED
    BY <2>5, <2>6, CalmKeeps
<1>3. CASE RecvWake
  <2>1. Alike(env, env')
    BY Zenon, <1>3, <1>0, EnvAlike DEF RecvWake
  <2>2. Move("rx", "recv", "loop") \/ Move("rx", "recv", "media")
    BY <1>3 DEF RecvWake
  <2>3. /\ pc' \in PcType
        /\ pc'.tx = "none" <=> pc.tx = "none"
        /\ pc'.rx = "none" <=> pc.rx = "none"
        /\ pc'.cmd = "tear" <=> pc.cmd = "tear"
    <3>1. CASE Move("rx", "recv", "loop")
      BY <3>1, <1>0, Moves DEF TxPcs, RxPcs, CmdPcs
    <3>2. CASE Move("rx", "recv", "media")
      BY <3>2, <1>0, Moves DEF TxPcs, RxPcs, CmdPcs
    <3> QED
      BY <2>2, <3>1, <3>2
  <2>4. pc'.tx = "count" => env'.noResp < MaxNoResp
    <3>1. pc'.tx = pc.tx
      BY <2>2, <1>0, Other
    <3>2. env'.noResp \in {0, env.noResp}
      BY <1>3, <1>0 DEF RecvWake
    <3> QED
      BY <3>1, <3>2, <1>0, KeepaliveAssumption DEF TeardownInv, EnvType
  <2>5. Calm
    BY <1>3, <2>1, <2>3, <2>4 DEF Calm, RecvWake, Recv
  <2>6. Rest
    <3>1. NetOK'
      BY <1>3, <1>0, NetSteps DEF RecvWake
    <3> QED
      BY <1>3, <3>1, <1>0 DEF Rest, RecvWake, Recv
  <2> QED
    BY <2>5, <2>6, CalmKeeps
<1>4. CASE RecvLost
  <2>1. Alike(env, env')
    BY Zenon, <1>4, <1>0, EnvAlike DEF RecvLost
  <2>2. Move("rx", "recv", "fail")
    BY <1>4 DEF RecvLost
  <2>3. /\ pc' \in PcType
        /\ pc'.tx = "none" <=> pc.tx = "none"
        /\ pc'.rx = "none" <=> pc.rx = "none"
        /\ pc'.cmd = "tear" <=> pc.cmd = "tear"
    BY <2>2, <1>0, Moves DEF TxPcs, RxPcs, CmdPcs
  <2>4. pc'.tx = "count" => env'.noResp < MaxNoResp
    <3>1. pc'.tx = pc.tx
      BY <2>2, <1>0, Other
    <3>2. env'.noResp \in {0, env.noResp}
      BY <1>4, <1>0 DEF RecvLost
    <3> QED
      BY <3>1, <3>2, <1>0, KeepaliveAssumption DEF TeardownInv, EnvType
  <2>5. Calm
    BY <1>4, <2>1, <2>3, <2>4 DEF Calm, RecvLost
  <2>6. Rest
    BY <1>4, <1>0, HostTypes, NetSteps DEF Rest, Reasons, RecvLost
  <2> QED
    BY <2>5, <2>6, CalmKeeps
<1>5. CASE RecvIdle
  <2>1. Alike(env, env')
    BY Zenon, <1>5, <1>0, EnvAlike DEF RecvIdle
  <2>2. Move("rx", "recv", "loop")
    BY <1>5 DEF RecvIdle
  <2>3. /\ pc' \in PcType
        /\ pc'.tx = "none" <=> pc.tx = "none"
        /\ pc'.rx = "none" <=> pc.rx = "none"
        /\ pc'.cmd = "tear" <=> pc.cmd = "tear"
    BY <2>2, <1>0, Moves DEF TxPcs, RxPcs, CmdPcs
  <2>4. pc'.tx = "count" => env'.noResp < MaxNoResp
    <3>1. pc'.tx = pc.tx
      BY <2>2, <1>0, Other
    <3>2. env'.noResp \in {0, env.noResp}
      BY <1>5, <1>0 DEF RecvIdle
    <3> QED
      BY <3>1, <3>2, <1>0, KeepaliveAssumption DEF TeardownInv, EnvType
  <2>5. Calm
    BY <1>5, <2>1, <2>3, <2>4 DEF Calm, RecvIdle
  <2>6. Rest
    BY <1>5, <1>0, HostTypes, NetSteps DEF Rest, Reasons, RecvIdle
  <2> QED
    BY <2>5, <2>6, CalmKeeps
<1>6. CASE SetReason("rx")
  <2>1. Alike(env, env')
    BY Zenon, <1>6, <1>0, EnvAlike DEF SetReason
  <2>2. Move("rx", "media", "mediaVote") \/ Move("rx", "fail", "failVote")
    BY <1>6 DEF SetReason
  <2>3. /\ pc' \in PcType
        /\ pc'.tx = "none" <=> pc.tx = "none"
        /\ pc'.rx = "none" <=> pc.rx = "none"
        /\ pc'.cmd = "tear" <=> pc.cmd = "tear"
    <3>1. CASE Move("rx", "media", "mediaVote")
      BY <3>1, <1>0, Moves DEF TxPcs, RxPcs, CmdPcs
    <3>2. CASE Move("rx", "fail", "failVote")
      BY <3>2, <1>0, Moves DEF TxPcs, RxPcs, CmdPcs
    <3> QED
      BY <2>2, <3>1, <3>2
  <2>4. pc'.tx = "count" => env'.noResp < MaxNoResp
    <3>1. pc'.tx = pc.tx
      BY <2>2, <1>0, Other
    <3>2. env'.noResp \in {0, env.noResp}
      BY <1>6, <1>0 DEF SetReason
    <3> QED
      BY <3>1, <3>2, <1>0, KeepaliveAssumption DEF TeardownInv, EnvType
  <2>5. Calm
    BY <1>6, <2>1, <2>3, <2>4 DEF Calm, SetReason
  <2>6. Rest
    BY Zenon, <1>6, <1>0, HostTypes, NetSteps DEF Rest, Reasons, SetReason
  <2> QED
    BY <2>5, <2>6, CalmKeeps
<1>7. CASE VoteOn("rx")
  <2>1. Alike(env, env')
    BY Zenon, <1>7, <1>0, EnvAlike DEF VoteOn
  <2>2. Move("rx", "mediaVote", "loop") \/ Move("rx", "failVote", "exit")
    BY <1>7 DEF VoteOn
  <2>3. /\ pc' \in PcType
        /\ pc'.tx = "none" <=> pc.tx = "none"
        /\ pc'.rx = "none" <=> pc.rx = "none"
        /\ pc'.cmd = "tear" <=> pc.cmd = "tear"
    <3>1. CASE Move("rx", "mediaVote", "loop")
      BY <3>1, <1>0, Moves DEF TxPcs, RxPcs, CmdPcs
    <3>2. CASE Move("rx", "failVote", "exit")
      BY <3>2, <1>0, Moves DEF TxPcs, RxPcs, CmdPcs
    <3> QED
      BY <2>2, <3>1, <3>2
  <2>4. pc'.tx = "count" => env'.noResp < MaxNoResp
    <3>1. pc'.tx = pc.tx
      BY <2>2, <1>0, Other
    <3>2. env'.noResp \in {0, env.noResp}
      BY <1>7, <1>0 DEF VoteOn
    <3> QED
      BY <3>1, <3>2, <1>0, KeepaliveAssumption DEF TeardownInv, EnvType
  <2>5. Calm
    BY <1>7, <2>1, <2>3, <2>4 DEF Calm, VoteOn
  <2>6. Rest
    BY <1>7, <1>0, HostTypes, NetSteps DEF Rest, Reasons, VoteOn
  <2> QED
    BY <2>5, <2>6, CalmKeeps
<1>8. CASE RxExit
  <2>1. Alike(env, env')
    BY Zenon, <1>8, <1>0, DeinitAlike DEF RxExit
  <2>2. Move("rx", "exit", "clear")
    BY <1>8 DEF RxExit
  <2>3. /\ pc' \in PcType
        /\ pc'.tx = "none" <=> pc.tx = "none"
        /\ pc'.rx = "none" <=> pc.rx = "none"
        /\ pc'.cmd = "tear" <=> pc.cmd = "tear"
    BY <2>2, <1>0, Moves DEF TxPcs, RxPcs, CmdPcs
  <2>4. pc'.tx = "count" => env'.noResp < MaxNoResp
    <3>1. pc'.tx = pc.tx
      BY <2>2, <1>0, Other
    <3>2. env'.noResp \in {0, env.noResp}
      BY Zenon, <1>8, <1>0, PostKeeps DEF RxExit
    <3> QED
      BY <3>1, <3>2, <1>0, KeepaliveAssumption DEF TeardownInv, EnvType
  <2>5. Calm
    BY <1>8, <2>1, <2>3, <2>4 DEF Calm, RxExit
  <2>6. Rest
    BY <1>8, <1>0, HostTypes, NetSteps DEF Rest, Reasons, RxExit
  <2> QED
    BY <2>5, <2>6, CalmKeeps
<1>9. CASE ClearHandle("rx")
  <2>1. /\ env' \in EnvType /\ env'.rx = FALSE /\ env'.tx = env.tx
        /\ env'.releasing = env.releasing /\ env'.cleanup = env.cleanup /\ env'.ongoing = env.ongoing
        /\ env'.buffers = env.buffers /\ env'.sema = env.sema /\ env'.noResp = env.noResp
    BY <1>9, <1>0, Zenon DEF ClearHandle, EnvType
  <2>2. pc' \in PcType /\ pc.rx = "clear" /\ pc'.rx = "none" /\ pc'.tx = pc.tx /\ pc'.cmd = pc.cmd
    BY <1>9, <1>0, Moves DEF ClearHandle, TxPcs, RxPcs
  <2>3. leaving' \in [Stages -> Nat] /\ leaving'["tear"] = leaving["tear"]
    BY <1>9, <1>0 DEF ClearHandle, Stages
  <2>4. TypeOK'
    BY <1>9, <1>0, <2>1, <2>2, <2>3, NetSteps, OthersTyped DEF ClearHandle
  <2>5. TeardownInv'
    BY <1>0, <2>1, <2>2, <2>3 DEF TeardownInv, Tearing
  <2> QED
    BY <2>4, <2>5 DEF IInv
<1> QED
  BY <1>1, <1>2, <1>3, <1>4, <1>5, <1>6, <1>7, <1>8, <1>9 DEF RxStep

-----------------------------------------------------------------------------
(* The teardown.                                                           *)

\* Tearing is counted by the flag: nobody releases without it.
LEMMA TearingIs ==
    ASSUME leaving \in [Stages -> Nat], TeardownInv
    PROVE  /\ leaving["tear"] \in Nat /\ leaving["tear"] <= 1
           /\ env.releasing => leaving["tear"] + (IF pc.cmd = "tear" THEN 1 ELSE 0) = 1
           /\ leaving["tear"] > 0 => env.releasing /\ leaving["tear"] = 1 /\ pc.cmd # "tear"
           /\ pc.cmd = "tear" => env.releasing /\ leaving["tear"] = 0
           /\ ~env.releasing => leaving["tear"] = 0 /\ pc.cmd # "tear"
BY DEF TeardownInv, Tearing, Stages

\* An old thread moves alone from one stage of its release to the next.
LEMMA Steps ==
    ASSUME leaving \in [Stages -> Nat], NEW from \in Stages, NEW to, Step(from, to)
    PROVE  /\ leaving' \in [Stages -> Nat]
           /\ leaving'["tear"] = leaving["tear"] + (IF to = "tear" THEN 1 ELSE 0)
                                                - (IF from = "tear" THEN 1 ELSE 0)
           /\ leaving[from] > 0
BY DEF Step, Stages

\* The claim sets the flag exactly when it succeeds and nothing else.
LEMMA Claims ==
    ASSUME env \in EnvType, Claim
    PROVE  /\ env' \in EnvType /\ env'.tx = env.tx /\ env'.rx = env.rx
           /\ env'.cleanup = env.cleanup /\ env'.ongoing = env.ongoing
           /\ env'.buffers = env.buffers
           /\ env'.sema = env.sema /\ env'.noResp = env.noResp
           /\ Claimable => env'.releasing = TRUE
           /\ ~Claimable => env'.releasing = env.releasing
<1>1. env.releasing \in BOOLEAN /\ Claimable \in BOOLEAN
  BY DEF EnvType, Claimable
<1>2. PICK b \in BOOLEAN : env' = [env EXCEPT !.releasing = b] /\ (b <=> env.releasing \/ Claimable)
  BY <1>1 DEF Claim
<1>3. /\ env' \in EnvType /\ env'.tx = env.tx /\ env'.rx = env.rx
      /\ env'.cleanup = env.cleanup /\ env'.ongoing = env.ongoing /\ env'.buffers = env.buffers
      /\ env'.sema = env.sema /\ env'.noResp = env.noResp /\ env'.releasing = b
  BY <1>2, Zenon DEF EnvType
<1> QED
  BY <1>1, <1>2, <1>3

\* The records a release or a start leaves behind.
LEMMA Blanks ==
    /\ Cleared \in EnvType /\ Blank \in EnvType /\ NewSession \in EnvType
    /\ \A e \in {Cleared, Blank} : ~e.tx /\ ~e.rx /\ ~e.releasing /\ ~e.cleanup /\ e.noResp = 0
    /\ NewSession.tx /\ ~NewSession.rx /\ ~NewSession.releasing /\ ~NewSession.cleanup /\ NewSession.noResp = 0
    /\ NewSession.buffers /\ NewSession.sema = "empty"
<1>1. 0 \in 0 .. MaxNoResp
  BY KeepaliveAssumption
<1>2. Cleared \in EnvType /\ ~Cleared.tx /\ ~Cleared.rx /\ ~Cleared.releasing /\ ~Cleared.cleanup /\ Cleared.noResp = 0
  BY <1>1 DEF Cleared, EnvType
<1>3. Blank \in EnvType /\ ~Blank.tx /\ ~Blank.rx /\ ~Blank.releasing /\ ~Blank.cleanup /\ Blank.noResp = 0
  BY <1>1 DEF Blank, Cleared, EnvType
<1>4. /\ NewSession \in EnvType /\ NewSession.tx /\ ~NewSession.rx /\ ~NewSession.releasing
      /\ ~NewSession.cleanup /\ NewSession.noResp = 0 /\ NewSession.buffers /\ NewSession.sema = "empty"
  BY <1>1 DEF NewSession, Blank, Cleared, EnvType
<1> QED
  BY <1>2, <1>3, <1>4

\* Every step of a thread on its way out keeps the invariant.
LEMMA LeaverKeeps == ASSUME IInv, Leaver, ap' \in ApStates PROVE IInv'
<1>0. /\ env \in EnvType /\ pc \in PcType /\ held \in 0 .. MaxNoResp - 1
      /\ alarm \in BOOLEAN /\ host \in HostType /\ NetOK
      /\ leaving \in [Stages -> Nat] /\ TeardownInv
  BY TypesUnfolded DEF IInv
<1> USE DEF Stages
<1>1. ASSUME Claim, Step("claim", IF Claimable THEN "tear" ELSE "gone"),
             UNCHANGED <<pc, held, alarm, host, netVars>>
      PROVE  IInv'
  <2>1. leaving' \in [Stages -> Nat]
        /\ leaving'["tear"] = leaving["tear"] + (IF Claimable THEN 1 ELSE 0)
    BY <1>0, <1>1, Steps
  <2>2. Tearing' = Tearing + (IF Claimable THEN 1 ELSE 0)
    BY <1>0, <1>1, <2>1 DEF Tearing
  <2>3. TypeOK'
    BY <1>0, <1>1, <2>1, Claims, NetSteps, OthersTyped
  <2>4. CASE Claimable
    <3>1. env.cleanup /\ ~env.releasing /\ ~env.tx /\ ~env.rx
      BY <2>4 DEF Claimable
    <3>2. Tearing' = 1
      BY <1>0, <2>2, <2>4, <3>1 DEF TeardownInv
    <3>3. env'.releasing /\ env'.cleanup /\ ~env'.tx /\ ~env'.rx
      BY <1>0, <1>1, <2>4, <3>1, Claims
    <3> QED
      BY <1>0, <1>1, <2>3, <3>2, <3>3, Claims DEF TeardownInv, IInv
  <2>5. CASE ~Claimable
    BY <1>0, <1>1, <2>2, <2>3, <2>5, Claims DEF TeardownInv, IInv
  <2> QED
    BY <2>4, <2>5
<1>2. ASSUME Tear, Step("tear", IF "preempt" \in Faults THEN "stray" ELSE "gone"),
             UNCHANGED <<pc, held, host>>
      PROVE  IInv'
  <2>1. leaving["tear"] > 0 /\ leaving' \in [Stages -> Nat]
        /\ leaving'["tear"] = leaving["tear"] - 1
    BY <1>0, <1>2, Steps
  <2>2. env.releasing /\ leaving'["tear"] = 0 /\ pc'.cmd # "tear" /\ ~env.tx /\ ~env.rx
    BY <1>0, <1>2, <2>1, TearingIs DEF TeardownInv
  <2>3. env' \in {Cleared, Blank} /\ alarm' \in BOOLEAN
    BY <1>0, <1>2 DEF Tear, EnvType
  <2>4. TypeOK'
    <3>1. NetOK'
      BY <1>0, <1>2, NetSteps DEF Tear
    <3> QED
      BY <1>0, <1>2, <2>1, <2>3, <3>1, Blanks, OthersTyped
  <2>5. TeardownInv'
    BY <1>0, <1>2, <2>2, <2>3, Blanks, KeepaliveAssumption DEF TeardownInv, Tearing
  <2> QED
    BY <2>4, <2>5 DEF IInv
<1>3. ASSUME ResetSock, Step("stray", "gone"), UNCHANGED <<pc, held, alarm, host, netVars>>
      PROVE  IInv'
  <2>1. leaving' \in [Stages -> Nat] /\ leaving'["tear"] = leaving["tear"]
    BY <1>0, <1>3, Steps
  <2>2. Alike(env, env') /\ env'.noResp = env.noResp
    BY Zenon, <1>0, <1>3, EnvAlike DEF ResetSock, EnvType
  <2>3. TypeOK'
    BY <1>0, <1>3, <2>1, <2>2, NetSteps, OthersTyped DEF Alike
  <2>4. TeardownInv'
    BY <1>0, <1>3, <2>1, <2>2 DEF TeardownInv, Tearing, Alike, Core
  <2> QED
    BY <2>3, <2>4 DEF IInv
<1> QED
  BY <1>1, <1>2, <1>3 DEF Leaver

\* So does the release by the command thread.
LEMMA CmdReleaseKeeps == ASSUME IInv, CmdRelease, ap' \in ApStates PROVE IInv'
<1>0. /\ env \in EnvType /\ pc \in PcType /\ held \in 0 .. MaxNoResp - 1
      /\ alarm \in BOOLEAN /\ host \in HostType /\ NetOK
      /\ leaving \in [Stages -> Nat] /\ TeardownInv
  BY TypesUnfolded DEF IInv
<1>1. ASSUME Claim, Move("cmd", "claim", IF Claimable THEN "tear" ELSE "idle"),
             UNCHANGED <<leaving, held, alarm, host, netVars>>
      PROVE  IInv'
  <2>1. /\ pc' \in PcType /\ pc'.tx = pc.tx /\ pc'.rx = pc.rx /\ pc.cmd = "claim"
        /\ pc'.cmd = (IF Claimable THEN "tear" ELSE "idle")
    BY <1>0, <1>1, Moves DEF CmdPcs
  <2>2. Tearing' = Tearing + (IF Claimable THEN 1 ELSE 0)
    BY <1>0, <1>1, <2>1 DEF Tearing, Stages
  <2>3. TypeOK'
    BY <1>0, <1>1, <2>1, Claims, NetSteps, OthersTyped
  <2>4. CASE Claimable
    <3>1. env.cleanup /\ ~env.releasing /\ ~env.tx /\ ~env.rx
      BY <2>4 DEF Claimable
    <3>2. Tearing' = 1
      BY <1>0, <2>2, <2>4, <3>1 DEF TeardownInv
    <3>3. env'.releasing /\ env'.cleanup /\ ~env'.tx /\ ~env'.rx
      BY <1>0, <1>1, <2>4, <3>1, Claims
    <3> QED
      BY <1>0, <1>1, <2>1, <2>3, <3>2, <3>3, Claims DEF TeardownInv, IInv
  <2>5. CASE ~Claimable
    BY <1>0, <1>1, <2>1, <2>2, <2>3, <2>5, Claims DEF TeardownInv, IInv
  <2> QED
    BY <2>4, <2>5
<1>2. ASSUME Tear, Move("cmd", "tear", IF "preempt" \in Faults THEN "stray" ELSE "idle"),
             UNCHANGED <<leaving, held, host>>
      PROVE  IInv'
  <2>1. /\ pc' \in PcType /\ pc'.tx = pc.tx /\ pc'.rx = pc.rx
        /\ pc.cmd = "tear" /\ pc'.cmd # "tear"
    BY <1>0, <1>2, Moves DEF CmdPcs
  <2>2. leaving'["tear"] = 0 /\ ~env.tx /\ ~env.rx
    BY <1>0, <1>2, <2>1, TearingIs DEF TeardownInv
  <2>3. env' \in {Cleared, Blank} /\ alarm' \in BOOLEAN
    BY <1>0, <1>2 DEF Tear, EnvType
  <2>4. TypeOK'
    <3>1. NetOK'
      BY <1>0, <1>2, NetSteps DEF Tear
    <3> QED
      BY <1>0, <1>2, <2>1, <2>3, <3>1, Blanks, OthersTyped
  <2>5. TeardownInv'
    BY <1>0, <1>2, <2>1, <2>2, <2>3, Blanks, KeepaliveAssumption DEF TeardownInv, Tearing
  <2> QED
    BY <2>4, <2>5 DEF IInv
<1>3. ASSUME ResetSock, Move("cmd", "stray", "idle"),
             UNCHANGED <<leaving, held, alarm, host, netVars>>
      PROVE  IInv'
  <2>1. pc' \in PcType /\ pc'.tx = pc.tx /\ pc'.rx = pc.rx /\ pc.cmd = "stray" /\ pc'.cmd = "idle"
    BY <1>0, <1>3, Moves DEF CmdPcs
  <2>2. Alike(env, env') /\ env'.noResp = env.noResp
    BY Zenon, <1>0, <1>3, EnvAlike DEF ResetSock, EnvType
  <2>3. Calm
    BY <1>0, <1>3, <2>1, <2>2 DEF Calm, TeardownInv
  <2>4. Rest
    BY <1>0, <1>3, NetSteps DEF Rest
  <2> QED
    BY <2>3, <2>4, CalmKeeps
<1> QED
  BY <1>1, <1>2, <1>3 DEF CmdRelease

-----------------------------------------------------------------------------
(* Commands.                                                               *)

\* Stopping, up to the claim, only asks the threads to go.
LEMMA CommandKeeps ==
    ASSUME IInv, StopCommand \/ StopLooksForTx \/ Deinit("cmd") \/ CloseSocket("cmd"),
           ap' \in ApStates
    PROVE  IInv'
<1>0. /\ env \in EnvType /\ pc \in PcType /\ held \in 0 .. MaxNoResp - 1
      /\ alarm \in BOOLEAN /\ host \in HostType /\ NetOK
      /\ leaving \in [Stages -> Nat] /\ TeardownInv
  BY TypesUnfolded DEF IInv
<1>1. CASE StopCommand
  <2>1. Alike(env, env')
    BY Zenon, <1>1, <1>0, DeinitAlike DEF StopCommand
  <2>2. Move("cmd", "idle", "stopped")
    BY <1>1 DEF StopCommand
  <2>3. /\ pc' \in PcType
        /\ pc'.tx = "none" <=> pc.tx = "none"
        /\ pc'.rx = "none" <=> pc.rx = "none"
        /\ pc'.cmd = "tear" <=> pc.cmd = "tear"
    BY <2>2, <1>0, Moves DEF TxPcs, RxPcs, CmdPcs
  <2>4. pc'.tx = "count" => env'.noResp < MaxNoResp
    <3>1. pc'.tx = pc.tx
      BY <2>2, <1>0, Other
    <3>2. env'.noResp = env.noResp
      BY Zenon, <1>1, <1>0, PostKeeps DEF StopCommand, EnvType
    <3> QED
      BY <3>1, <3>2, <1>0 DEF TeardownInv
  <2>5. Calm
    BY <1>1, <2>1, <2>3, <2>4 DEF Calm, StopCommand
  <2>6. Rest
    BY <1>1, <1>0, HostTypes, NetSteps DEF Rest, Reasons, StopCommand
  <2> QED
    BY <2>5, <2>6, CalmKeeps
<1>2. CASE StopLooksForTx
  <2>1. Alike(env, env')
    BY Zenon, <1>2, <1>0, EnvAlike DEF StopLooksForTx
  <2>2. Move("cmd", "stopped", "idle") \/ Move("cmd", "stopped", "deinit")
    BY <1>2 DEF StopLooksForTx
  <2>3. /\ pc' \in PcType
        /\ pc'.tx = "none" <=> pc.tx = "none"
        /\ pc'.rx = "none" <=> pc.rx = "none"
        /\ pc'.cmd = "tear" <=> pc.cmd = "tear"
    <3>1. CASE Move("cmd", "stopped", "idle")
      BY <3>1, <1>0, Moves DEF TxPcs, RxPcs, CmdPcs
    <3>2. CASE Move("cmd", "stopped", "deinit")
      BY <3>2, <1>0, Moves DEF TxPcs, RxPcs, CmdPcs
    <3> QED
      BY <2>2, <3>1, <3>2
  <2>4. pc'.tx = "count" => env'.noResp < MaxNoResp
    <3>1. pc'.tx = pc.tx
      BY <2>2, <1>0, Other
    <3>2. env'.noResp = env.noResp
      BY Zenon, <1>2, <1>0, PostKeeps DEF StopLooksForTx, EnvType
    <3> QED
      BY <3>1, <3>2, <1>0 DEF TeardownInv
  <2>5. Calm
    BY <1>2, <2>1, <2>3, <2>4 DEF Calm, StopLooksForTx
  <2>6. Rest
    BY <1>2, <1>0, HostTypes, NetSteps DEF Rest, Reasons, StopLooksForTx
  <2> QED
    BY <2>5, <2>6, CalmKeeps
<1>3. CASE Deinit("cmd")
  <2>1. Alike(env, env')
    BY Zenon, <1>3, <1>0, DeinitAlike DEF Deinit
  <2>2. Move("cmd", "deinit", "close")
    BY <1>3 DEF Deinit
  <2>3. /\ pc' \in PcType
        /\ pc'.tx = "none" <=> pc.tx = "none"
        /\ pc'.rx = "none" <=> pc.rx = "none"
        /\ pc'.cmd = "tear" <=> pc.cmd = "tear"
    BY <2>2, <1>0, Moves DEF TxPcs, RxPcs, CmdPcs
  <2>4. pc'.tx = "count" => env'.noResp < MaxNoResp
    <3>1. pc'.tx = pc.tx
      BY <2>2, <1>0, Other
    <3>2. env'.noResp = env.noResp
      BY Zenon, <1>3, <1>0, PostKeeps DEF Deinit, EnvType
    <3> QED
      BY <3>1, <3>2, <1>0 DEF TeardownInv
  <2>5. Calm
    BY <1>3, <2>1, <2>3, <2>4 DEF Calm, Deinit
  <2>6. Rest
    BY <1>3, <1>0, HostTypes, NetSteps DEF Rest, Reasons, Deinit
  <2> QED
    BY <2>5, <2>6, CalmKeeps
<1>4. CASE CloseSocket("cmd")
  <2>1. Alike(env, env')
    BY Zenon, <1>4, <1>0, EnvAlike DEF CloseSocket
  <2>2. Move("cmd", "close", "claim")
    BY <1>4 DEF CloseSocket
  <2>3. /\ pc' \in PcType
        /\ pc'.tx = "none" <=> pc.tx = "none"
        /\ pc'.rx = "none" <=> pc.rx = "none"
        /\ pc'.cmd = "tear" <=> pc.cmd = "tear"
    BY <2>2, <1>0, Moves DEF TxPcs, RxPcs, CmdPcs
  <2>4. pc'.tx = "count" => env'.noResp < MaxNoResp
    <3>1. pc'.tx = pc.tx
      BY <2>2, <1>0, Other
    <3>2. env'.noResp = env.noResp
      BY Zenon, <1>4, <1>0, PostKeeps DEF CloseSocket, EnvType
    <3> QED
      BY <3>1, <3>2, <1>0 DEF TeardownInv
  <2>5. Calm
    BY <1>4, <2>1, <2>3, <2>4 DEF Calm, CloseSocket
  <2>6. Rest
    BY <1>4, <1>0, HostTypes, NetSteps DEF Rest, Reasons, CloseSocket
  <2> QED
    BY <2>5, <2>6, CalmKeeps
<1> QED
  BY <1>1, <1>2, <1>3, <1>4

\* A start that is not refused finds no thread and no release.
LEMMA StartKeeps == ASSUME IInv, StartCommand, ap' \in ApStates PROVE IInv'
<1>0. /\ env \in EnvType /\ pc \in PcType /\ held \in 0 .. MaxNoResp - 1
      /\ alarm \in BOOLEAN /\ host \in HostType /\ NetOK
      /\ leaving \in [Stages -> Nat] /\ TeardownInv
  BY TypesUnfolded DEF IInv
<1>1. ASSUME UNCHANGED <<env, pc>> PROVE IInv'
  <2>1. Calm
    BY Zenon, <1>0, <1>1, EnvAlike DEF Calm, StartCommand, TeardownInv
  <2>2. Rest
    BY <1>0, NetSteps DEF Rest, StartCommand
  <2> QED
    BY <2>1, <2>2, CalmKeeps
<1>2. ASSUME ~Refused PROVE ~env.tx /\ ~env.rx /\ ~env.releasing /\ Tearing = 0
      /\ pc.tx = "none" /\ pc.rx = "none"
  BY <1>0, <1>2 DEF Refused, TeardownInv
<1>3. ASSUME ~Refused, env' = NewSession, Move("tx", "none", "connect") PROVE IInv'
  <2>1. pc' \in PcType /\ pc'.tx = "connect" /\ pc'.rx = pc.rx /\ pc'.cmd = pc.cmd
    BY <1>0, <1>3, Moves DEF TxPcs
  <2>2. TypeOK'
    BY <1>0, <1>3, <2>1, Blanks, NetSteps, OthersTyped DEF StartCommand
  <2>3. Tearing' = 0
    BY <1>2, <1>3, <2>1 DEF Tearing, StartCommand
  <2>4. TeardownInv'
    BY <1>2, <1>3, <2>1, <2>3, Blanks DEF TeardownInv
  <2> QED
    BY <2>2, <2>4 DEF IInv
<1>4. ASSUME ~Refused, env' = Blank, UNCHANGED pc PROVE IInv'
  <2>1. TypeOK'
    BY <1>0, <1>4, Blanks, NetSteps, OthersTyped DEF StartCommand
  <2>2. Tearing' = 0
    BY <1>2, <1>4 DEF Tearing, StartCommand
  <2>3. TeardownInv'
    BY <1>2, <1>4, <2>2, Blanks DEF TeardownInv
  <2> QED
    BY <2>1, <2>3 DEF IInv
<1> QED
  BY <1>1, <1>3, <1>4 DEF StartCommand

-----------------------------------------------------------------------------
(* The alarm, the server, the AP.                                          *)

\* The alarm's callback posts the semaphore and no more.
LEMMA RtcKeeps == ASSUME IInv, RtcFires, ap' \in ApStates PROVE IInv'
<1>0. /\ env \in EnvType /\ pc \in PcType /\ held \in 0 .. MaxNoResp - 1
      /\ alarm \in BOOLEAN /\ host \in HostType /\ NetOK
      /\ leaving \in [Stages -> Nat] /\ TeardownInv
  BY TypesUnfolded DEF IInv
<1>1. Alike(env, env') /\ env'.noResp = env.noResp
  BY Zenon, <1>0, EnvAlike, PostAlike, PostKeeps DEF RtcFires
<1>2. Calm
  BY <1>0, <1>1 DEF Calm, RtcFires, TeardownInv
<1>3. Rest
  BY Zenon, <1>0, NetSteps DEF Rest, RtcFires
<1> QED
  BY <1>2, <1>3, CalmKeeps

\* Steps of the AP alone.
LEMMA StillKeeps == ASSUME IInv, UNCHANGED cpVars, ap' \in ApStates PROVE IInv'
<1>0. /\ env \in EnvType /\ pc \in PcType /\ held \in 0 .. MaxNoResp - 1
      /\ alarm \in BOOLEAN /\ host \in HostType /\ NetOK
      /\ leaving \in [Stages -> Nat] /\ TeardownInv
  BY TypesUnfolded DEF IInv
<1>1. Calm
  BY Zenon, <1>0, EnvAlike DEF Calm, cpVars, TeardownInv
<1>2. Rest
  BY <1>0, NetSteps DEF Rest, cpVars
<1> QED
  BY <1>1, <1>2, CalmKeeps

\* What the server does reaches the CP only through the connection.
LEMMA ServerKeeps == ASSUME IInv, Server, ap' \in ApStates PROVE IInv'
<1>0. /\ env \in EnvType /\ pc \in PcType /\ held \in 0 .. MaxNoResp - 1
      /\ alarm \in BOOLEAN /\ host \in HostType /\ NetOK
      /\ leaving \in [Stages -> Nat] /\ TeardownInv
  BY TypesUnfolded DEF IInv
<1>1. Calm
  BY Zenon, <1>0, EnvAlike DEF Calm, Server, TeardownInv
<1>2. NetOK'
  <2>1. CASE link' \in {"closed", "silent"} /\ UNCHANGED inbox
    BY <1>0, <2>1 DEF NetOK, Server
  <2>2. CASE UNCHANGED link /\ Len(inbox) < InboxDepth /\ inbox' = Append(inbox, "wake")
    <3>1. \A s \in Seq({"response", "wake"}) :
              LET t == Append(s, "wake")
              IN  t \in Seq({"response", "wake"}) /\ Len(t) = Len(s) + 1 /\ Len(s) \in Nat
      OBVIOUS
    <3> QED
      BY <1>0, <2>2, <3>1, KeepaliveAssumption DEF NetOK, Server
  <2> QED
    BY <2>1, <2>2 DEF Server
<1>3. Rest
  BY <1>0, <1>2 DEF Rest, Server
<1> QED
  BY <1>1, <1>3, CalmKeeps

\* Every step of the AP keeps the invariant.
LEMMA ApStepKeeps == ASSUME IInv, ApStep PROVE IInv'
<1>0. ap \in ApStates
  BY DEF IInv, TypeOK
<1>1. CASE PowerOn
  BY <1>1, StillKeeps DEF PowerOn, ApStates
<1>2. CASE PowerCut
  BY <1>2, StillKeeps DEF PowerCut, ApStates
<1>3. CASE Restart
  BY <1>3, StillKeeps DEF Restart, ApStates
<1>4. CASE ReadReason
  BY <1>4, StillKeeps, CommandKeeps DEF ReadReason, ApStates
<1>5. CASE StopConfirmed
  BY <1>5, StillKeeps DEF StopConfirmed, ApStates
<1>6. CASE Handover
  BY <1>6, StartKeeps DEF Handover, ApStates
<1> QED
  BY <1>1, <1>2, <1>3, <1>4, <1>5, <1>6 DEF ApStep

\* Every step of the CP keeps the invariant.
LEMMA CpStepKeeps == ASSUME IInv, CpStep PROVE IInv'
<1>1. ap' \in ApStates
  BY DEF IInv, TypeOK, CpStep, CutAtOnce, ApStates
<1>2. CASE TxStep
  BY <1>1, <1>2, TxKeeps
<1>3. CASE RxStep
  BY <1>1, <1>3, RxKeeps
<1>4. CASE CmdStep
  BY <1>1, <1>4, CommandKeeps, CmdReleaseKeeps DEF CmdStep
<1>5. CASE Leaver
  BY <1>1, <1>5, LeaverKeeps
<1>6. CASE RtcFires
  BY <1>1, <1>6, RtcKeeps
<1> QED
  BY <1>2, <1>3, <1>4, <1>5, <1>6 DEF CpStep

-----------------------------------------------------------------------------
(* The theorems.                                                           *)

\* Nothing runs and nothing is allocated at first.
LEMMA InitHolds == ASSUME Init PROVE IInv
<1>1. TypeOK
  <2>1. env \in EnvType
    BY Blanks DEF Init, KeepaliveInit
  <2>2. pc \in PcType /\ leaving \in [Stages -> Nat] /\ ap \in ApStates
    BY DEF Init, KeepaliveInit, PcType, TxPcs, RxPcs, CmdPcs, Stages, ApStates
  <2>3. held \in 0 .. MaxNoResp - 1 /\ alarm \in BOOLEAN
    <3>1. held = 0 /\ alarm = FALSE
      BY DEF Init, KeepaliveInit
    <3>2. 0 \in 0 .. MaxNoResp - 1
      BY KeepaliveAssumption
    <3> QED
      BY <3>1, <3>2, Zenon
  <2>4. host \in HostType
    BY DEF Init, KeepaliveInit, HostType, Reasons
  <2>5. NetOK
    BY KeepaliveAssumption DEF Init, KeepaliveInit, NetOK
  <2> QED
    BY <2>1, <2>2, <2>3, <2>4, <2>5, TypesUnfolded
<1>2. Tearing = 0
  BY DEF Init, KeepaliveInit, Tearing, Stages
<1>3. TeardownInv
  BY <1>2, Blanks DEF Init, KeepaliveInit, TeardownInv
<1> QED
  BY <1>1, <1>3 DEF IInv

\* The invariant holds in every state of every behaviour.
LEMMA Inductive == Spec => []IInv
<1>1. Init => IInv
  BY InitHolds
<1>2. IInv /\ [Next]_vars => IInv'
  <2>1. ASSUME IInv, UNCHANGED vars PROVE IInv'
    BY <2>1, StillKeeps DEF vars, IInv, TypeOK
  <2>2. ASSUME IInv, Server, UNCHANGED ap PROVE IInv'
    BY <2>2, ServerKeeps DEF IInv, TypeOK
  <2> QED
    BY <2>1, <2>2, ApStepKeeps, CpStepKeeps DEF Next
<1> QED
  BY <1>1, <1>2, PTL DEF Spec

\* Every variable keeps its type, for any limit of the watchdog, any depth of
\* the connection and whatever fails.
THEOREM TypesCorrect == Spec => []TypeOK
<1>1. IInv => TypeOK
  BY DEF IInv
<1> QED
  BY <1>1, Inductive, PTL

\* db_keepalive_release_resources_if_idle: the state of every thread, old and
\* new, agrees with what is left of the session.
THEOREM TeardownSafe == Spec => []TeardownInv
<1>1. IInv => TeardownInv
  BY DEF IInv
<1> QED
  BY <1>1, Inductive, PTL

\* db_keepalive_release_resources_if_idle: at any time at most one of TX, RX
\* and the command thread, of this session or an old one, releases.
THEOREM ReleasedOnce == Spec => []OneReleaser
<1>1. IInv => OneReleaser
  BY DEF IInv, TeardownInv, OneReleaser
<1> QED
  BY <1>1, Inductive, PTL

\* No thread finds the buffers or the semaphore of its session gone.
THEOREM ReleasedLast == Spec => []ResourcesHeld
<1>1. IInv => ResourcesHeld
  BY DEF IInv, TeardownInv, ResourcesHeld
<1> QED
  BY <1>1, Inductive, PTL

-----------------------------------------------------------------------------
(* WatchInv: somebody is left to vote a host that is off on again.         *)

\* The session stands as it stood, and so does its connection.
SameSession(e, f) == f.ongoing = e.ongoing /\ f.sock = e.sock

LEMMA SessionKept ==
    ASSUME NEW e \in EnvType
    PROVE  /\ SameSession(e, e) /\ SameSession(e, Posted(e))
           /\ \A s : SameSession(e, [e EXCEPT !.sema = s])
           /\ \A b : /\ SameSession(e, [e EXCEPT !.rx = b])
                     /\ SameSession(e, [e EXCEPT !.tx = b])
                     /\ SameSession(e, [e EXCEPT !.rtc = b])
                     /\ SameSession(e, [e EXCEPT !.lowVoltage = b])
                     /\ SameSession(e, [e EXCEPT !.releasing = b])
           /\ SameSession(e, [e EXCEPT !.lowVoltage = TRUE, !.timer = TRUE])
           /\ \A n : SameSession(e, [e EXCEPT !.noResp = n])
BY DEF SameSession, EnvType, Posted

\* A step outside the setting up of a session, which does nothing to a session
\* that somebody relies on and lets no vote go that is held.
Tame ==
    /\ pc'.cmd = pc.cmd \/ pc.cmd # "idle"
    /\ \/ pc'.tx = pc.tx
       \/ /\ pc.tx # "unvote" /\ pc'.tx \notin Setup
          /\ ~host'.vote => pc'.tx \in Guarding
    /\ \/ pc'.rx = pc.rx
       \/ /\ pc'.tx \notin {"connect", "hello", "spawn"}
          /\ pc'.tx \in {"reset", "unvote"} => pc'.rx \in {"loop", "recv"}
          /\ ~host'.vote => pc'.rx \in Listening
    /\ ~host'.vote \/ pc'.tx \in Setup => SameSession(env, env')
    /\ ~host'.vote => ~host.vote
    /\ host'.vote => host.vote \/ host'.reason # "NONE"
    /\ host'.reason = host.reason \/ host'.reason # "NONE"
    /\ pc'.tx = "failVote" => pc.tx = "failVote" \/ host'.reason # "NONE"
    /\ pc'.rx \in {"mediaVote", "failVote"} =>
          pc.rx \in {"mediaVote", "failVote"} \/ host'.reason # "NONE"
    /\ pc'.tx \in Setup \ {"connect"} =>
          /\ link' = link
          /\ (\A i \in 1 .. Len(inbox) : inbox[i] # "wake") =>
                \A i \in 1 .. Len(inbox') : inbox'[i] # "wake"

LEMMA TameKeeps ==
    ASSUME IInv, IInv', WatchInv, Tame, ap' = ap \/ (ap' = "off" /\ ~host'.vote)
    PROVE  WatchInv'
<1>1. SetupApart'
  <2>1. pc'.cmd # "idle" => ap' = "stopping"
    BY DEF Tame, WatchInv, SetupApart, SessionStands
  <2>2. pc'.tx \in Setup => ap' = "handed" /\ host'.vote /\ env'.ongoing
    BY DEF Tame, SameSession, WatchInv, SetupApart
  <2>3. /\ pc'.tx \in {"connect", "hello", "spawn"} => pc'.rx = "none"
        /\ pc'.tx \in {"reset", "unvote"} => pc'.rx \in {"loop", "recv"}
    BY DEF Tame, WatchInv, SetupApart, Setup
  <2>4. pc'.tx \in Setup \ {"connect"} =>
            /\ env'.sock = "open" /\ link' = "up"
            /\ \A i \in 1 .. Len(inbox') : inbox'[i] # "wake"
    BY DEF Tame, SameSession, WatchInv, SetupApart
  <2> QED
    BY <2>1, <2>2, <2>3, <2>4 DEF SetupApart
<1>2. SessionStands'
  BY DEF Tame, SameSession, WatchInv, SessionStands
<1>3. ReasonGiven'
  BY DEF Tame, WatchInv, ReasonGiven
<1> QED
  BY <1>1, <1>2, <1>3 DEF WatchInv

\* What WatchInv says of a session that is being closed.
LEMMA Unwatched ==
    ASSUME IInv, WatchInv, ~env.ongoing
    PROVE  host.vote /\ pc.tx \notin Setup
BY DEF WatchInv, SetupApart, SessionStands

LEMMA TxWatched ==
    ASSUME IInv, IInv', WatchInv, TxStep
    PROVE  \/ Tame
           \/ Connect \/ FirstHeartbeat \/ InitRx \/ ResetReason \/ VoteOff
<1>1. pc \in PcType /\ env \in EnvType /\ host \in HostType
  BY TypesUnfolded DEF IInv
<1>2. ASSUME NEW from \in TxPcs, NEW to \in TxPcs, Move("tx", from, to),
             from # "unvote", to \notin Setup, ~host'.vote => to \in Guarding,
             ~host'.vote => SameSession(env, env'), ~host'.vote => ~host.vote,
             host'.vote => host.vote \/ host'.reason # "NONE",
             host'.reason = host.reason \/ host'.reason # "NONE",
             to = "failVote" => host'.reason # "NONE"
      PROVE  Tame
  BY <1>1, <1>2, Moves DEF Tame
<1>3. host.vote \/ pc.tx \in Guarding
  BY DEF WatchInv, SessionStands
<1>4. SameSession(env, env)
  BY <1>1, SessionKept
<1>5. CASE ConnectFails
  <2>1. Move("tx", "connect", "deinit") /\ host' = [host EXCEPT !.reason = "DISCONNECTION"]
    BY <1>5 DEF ConnectFails
  <2>2. host.vote /\ host'.vote /\ host'.reason = "DISCONNECTION"
    BY <1>1, <2>1 DEF Move, HostType, WatchInv, SetupApart, Setup
  <2> QED
    BY <1>2, <2>1, <2>2 DEF TxPcs, Setup
<1>6. CASE InitRxFails
  <2>1. Move("tx", "spawn", "deinit") /\ host' = [host EXCEPT !.reason = "DISCONNECTION"]
    BY <1>6 DEF InitRxFails
  <2>2. host.vote /\ host'.vote /\ host'.reason = "DISCONNECTION"
    BY <1>1, <2>1 DEF Move, HostType, WatchInv, SetupApart, Setup
  <2> QED
    BY <1>2, <2>1, <2>2 DEF TxPcs, Setup
<1>7. CASE StartTimer \/ TimerFails \/ SetAlarm \/ Woken \/ WriteCount
  <2>1. /\ \E from \in {"timers", "loop", "wait", "store"},
              to \in {"loop", "fail", "wait", "woken"} : Move("tx", from, to)
        /\ host' = host
    BY <1>7 DEF StartTimer, TimerFails, SetAlarm, Woken, WriteCount
  <2>2. SameSession(env, env')
    BY <1>1, <1>7, SessionKept DEF StartTimer, TimerFails, SetAlarm, Woken, WriteCount
  <2>3. /\ {"timers", "loop", "wait", "store", "fail", "woken"} \subseteq TxPcs \cap Guarding
        /\ {"loop", "fail", "wait", "woken"} \cap Setup = {}
    BY DEF TxPcs, Guarding, Setup
  <2>4. \A to \in {"loop", "fail", "wait", "woken"} : to \in TxPcs \cap Guarding
    BY <2>3
  <2> QED
    BY <1>2, <2>1, <2>2, <2>3, <2>4 DEF Setup
<1>8. CASE NotSent \/ Heartbeat \/ ReadCount \/ Watchdog
  <2>1. /\ \E from \in {"woken", "count"}, to \in {"loop", "count", "store", "fail"} :
              Move("tx", from, to)
        /\ host' = host /\ env' = env
    BY <1>8 DEF NotSent, Heartbeat, ReadCount, Watchdog
  <2>2. /\ {"woken", "count"} \subseteq TxPcs
        /\ {"loop", "count", "store", "fail"} \subseteq TxPcs \cap Guarding
        /\ {"loop", "fail", "count", "store"} \cap Setup = {}
    BY DEF TxPcs, Guarding, Setup
  <2> QED
    BY <1>2, <1>4, <2>1, <2>2
<1>9. CASE LoopEnds
  <2>1. /\ \E from \in {"loop", "woken"} : Move("tx", from, "deinit")
        /\ host' = host /\ host.vote
    BY <1>9, Unwatched DEF LoopEnds
  <2> QED
    BY <1>2, <2>1 DEF TxPcs, Setup
<1>10. CASE SetReason("tx")
  <2>1. /\ Move("tx", "fail", "failVote") \/ Move("tx", "media", "mediaVote")
        /\ host' = [host EXCEPT !.reason = "FAIL"]
              \/ host' = [host EXCEPT !.reason = "MULTIMEDIA"]
        /\ env' = env
    BY <1>10 DEF SetReason
  <2>2. Move("tx", "fail", "failVote")
    BY <1>1, <2>1 DEF Move, PcType, TxPcs
  <2>3. host'.vote = host.vote /\ host'.reason # "NONE"
    BY <1>1, <2>1 DEF HostType
  <2> QED
    BY <1>2, <1>4, <2>1, <2>2, <2>3 DEF TxPcs, Setup, Guarding
<1>11. CASE VoteOn("tx")
  <2>1. /\ Move("tx", "mediaVote", "loop") \/ Move("tx", "failVote", "deinit")
        /\ host' = [host EXCEPT !.vote = TRUE]
    BY <1>11 DEF VoteOn
  <2>2. Move("tx", "failVote", "deinit")
    BY <1>1, <2>1 DEF Move, PcType, TxPcs
  <2>3. host'.vote /\ host'.reason = host.reason
    BY <1>1, <2>1 DEF HostType
  <2>4. host.reason # "NONE"
    BY <2>2 DEF Move, WatchInv, ReasonGiven
  <2> QED
    BY <1>2, <2>2, <2>3, <2>4 DEF TxPcs, Setup
<1>12. CASE Deinit("tx") \/ CloseSocket("tx") \/ ClearHandle("tx")
  <2>1. /\ \E from \in {"deinit", "close", "clear"}, to \in {"close", "clear", "none"} :
              Move("tx", from, to)
        /\ host' = host
    BY <1>12 DEF Deinit, CloseSocket, ClearHandle
  <2>2. host.vote
    BY <1>3, <2>1 DEF Move, Guarding
  <2> QED
    BY <1>2, <2>1, <2>2 DEF TxPcs, Setup
<1> QED
  BY <1>5, <1>6, <1>7, <1>8, <1>9, <1>10, <1>11, <1>12 DEF TxStep

\* What RX does to a session that somebody relies on: it listens, and when it
\* stops it has cast its vote.
LEMMA RxWatched ==
    ASSUME IInv, WatchInv, RxStep
    PROVE  Tame
<1>1. pc \in PcType /\ env \in EnvType /\ host \in HostType /\ NetOK
  BY TypesUnfolded DEF IInv
<1>2. ASSUME NEW from \in RxPcs \ {"none"}, NEW to \in RxPcs, Move("rx", from, to),
             pc.tx \in {"reset", "unvote"} => to \in {"loop", "recv"},
             ~host'.vote => to \in Listening,
             ~host'.vote \/ pc.tx \in Setup => SameSession(env, env'),
             ~host'.vote => ~host.vote,
             host'.vote => host.vote \/ host'.reason # "NONE",
             host'.reason = host.reason \/ host'.reason # "NONE",
             to \in {"mediaVote", "failVote"} => host'.reason # "NONE",
             link' = link,
             (\A i \in 1 .. Len(inbox) : inbox[i] # "wake") =>
                 \A i \in 1 .. Len(inbox') : inbox'[i] # "wake"
      PROVE  Tame
  <2>1. /\ pc.rx = from /\ pc'.rx = to /\ pc'.tx = pc.tx /\ pc'.cmd = pc.cmd
        /\ from # "none"
    BY <1>1, <1>2, Moves
  <2>2. pc.tx \notin {"connect", "hello", "spawn"}
    BY <2>1 DEF WatchInv, SetupApart
  <2> QED
    BY <1>2, <2>1, <2>2 DEF Tame
<1>3. /\ ~host.vote => env.ongoing /\ HasSocket /\ pc.rx \in Listening
      /\ pc.rx # "none" /\ pc.tx \in Setup
            => /\ pc.rx \in {"loop", "recv"} /\ env.ongoing /\ HasSocket /\ link = "up"
               /\ \A i \in 1 .. Len(inbox) : inbox[i] # "wake"
  BY DEF WatchInv, SessionStands, SetupApart, Setup, HasSocket
<1>4. SameSession(env, env)
  BY <1>1, SessionKept
<1>5. CASE RxLoop
  <2>1. /\ Move("rx", "loop", IF env.ongoing /\ HasSocket THEN "recv" ELSE "exit")
        /\ host' = host /\ env' = env /\ link' = link /\ inbox' = inbox
        /\ pc.rx = "loop"
    BY <1>5 DEF RxLoop, netVars, Move
  <2>2. CASE env.ongoing /\ HasSocket
    <3>1. Move("rx", "loop", "recv")
      BY <2>1, <2>2
    <3> QED
      BY <1>2, <1>4, <2>1, <3>1 DEF RxPcs, Listening
  <2>3. CASE ~(env.ongoing /\ HasSocket)
    <3>1. Move("rx", "loop", "exit") /\ host.vote /\ pc.tx \notin Setup
      BY <1>3, <2>1, <2>3
    <3> QED
      BY <1>2, <1>4, <2>1, <3>1 DEF RxPcs, Setup
  <2> QED
    BY <2>2, <2>3
<1>6. ASSUME NEW p, Recv(p)
      PROVE  (\A i \in 1 .. Len(inbox) : inbox[i] # "wake") =>
                 /\ p # "wake"
                 /\ \A i \in 1 .. Len(inbox') : inbox'[i] # "wake"
  <2>1. inbox \in Seq({"response", "wake"}) /\ inbox # <<>> /\ inbox' = Tail(inbox)
        /\ Head(inbox) = p
    BY <1>1, <1>6 DEF NetOK, Recv
  <2>2. /\ 1 \in 1 .. Len(inbox) /\ inbox[1] = Head(inbox)
        /\ \A i \in 1 .. Len(Tail(inbox)) :
              i + 1 \in 1 .. Len(inbox) /\ Tail(inbox)[i] = inbox[i + 1]
    BY <2>1
  <2> QED
    BY <2>1, <2>2
<1>7. CASE RecvResponse
  <2>1. /\ Move("rx", "recv", "loop") /\ Recv("response")
        /\ host' = host /\ link' = link
        /\ env' = [env EXCEPT !.noResp = 0] \/ env' = env
    BY <1>7 DEF RecvResponse, Recv
  <2>2. SameSession(env, env')
    BY <1>1, <2>1, SessionKept
  <2>3. (\A i \in 1 .. Len(inbox) : inbox[i] # "wake") =>
            \A i \in 1 .. Len(inbox') : inbox'[i] # "wake"
    BY <1>6, <2>1
  <2> QED
    BY <1>2, <2>1, <2>2, <2>3 DEF RxPcs, Listening
<1>8. CASE RecvWake
  <2>1. /\ Recv("wake") /\ host' = host /\ link' = link /\ env' = env
        /\ Move("rx", "recv", IF env.ongoing THEN "media" ELSE "loop") /\ pc.rx = "recv"
    BY <1>8 DEF RecvWake, Recv, Move
  <2>2. pc.tx \notin Setup
    BY <1>3, <1>6, <2>1
  <2>3. (\A i \in 1 .. Len(inbox) : inbox[i] # "wake") =>
            \A i \in 1 .. Len(inbox') : inbox'[i] # "wake"
    BY <1>6, <2>1
  <2>4. /\ Move("rx", "recv", "media") \/ Move("rx", "recv", "loop")
        /\ {"recv", "media", "loop"} \subseteq RxPcs \ {"none"}
        /\ {"media", "loop"} \subseteq Listening
    BY <2>1 DEF RxPcs, Listening
  <2>5. CASE Move("rx", "recv", "media")
    BY <1>2, <1>4, <2>1, <2>2, <2>3, <2>4, <2>5 DEF Setup
  <2>6. CASE Move("rx", "recv", "loop")
    BY <1>2, <1>4, <2>1, <2>2, <2>3, <2>4, <2>6 DEF Setup
  <2> QED
    BY <2>4, <2>5, <2>6
<1>9. CASE RecvLost
  <2>1. /\ Move("rx", "recv", "fail") /\ pc.rx = "recv"
        /\ host' = host /\ link' = link /\ env' = env /\ inbox' = inbox
        /\ ~HasSocket \/ link \in {"none", "closed"}
    BY <1>9 DEF RecvLost, netVars, Move
  <2>2. pc.tx \notin Setup
    BY <1>3, <2>1
  <2> QED
    BY <1>2, <1>4, <2>1, <2>2 DEF RxPcs, Listening, Setup
<1>10. CASE RecvIdle
  <2>1. /\ Move("rx", "recv", "loop")
        /\ host' = host /\ link' = link /\ env' = env /\ inbox' = inbox
    BY <1>10 DEF RecvIdle, netVars
  <2> QED
    BY <1>2, <1>4, <2>1 DEF RxPcs, Listening
<1>11. CASE SetReason("rx")
  <2>1. /\ Move("rx", "media", "mediaVote") \/ Move("rx", "fail", "failVote")
        /\ host' = [host EXCEPT !.reason = "FAIL"]
              \/ host' = [host EXCEPT !.reason = "MULTIMEDIA"]
        /\ link' = link /\ env' = env /\ inbox' = inbox
        /\ pc.rx \in {"media", "fail"}
    BY <1>11 DEF SetReason, netVars, Move
  <2>2. host'.vote = host.vote /\ host'.reason # "NONE"
    BY <1>1, <2>1 DEF HostType
  <2>3. pc.tx \notin Setup
    BY <1>3, <2>1
  <2>4. CASE Move("rx", "media", "mediaVote")
    BY <1>2, <1>4, <2>1, <2>2, <2>3, <2>4 DEF RxPcs, Listening, Setup
  <2>5. CASE Move("rx", "fail", "failVote")
    BY <1>2, <1>4, <2>1, <2>2, <2>3, <2>5 DEF RxPcs, Listening, Setup
  <2> QED
    BY <2>1, <2>4, <2>5
<1>12. CASE VoteOn("rx")
  <2>1. /\ Move("rx", "mediaVote", "loop") \/ Move("rx", "failVote", "exit")
        /\ host' = [host EXCEPT !.vote = TRUE]
        /\ link' = link /\ env' = env /\ inbox' = inbox
        /\ pc.rx \in {"mediaVote", "failVote"}
    BY <1>12 DEF VoteOn, netVars, Move
  <2>2. host'.vote /\ host'.reason = host.reason
    BY <1>1, <2>1 DEF HostType
  <2>3. host.reason # "NONE"
    BY <2>1 DEF WatchInv, ReasonGiven
  <2>4. pc.tx \notin Setup
    BY <1>3, <2>1
  <2>5. CASE Move("rx", "mediaVote", "loop")
    BY <1>2, <1>4, <2>1, <2>2, <2>3, <2>4, <2>5 DEF RxPcs, Setup
  <2>6. CASE Move("rx", "failVote", "exit")
    BY <1>2, <1>4, <2>1, <2>2, <2>3, <2>4, <2>6 DEF RxPcs, Setup
  <2> QED
    BY <2>1, <2>5, <2>6
<1>13. CASE RxExit \/ ClearHandle("rx")
  <2>1. /\ Move("rx", "exit", "clear") \/ Move("rx", "clear", "none")
        /\ host' = host /\ link' = link /\ inbox' = inbox
        /\ pc.rx \in {"exit", "clear"}
    BY <1>13 DEF RxExit, ClearHandle, netVars, Move
  <2>2. host.vote /\ pc.tx \notin Setup
    BY <1>3, <2>1 DEF Listening
  <2>3. CASE Move("rx", "exit", "clear")
    BY <1>2, <2>1, <2>2, <2>3 DEF RxPcs, Setup
  <2>4. CASE Move("rx", "clear", "none")
    BY <1>2, <2>1, <2>2, <2>4 DEF RxPcs, Setup
  <2> QED
    BY <2>1, <2>3, <2>4
<1> QED
  BY <1>5, <1>7, <1>8, <1>9, <1>10, <1>11, <1>12, <1>13 DEF RxStep

\* A step beside TX and RX, while nobody relies on the session.
LEMMA AsideIsTame ==
    ASSUME host.vote, pc.tx \notin Setup, host' = host, pc'.tx = pc.tx, pc'.rx = pc.rx,
           pc'.cmd = pc.cmd \/ pc.cmd # "idle"
    PROVE  Tame
BY DEF Tame

\* The AP that waits for STOP holds its vote and hands nothing over.
LEMMA CmdWatched ==
    ASSUME IInv, WatchInv, CmdStep
    PROVE  Tame
<1>1. pc \in PcType
  BY TypesUnfolded DEF IInv
<1>2. /\ \E from \in CmdPcs \ {"idle"}, to \in CmdPcs : Move("cmd", from, to)
      /\ host' = host
  <2>1. CASE StopLooksForTx
    BY <2>1 DEF StopLooksForTx, CmdPcs
  <2>2. CASE Deinit("cmd") \/ CloseSocket("cmd")
    BY <2>2 DEF Deinit, CloseSocket, CmdPcs
  <2>3. CASE CmdRelease
    BY <2>3 DEF CmdRelease, CmdPcs
  <2> QED
    BY <2>1, <2>2, <2>3 DEF CmdStep
<1>3. pc'.tx = pc.tx /\ pc'.rx = pc.rx /\ pc.cmd # "idle"
  BY <1>1, <1>2, Moves
<1>4. host.vote /\ pc.tx \notin Setup
  BY <1>3 DEF WatchInv, SetupApart, SessionStands
<1> QED
  BY <1>2, <1>3, <1>4, AsideIsTame

-----------------------------------------------------------------------------
(* Nobody is interrupted between the last two lines of the teardown.       *)

\* No thread is left to reset the socket of a session that is not its own.
NoneStray == leaving["stray"] = 0

\* ... since only one that is interrupted gets there.
LEMMA NoneStrayKept ==
    ASSUME "preempt" \notin Faults, IInv, NoneStray, [Next]_vars
    PROVE  NoneStray'
<1>1. leaving \in [Stages -> Nat] /\ leaving["stray"] = 0 /\ "stray" \in Stages
  BY TypesUnfolded DEF IInv, NoneStray, Stages
<1>2. CASE leaving' = leaving
  BY <1>2 DEF NoneStray
<1>3. ASSUME NEW t, ClearHandle(t) PROVE NoneStray'
  BY <1>1, <1>3 DEF ClearHandle, NoneStray
<1>4. CASE Leaver
  <2>1. \E from \in Stages, to \in {"tear", "gone"} : Step(from, to)
    BY <1>4 DEF Leaver, Stages
  <2>2. PICK from \in Stages, to \in {"tear", "gone"} : Step(from, to)
    BY <2>1
  <2>3. from # "stray"
    BY <1>1, <2>2 DEF Step
  <2> QED
    BY <1>1, <2>2, <2>3 DEF Step, NoneStray
<1>5. CASE TxStep
  BY <1>2, <1>3, <1>5
     DEF TxStep, Connect, ConnectFails, FirstHeartbeat, InitRx, InitRxFails, ResetReason,
         VoteOff, StartTimer, TimerFails, SetAlarm, Woken, LoopEnds, NotSent, Heartbeat,
         ReadCount, WriteCount, Watchdog, SetReason, VoteOn, Deinit, CloseSocket
<1>6. CASE RxStep
  BY <1>2, <1>3, <1>6
     DEF RxStep, RxLoop, RecvResponse, RecvWake, RecvLost, RecvIdle, Recv, SetReason,
         VoteOn, RxExit
<1>7. CASE CmdStep
  BY <1>2, <1>7 DEF CmdStep, StopLooksForTx, Deinit, CloseSocket, CmdRelease
<1>8. CASE RtcFires \/ Server
  BY <1>2, <1>8 DEF RtcFires, Server
<1>9. CASE ApStep
  BY <1>2, <1>9 DEF ApStep, PowerOn, PowerCut, Restart, ReadReason, StopCommand,
                    StopConfirmed, Handover, StartCommand, cpVars
<1>10. CASE UNCHANGED vars
  BY <1>2, <1>10 DEF vars, cpVars
<1> QED
  BY <1>4, <1>5, <1>6, <1>7, <1>8, <1>9, <1>10 DEF Next, CpStep

\* A thread on its way out releases only what nobody relies on.
LEMMA LeaverWatched ==
    ASSUME IInv, WatchInv, NoneStray, Leaver
    PROVE  Tame
<1>1. pc \in PcType /\ env \in EnvType /\ leaving \in [Stages -> Nat] /\ TeardownInv
  BY TypesUnfolded DEF IInv
<1>2. pc' = pc /\ host' = host
  BY <1>1 DEF Leaver
<1>3. CASE Claim /\ UNCHANGED netVars
  <2>1. SameSession(env, env')
    <3>1. \E b \in BOOLEAN : env' = [env EXCEPT !.releasing = b]
      BY <1>1, <1>3 DEF Claim, Claimable, EnvType
    <3> QED
      BY <1>1, <3>1, SessionKept
  <2> QED
    BY <1>2, <1>3, <2>1 DEF Tame, netVars
<1>4. CASE leaving["tear"] > 0
  <2>1. ~env.ongoing
    <3>1. Tearing > 0
      BY <1>1, <1>4 DEF Tearing, Stages
    <3> QED
      BY <1>1, <3>1 DEF TeardownInv
  <2> QED
    BY <1>2, <2>1, Unwatched, AsideIsTame
<1>5. leaving["stray"] = 0
  BY DEF NoneStray
<1> QED
  BY <1>3, <1>4, <1>5 DEF Leaver, Step

-----------------------------------------------------------------------------
(* Every step keeps WatchInv.                                              *)

\* A step of the CP that is none of a session's setting up.
LEMMA TameStep ==
    ASSUME IInv, IInv', WatchInv, Tame, CutAtOnce
    PROVE  WatchInv'
BY TameKeeps DEF CutAtOnce

\* Setting up a session, from the connection to the vote.
LEMMA SetupKeeps ==
    ASSUME IInv, WatchInv, CutAtOnce,
           Connect \/ FirstHeartbeat \/ InitRx \/ ResetReason \/ VoteOff
    PROVE  WatchInv'
<1>1. pc \in PcType /\ env \in EnvType /\ host \in HostType /\ NetOK
  BY TypesUnfolded DEF IInv
<1>2. pc.tx \in Setup
  BY DEF Connect, FirstHeartbeat, InitRx, ResetReason, VoteOff, Move, Setup
<1>3. ap = "handed" /\ host.vote /\ env.ongoing /\ pc.cmd = "idle"
  BY <1>2 DEF WatchInv, SetupApart
<1>4. CASE Connect
  <2>1. /\ pc.tx = "connect" /\ pc'.tx = "hello" /\ pc'.rx = pc.rx /\ pc'.cmd = pc.cmd
        /\ host' = host /\ env' = [env EXCEPT !.sock = "open"]
        /\ link' = "up" /\ inbox' = <<>>
    BY <1>1, <1>4, Moves DEF Connect, TxPcs
  <2>2. ap' = "handed" /\ env'.ongoing /\ env'.sock = "open" /\ pc.rx = "none"
    BY <1>1, <1>3, <2>1 DEF CutAtOnce, EnvType, WatchInv, SetupApart
  <2> QED
    BY <1>3, <2>1, <2>2 DEF WatchInv, SetupApart, SessionStands, ReasonGiven, Setup
<1>5. CASE FirstHeartbeat
  <2>1. /\ pc.tx = "hello" /\ pc'.tx = "spawn" /\ pc'.rx = pc.rx /\ pc'.cmd = pc.cmd
        /\ host' = host
    BY <1>1, <1>5, Moves DEF FirstHeartbeat, TxPcs
  <2>2. /\ ap' = "handed" /\ pc.rx = "none" /\ env.sock = "open" /\ link = "up"
        /\ \A i \in 1 .. Len(inbox) : inbox[i] # "wake"
    BY <1>3, <2>1 DEF CutAtOnce, WatchInv, SetupApart, Setup
  <2>3. /\ env'.ongoing /\ env'.sock = "open"
        /\ link' = link /\ (inbox' = inbox \/ inbox' = Append(inbox, "response"))
    <3>1. env' = [env EXCEPT !.noResp = 1] \/ env' = env
      BY <1>5 DEF FirstHeartbeat
    <3>2. env'.ongoing = env.ongoing /\ env'.sock = env.sock
      BY <1>1, <3>1 DEF EnvType
    <3> QED
      BY <1>3, <1>5, <2>2, <3>2 DEF FirstHeartbeat, Send, netVars
  <2>4. \A i \in 1 .. Len(inbox') : inbox'[i] # "wake"
    <3>1. inbox \in Seq({"response", "wake"})
      BY <1>1 DEF NetOK
    <3> QED
      BY <2>2, <2>3, <3>1
  <2> QED
    BY <1>3, <2>1, <2>2, <2>3, <2>4
       DEF WatchInv, SetupApart, SessionStands, ReasonGiven, Setup
<1>6. CASE InitRx
  <2>1. /\ pc.tx = "spawn" /\ pc'.tx = "reset" /\ pc'.rx = "loop" /\ pc'.cmd = pc.cmd
        /\ host' = host /\ env' = [env EXCEPT !.rx = TRUE]
        /\ link' = link /\ inbox' = inbox
    BY <1>1, <1>6 DEF InitRx, PcType, netVars
  <2>2. /\ ap' = "handed" /\ env'.ongoing /\ env'.sock = "open" /\ link = "up"
        /\ \A i \in 1 .. Len(inbox) : inbox[i] # "wake"
    BY <1>1, <1>3, <2>1 DEF CutAtOnce, EnvType, WatchInv, SetupApart, Setup
  <2> QED
    BY <1>3, <2>1, <2>2 DEF WatchInv, SetupApart, SessionStands, ReasonGiven, Setup
<1>7. CASE ResetReason
  <2>1. /\ pc.tx = "reset" /\ pc'.tx = "unvote" /\ pc'.rx = pc.rx /\ pc'.cmd = pc.cmd
        /\ host' = [host EXCEPT !.reason = "NONE"] /\ env' = env
        /\ link' = link /\ inbox' = inbox
    BY <1>1, <1>7, Moves DEF ResetReason, TxPcs, netVars
  <2>2. /\ host'.vote /\ ap' = "handed" /\ pc.rx \in {"loop", "recv"}
        /\ env.sock = "open" /\ link = "up"
        /\ \A i \in 1 .. Len(inbox) : inbox[i] # "wake"
    BY <1>1, <1>3, <2>1 DEF CutAtOnce, HostType, WatchInv, SetupApart, Setup
  <2> QED
    BY <1>3, <2>1, <2>2 DEF WatchInv, SetupApart, SessionStands, ReasonGiven, Setup
<1>8. CASE VoteOff
  <2>1. /\ pc.tx = "unvote" /\ pc'.tx = "timers" /\ pc'.rx = pc.rx /\ pc'.cmd = pc.cmd
        /\ host' = [host EXCEPT !.vote = FALSE] /\ env' = env
    BY <1>1, <1>8, Moves DEF VoteOff, TxPcs
  <2>2. /\ ~host'.vote /\ ap' \in {"off", "handed"} /\ pc.rx \in {"loop", "recv"}
        /\ env.sock = "open"
    BY <1>1, <1>3, <2>1 DEF CutAtOnce, HostType, WatchInv, SetupApart, Setup
  <2> QED
    BY <1>3, <2>1, <2>2
       DEF WatchInv, SetupApart, SessionStands, ReasonGiven, Setup, Guarding, Listening
<1> QED
  BY <1>4, <1>5, <1>6, <1>7, <1>8

\* Every step of the CP keeps it.
LEMMA CpStepWatched ==
    ASSUME IInv, IInv', WatchInv, NoneStray, CpStep
    PROVE  WatchInv'
<1>1. CutAtOnce
  BY DEF CpStep
<1>2. CASE TxStep
  BY <1>1, <1>2, TxWatched, TameStep, SetupKeeps
<1>3. CASE RxStep
  BY <1>1, <1>3, RxWatched, TameStep
<1>4. CASE CmdStep
  BY <1>1, <1>4, CmdWatched, TameStep
<1>5. CASE Leaver
  BY <1>1, <1>5, LeaverWatched, TameStep
<1>6. CASE RtcFires
  <2>1. env \in EnvType /\ pc' = pc /\ host' = host /\ link' = link /\ inbox' = inbox
    BY <1>6, TypesUnfolded DEF RtcFires, IInv, netVars
  <2>2. SameSession(env, env')
    BY <1>6, <2>1, SessionKept DEF RtcFires
  <2>3. Tame
    BY <2>1, <2>2 DEF Tame
  <2> QED
    BY <1>1, <2>3, TameStep
<1> QED
  BY <1>2, <1>3, <1>4, <1>5, <1>6 DEF CpStep

\* Every step of an AP that does not restart on its own keeps it.
LEMMA ApStepWatched ==
    ASSUME "reset" \notin Faults, IInv, WatchInv, ApStep
    PROVE  WatchInv'
<1>1. pc \in PcType /\ env \in EnvType /\ host \in HostType /\ TeardownInv
  BY TypesUnfolded DEF IInv
<1>2. CASE PowerOn \/ StopConfirmed \/ (ReadReason /\ UNCHANGED cpVars)
  <2>1. /\ ap \in {"off", "stopping", "boot"} /\ pc.cmd = "idle" /\ host.vote
        /\ pc.tx \notin Setup
    BY <1>2 DEF PowerOn, StopConfirmed, ReadReason, WatchInv, SetupApart, SessionStands
  <2>2. pc' = pc /\ host' = host
    BY <1>2 DEF PowerOn, StopConfirmed, cpVars
  <2> QED
    BY <2>1, <2>2 DEF WatchInv, SetupApart, SessionStands, ReasonGiven, Setup
<1>3. CASE PowerCut
  <2>1. /\ ~host.vote /\ pc.cmd = "idle" /\ pc.tx \notin Setup /\ ap' = "off"
        /\ pc' = pc /\ host' = host /\ env' = env
    BY <1>3 DEF PowerCut, WatchInv, SetupApart, SessionStands, cpVars
  <2> QED
    BY <2>1 DEF WatchInv, SetupApart, SessionStands, ReasonGiven, Setup
<1>4. CASE ReadReason /\ StopCommand /\ ap' = "stopping"
  <2>1. host.vote /\ pc.tx \notin Setup
    BY <1>4 DEF ReadReason, WatchInv, SetupApart, SessionStands
  <2>2. pc'.tx = pc.tx /\ pc'.rx = pc.rx /\ host' = host
    BY <1>1, <1>4, Moves DEF StopCommand, CmdPcs
  <2> QED
    BY <1>4, <2>1, <2>2 DEF WatchInv, SetupApart, SessionStands, ReasonGiven, Setup
<1>5. CASE Handover
  <2>1. /\ host.vote /\ pc.cmd = "idle" /\ pc.tx \notin Setup /\ ap' = "handed"
        /\ host' = host
    BY <1>5 DEF Handover, StartCommand, WatchInv, SetupApart, SessionStands
  <2>2. CASE UNCHANGED pc
    BY <2>1, <2>2 DEF WatchInv, SetupApart, SessionStands, ReasonGiven, Setup
  <2>3. CASE ~Refused /\ env' = NewSession /\ Move("tx", "none", "connect")
    <3>1. pc'.tx = "connect" /\ pc'.rx = pc.rx /\ pc'.cmd = pc.cmd /\ pc.tx = "none"
      BY <1>1, <2>3, Moves DEF TxPcs
    <3>2. pc.rx = "none"
      BY <1>1, <2>3 DEF Refused, TeardownInv
    <3>3. env'.ongoing
      BY <2>3 DEF NewSession, Blank, Cleared
    <3> QED
      BY <2>1, <3>1, <3>2, <3>3
         DEF WatchInv, SetupApart, SessionStands, ReasonGiven, Setup
  <2> QED
    BY <1>5, <2>2, <2>3 DEF Handover, StartCommand
<1> QED
  BY <1>2, <1>3, <1>4, <1>5 DEF ApStep, ReadReason, Restart

\* The server leaves a session that is being set up alone.
LEMMA ServerWatched ==
    ASSUME "early" \notin Faults, WatchInv, Server, UNCHANGED ap
    PROVE  WatchInv'
<1>1. pc.tx \notin Setup /\ pc' = pc /\ host' = host /\ env' = env
  BY DEF Server, Established, Setup
<1> QED
  BY <1>1 DEF WatchInv, SetupApart, SessionStands, ReasonGiven, Setup

-----------------------------------------------------------------------------
(* The theorems about who watches the host.                                *)

\* Without a server that acts early, a thread interrupted inside the teardown
\* and an AP that restarts on its own, WatchInv always holds.
LEMMA Watching ==
    ASSUME Faults \cap {"early", "preempt", "reset"} = {}
    PROVE  Spec => []WatchInv
<1>1. "early" \notin Faults /\ "preempt" \notin Faults /\ "reset" \notin Faults
  OBVIOUS
<1>2. Init => WatchInv /\ NoneStray
  BY DEF Init, KeepaliveInit, WatchInv, SetupApart, SessionStands, ReasonGiven, Setup,
         NoneStray, Stages
<1>3. IInv /\ IInv' /\ WatchInv /\ NoneStray /\ [Next]_vars => WatchInv' /\ NoneStray'
  <2>1. ASSUME WatchInv, UNCHANGED vars PROVE WatchInv'
    BY <2>1 DEF vars, cpVars, netVars, WatchInv, SetupApart, SessionStands, ReasonGiven
  <2> QED
    BY <1>1, <2>1, NoneStrayKept, CpStepWatched, ApStepWatched, ServerWatched DEF Next
<1> QED
  BY <1>2, <1>3, Inductive, PTL DEF Spec

\* pl_power_down_host: whenever the host is voted off a thread is left that
\* will vote it on, whatever connections, threads and timers fail.
THEOREM HostWatched ==
    ASSUME Faults \cap {"early", "preempt", "reset"} = {}
    PROVE  Spec => []AsleepIsWatched
<1>1. WatchInv => AsleepIsWatched
  BY DEF WatchInv, SessionStands, Listening, AsleepIsWatched
<1> QED
  BY <1>1, Watching, PTL

\* pl_wakeup_host: no AP boots to find that it was woken for nothing.
THEOREM WokenWithReason ==
    ASSUME Faults \cap {"early", "preempt", "reset"} = {}
    PROVE  Spec => []WokenForReason
<1>1. WatchInv => WokenForReason
  BY DEF WatchInv, SetupApart, SessionStands, ReasonGiven, Setup, WokenForReason
<1> QED
  BY <1>1, Watching, PTL

-----------------------------------------------------------------------------
(* The refinement: KeepaliveSystem implements KeepaliveSession.            *)

\* The flags of the record that the phase is read from.
SameFlags(e, f) ==
    /\ f.ongoing = e.ongoing /\ f.cleanup = e.cleanup /\ f.releasing = e.releasing
Ended(e, f) ==
    /\ ~f.ongoing /\ f.releasing = e.releasing
    /\ e.cleanup => f.cleanup

LEMMA FlagsKept ==
    ASSUME NEW e \in EnvType
    PROVE  /\ SameFlags(e, e) /\ SameFlags(e, Posted(e))
           /\ \A s : SameFlags(e, [e EXCEPT !.sema = s])
           /\ \A k : SameFlags(e, [e EXCEPT !.sock = k])
           /\ \A b : /\ SameFlags(e, [e EXCEPT !.rx = b])
                     /\ SameFlags(e, [e EXCEPT !.tx = b])
                     /\ SameFlags(e, [e EXCEPT !.rtc = b])
                     /\ SameFlags(e, [e EXCEPT !.lowVoltage = b])
           /\ SameFlags(e, [e EXCEPT !.lowVoltage = TRUE, !.timer = TRUE])
           /\ SameFlags(e, [e EXCEPT !.lowVoltage = FALSE, !.timer = FALSE, !.sock = "none"])
           /\ \A n : SameFlags(e, [e EXCEPT !.noResp = n])
           /\ Ended(e, Posted([e EXCEPT !.ongoing = FALSE]))
           /\ Ended(e, Posted([e EXCEPT !.ongoing = FALSE, !.cleanup = TRUE]))
           /\ Posted([e EXCEPT !.ongoing = FALSE, !.cleanup = TRUE]).cleanup
BY DEF SameFlags, Ended, EnvType, Posted

\* No thread starts or ends, and TX does not start over.
SameThreads ==
    /\ pc'.tx = "none" <=> pc.tx = "none"
    /\ pc'.rx = "none" <=> pc.rx = "none"
    /\ pc'.tx \in {"connect", "hello", "spawn"} => pc.tx \in {"connect", "hello", "spawn"}

\* A step that the session does not see ...
Within ==
    /\ SameThreads /\ SameFlags(env, env')
    /\ pc'.tx \in {"close", "clear"} => pc.tx \in {"close", "clear"}
    /\ pc'.rx = "clear" => pc.rx = "clear"

\* ... and one that ends it, if it has not ended yet.
Ends ==
    /\ SameThreads /\ Ended(env, env')
    /\ pc'.tx \in {"close", "clear"} => env'.cleanup

LEMMA WithinStutters ==
    ASSUME SessionInv, Within
    PROVE  SessionInv' /\ UNCHANGED <<Phase, Users>>
<1>1. Users' = Users
  BY DEF Users, Within, SameThreads
<1>2. Phase' = Phase
  BY <1>1 DEF Phase, Within, SameFlags
<1>3. SessionInv'
  BY DEF SessionInv, Within, SameThreads, SameFlags
<1> QED
  BY <1>1, <1>2, <1>3

LEMMA EndsEnds ==
    ASSUME IInv, SessionInv, Ends
    PROVE  SessionInv' /\ [Session!SessionNext]_(Session!sessionVars)
<1>1. Users' = Users
  BY DEF Users, Ends, SameThreads
<1>2. SessionInv'
  BY DEF SessionInv, Ends, SameThreads, Ended
<1>3. env.releasing => Phase' = Phase
  BY DEF Phase, Ends, Ended
<1>4. ~env.releasing /\ env.ongoing => Phase = "open" /\ Phase' = "ending"
  <2>1. env.ongoing => "tx" \in Users'
    BY <1>1 DEF SessionInv, Users
  <2> QED
    BY <2>1 DEF Phase, Ends, Ended
<1>5. ~env.releasing /\ ~env.ongoing
          => Phase' = Phase \/ (Phase = "none" /\ Phase' = "ending")
  BY <1>1 DEF Phase, Ends, Ended
<1> QED
  BY <1>1, <1>2, <1>3, <1>4, <1>5
     DEF Session!SessionNext, Session!End, Session!sessionVars

\* TX and RX clear their handle only when their session has ended.
LEMMA HandlesCleared ==
    ASSUME IInv, IInv', SessionInv, NEW t \in {"tx", "rx"}, ClearHandle(t)
    PROVE  SessionInv' /\ [Session!SessionNext]_(Session!sessionVars)
<1>1. pc \in PcType /\ env \in EnvType /\ TeardownInv
  BY TypesUnfolded DEF IInv
<1>2. /\ pc[t] = "clear" /\ pc' = [pc EXCEPT ![t] = "none"]
      /\ SameFlags(env, env')
  BY <1>1, FlagsKept DEF ClearHandle, Move
<1>3. ~env.ongoing /\ ~env.releasing
  BY <1>1, <1>2 DEF SessionInv, TeardownInv
<1>4. t \in Users /\ Users' = Users \ {t}
  BY <1>1, <1>2 DEF Users, PcType
<1>5. SessionInv'
  <2>1. CASE t = "tx"
    <3>1. env.cleanup /\ pc'.tx = "none" /\ pc'.rx = pc.rx
      BY <1>1, <1>2, <2>1 DEF SessionInv, PcType
    <3> QED
      BY <1>2, <1>3, <3>1 DEF SessionInv, SameFlags
  <2>2. CASE t = "rx"
    <3>1. pc'.rx = "none" /\ pc'.tx = pc.tx
      BY <1>1, <1>2, <2>2 DEF PcType
    <3> QED
      BY <1>2, <1>3, <3>1 DEF SessionInv, SameFlags
  <2> QED
    BY <2>1, <2>2
<1>6. Phase = "ending"
  BY <1>3, <1>4 DEF Phase
<1>7. Phase' = "ending"
  <2>1. CASE env.cleanup
    BY <1>2, <1>3, <2>1 DEF Phase, SameFlags
  <2>2. CASE ~env.cleanup
    <3>1. pc.tx # "none" /\ t = "rx"
      BY <1>2, <2>2 DEF SessionInv
    <3>2. "tx" \in Users'
      BY <1>4, <3>1 DEF Users
    <3> QED
      BY <1>2, <1>3, <3>2 DEF Phase, SameFlags
  <2> QED
    BY <2>1, <2>2
<1> QED
  BY <1>4, <1>5, <1>6, <1>7 DEF Session!SessionNext, Session!Leave

\* TX ends or goes on with its session, joins RX to it, or leaves it.
LEMMA TxImplements ==
    ASSUME IInv, IInv', SessionInv, TxStep
    PROVE  SessionInv' /\ [Session!SessionNext]_(Session!sessionVars)
<1>1. pc \in PcType /\ env \in EnvType /\ TeardownInv
  BY TypesUnfolded DEF IInv
<1>2. ASSUME NEW from \in TxPcs \ {"none"}, NEW to \in TxPcs \ {"none"},
             Move("tx", from, to),
             to \in {"connect", "hello", "spawn"} => from \in {"connect", "hello", "spawn"},
             \/ SameFlags(env, env') /\ (to \in {"close", "clear"} => from = "close")
             \/ Ended(env, env') /\ env'.cleanup
      PROVE  SessionInv' /\ [Session!SessionNext]_(Session!sessionVars)
  <2>1. pc.tx = from /\ pc'.tx = to /\ pc'.rx = pc.rx
    BY <1>1, <1>2, Moves
  <2>2. Within \/ Ends
    BY <1>2, <2>1 DEF Within, Ends, SameThreads
  <2> QED
    BY <2>2, WithinStutters, EndsEnds DEF Session!sessionVars
<1>3. SameFlags(env, env)
  BY <1>1, FlagsKept
<1>4. CASE Connect \/ ConnectFails \/ FirstHeartbeat \/ InitRxFails
  <2>1. \E from \in {"connect", "hello", "spawn"}, to \in {"hello", "spawn", "deinit"} :
            Move("tx", from, to)
    BY <1>4 DEF Connect, ConnectFails, FirstHeartbeat, InitRxFails
  <2>2. SameFlags(env, env')
    <3>1. \/ env' = env \/ env' = [env EXCEPT !.noResp = 1]
          \/ env' = [env EXCEPT !.sock = "open"] \/ env' = [env EXCEPT !.sock = "none"]
      BY <1>4 DEF Connect, ConnectFails, FirstHeartbeat, InitRxFails
    <3> QED
      BY <1>1, <3>1 DEF SameFlags, EnvType
  <2> QED
    BY <1>2, <2>1, <2>2 DEF TxPcs
<1>5. CASE InitRx
  <2>1. /\ pc.tx = "spawn" /\ pc'.tx = "reset" /\ pc'.rx = "loop"
        /\ SameFlags(env, env')
    BY <1>1, <1>5, FlagsKept DEF InitRx, PcType
  <2>2. pc.rx = "none" /\ ~env.releasing
    BY <1>1, <2>1 DEF SessionInv, TeardownInv
  <2>3. Users = {"tx"} /\ Users' = {"tx", "rx"}
    BY <2>1, <2>2 DEF Users
  <2>4. Phase' = Phase /\ Phase \in {"open", "ending"}
    BY <2>1, <2>2, <2>3 DEF Phase, SameFlags
  <2>5. SessionInv'
    BY <2>1 DEF SessionInv, SameFlags
  <2> QED
    BY <2>3, <2>4, <2>5 DEF Session!SessionNext, Session!Join
<1>6. CASE ResetReason \/ VoteOff \/ LoopEnds \/ NotSent \/ Heartbeat \/ ReadCount \/ Watchdog
  <2>1. \E from \in {"reset", "unvote", "loop", "woken", "count"},
           to \in {"unvote", "timers", "deinit", "loop", "count", "store", "fail"} :
            Move("tx", from, to)
    BY <1>6 DEF ResetReason, VoteOff, LoopEnds, NotSent, Heartbeat, ReadCount, Watchdog
  <2>2. env' = env
    BY <1>6 DEF ResetReason, VoteOff, LoopEnds, NotSent, Heartbeat, ReadCount, Watchdog
  <2> QED
    BY <1>2, <1>3, <2>1, <2>2 DEF TxPcs
<1>7. CASE StartTimer \/ TimerFails \/ SetAlarm \/ Woken \/ WriteCount
  <2>1. \E from \in {"timers", "loop", "wait", "store"},
           to \in {"loop", "fail", "wait", "woken"} : Move("tx", from, to)
    BY <1>7 DEF StartTimer, TimerFails, SetAlarm, Woken, WriteCount
  <2>2. SameFlags(env, env')
    <3>1. \/ env' = [env EXCEPT !.lowVoltage = TRUE, !.timer = TRUE]
          \/ env' = [env EXCEPT !.lowVoltage = TRUE]
          \/ env' = [env EXCEPT !.rtc = TRUE]
          \/ env' = [env EXCEPT !.sema = "empty"]
          \/ env' = [env EXCEPT !.noResp = held + 1]
      BY <1>7 DEF StartTimer, TimerFails, SetAlarm, Woken, WriteCount
    <3> QED
      BY <1>1, <3>1, FlagsKept
  <2> QED
    BY <1>2, <2>1, <2>2 DEF TxPcs
<1>8. CASE SetReason("tx") \/ VoteOn("tx")
  <2>1. /\ \E from \in {"media", "fail", "mediaVote", "failVote"},
              to \in {"mediaVote", "failVote", "loop", "deinit"} :
              Move("tx", from, to) /\ from \in TxPcs /\ to \in TxPcs
        /\ env' = env
    BY <1>1, <1>8 DEF SetReason, VoteOn, Move, PcType, TxPcs
  <2> QED
    BY <1>2, <1>3, <2>1
<1>9. CASE Deinit("tx")
  <2>1. Move("tx", "deinit", "close") /\ Ended(env, env') /\ env'.cleanup
    BY <1>1, <1>9, FlagsKept DEF Deinit
  <2> QED
    BY <1>2, <2>1 DEF TxPcs
<1>10. CASE CloseSocket("tx")
  <2>1. Move("tx", "close", "clear") /\ SameFlags(env, env')
    BY <1>1, <1>10, FlagsKept DEF CloseSocket
  <2> QED
    BY <1>2, <2>1 DEF TxPcs
<1>11. CASE ClearHandle("tx")
  BY <1>11, HandlesCleared
<1> QED
  BY <1>4, <1>5, <1>6, <1>7, <1>8, <1>9, <1>10, <1>11 DEF TxStep

\* RX ends its session or goes on with it, or leaves it.
LEMMA RxImplements ==
    ASSUME IInv, IInv', SessionInv, RxStep
    PROVE  SessionInv' /\ [Session!SessionNext]_(Session!sessionVars)
<1>1. pc \in PcType /\ env \in EnvType
  BY TypesUnfolded DEF IInv
<1>2. ASSUME NEW from \in RxPcs \ {"none"}, NEW to \in RxPcs \ {"none"},
             Move("rx", from, to),
             \/ SameFlags(env, env') /\ to # "clear"
             \/ Ended(env, env')
      PROVE  SessionInv' /\ [Session!SessionNext]_(Session!sessionVars)
  <2>1. pc.rx = from /\ pc'.rx = to /\ pc'.tx = pc.tx
    BY <1>1, <1>2, Moves
  <2>2. Within \/ Ends
    BY <1>2, <2>1 DEF Within, Ends, SameThreads, Ended, SessionInv
  <2> QED
    BY <2>2, WithinStutters, EndsEnds DEF Session!sessionVars
<1>3. SameFlags(env, env)
  BY <1>1, FlagsKept
<1>4. CASE RxLoop \/ RecvResponse \/ RecvWake \/ RecvLost \/ RecvIdle
  <2>1. \E from \in {"loop", "recv"}, to \in {"recv", "exit", "loop", "media", "fail"} :
            Move("rx", from, to)
    BY <1>4 DEF RxLoop, RecvResponse, RecvWake, RecvLost, RecvIdle
  <2>2. SameFlags(env, env')
    BY <1>1, <1>3, <1>4, FlagsKept DEF RxLoop, RecvResponse, RecvWake, RecvLost, RecvIdle
  <2> QED
    BY <1>2, <2>1, <2>2 DEF RxPcs
<1>5. CASE SetReason("rx") \/ VoteOn("rx")
  <2>1. /\ \E from \in {"media", "fail", "mediaVote", "failVote"},
              to \in {"mediaVote", "failVote", "loop", "exit"} : Move("rx", from, to)
        /\ env' = env
    BY <1>5 DEF SetReason, VoteOn
  <2> QED
    BY <1>2, <1>3, <2>1 DEF RxPcs
<1>6. CASE RxExit
  <2>1. Move("rx", "exit", "clear") /\ Ended(env, env')
    BY <1>1, <1>6, FlagsKept DEF RxExit
  <2> QED
    BY <1>2, <2>1 DEF RxPcs
<1>7. CASE ClearHandle("rx")
  BY <1>7, HandlesCleared
<1> QED
  BY <1>4, <1>5, <1>6, <1>7 DEF RxStep

\* A thread that claims finds an ended session without threads, or does nothing.
LEMMA ClaimImplements ==
    ASSUME IInv, SessionInv, Claim, pc'.tx = pc.tx, pc'.rx = pc.rx
    PROVE  SessionInv' /\ [Session!SessionNext]_(Session!sessionVars)
<1>1. env \in EnvType /\ TeardownInv
  BY TypesUnfolded DEF IInv
<1>2. Users' = Users
  BY DEF Users
<1>3. /\ env'.ongoing = env.ongoing /\ env'.cleanup = env.cleanup
      /\ env'.releasing = (env.releasing \/ Claimable)
  BY <1>1 DEF Claim, EnvType
<1>4. SessionInv'
  BY <1>3 DEF SessionInv
<1>5. CASE Claimable
  <2>1. Phase = "ending" /\ Users = {}
    BY <1>1, <1>5 DEF Claimable, TeardownInv, Phase, Users
  <2>2. Phase' = "releasing"
    BY <1>3, <1>5 DEF Phase
  <2> QED
    BY <1>2, <1>4, <2>1, <2>2 DEF Session!SessionNext, Session!Seize
<1>6. CASE ~Claimable
  <2>1. env'.releasing = env.releasing
    BY <1>1, <1>3, <1>6 DEF EnvType
  <2>2. Phase' = Phase
    BY <1>2, <1>3, <2>1 DEF Phase
  <2> QED
    BY <1>2, <1>4, <2>2 DEF Session!sessionVars
<1> QED
  BY <1>5, <1>6

\* Who tears down releases.
LEMMA TearImplements ==
    ASSUME IInv, SessionInv, Tearing > 0, Tear, pc'.tx = pc.tx, pc'.rx = pc.rx
    PROVE  SessionInv' /\ [Session!SessionNext]_(Session!sessionVars)
<1>1. env \in EnvType /\ TeardownInv
  BY TypesUnfolded DEF IInv
<1>2. env.releasing /\ pc.tx = "none" /\ pc.rx = "none"
  BY <1>1 DEF TeardownInv
<1>3. ~env'.ongoing /\ ~env'.cleanup /\ ~env'.releasing
  BY DEF Tear, Cleared, Blank
<1>4. Users = {} /\ Users' = {}
  BY <1>2 DEF Users
<1>5. Phase = "releasing" /\ Phase' = "none"
  BY <1>2, <1>3, <1>4 DEF Phase
<1>6. SessionInv'
  BY <1>2, <1>3 DEF SessionInv
<1> QED
  BY <1>4, <1>5, <1>6 DEF Session!SessionNext, Session!Release

\* A step that touches neither the record's flags nor TX and RX.
LEMMA AsideStutters ==
    ASSUME SessionInv, SameFlags(env, env'), pc'.tx = pc.tx, pc'.rx = pc.rx
    PROVE  SessionInv' /\ [Session!SessionNext]_(Session!sessionVars)
<1>1. Within
  BY DEF Within, SameThreads
<1> QED
  BY <1>1, WithinStutters DEF Session!sessionVars

\* A thread on its way out.
LEMMA LeaverImplements ==
    ASSUME IInv, SessionInv, Leaver
    PROVE  SessionInv' /\ [Session!SessionNext]_(Session!sessionVars)
<1>1. pc' = pc /\ env \in EnvType /\ leaving \in [Stages -> Nat]
  BY TypesUnfolded DEF IInv, Leaver
<1>2. CASE Claim
  BY <1>1, <1>2, ClaimImplements
<1>3. CASE Tear /\ leaving["tear"] > 0
  <2>1. Tearing > 0
    BY <1>1, <1>3 DEF Tearing, Stages
  <2> QED
    BY <1>1, <1>3, <2>1, TearImplements
<1>4. CASE ResetSock
  BY <1>1, <1>4, FlagsKept, AsideStutters DEF ResetSock
<1> QED
  BY <1>2, <1>3, <1>4 DEF Leaver, Step

\* The thread that runs the commands.
LEMMA CmdImplements ==
    ASSUME IInv, SessionInv, CmdStep \/ StopCommand
    PROVE  SessionInv' /\ [Session!SessionNext]_(Session!sessionVars)
<1>1. pc \in PcType /\ env \in EnvType /\ leaving \in [Stages -> Nat]
  BY TypesUnfolded DEF IInv
<1>2. \E from, to \in CmdPcs : Move("cmd", from, to)
  BY DEF CmdStep, StopCommand, StopLooksForTx, Deinit, CloseSocket, CmdRelease, CmdPcs
<1>3. pc'.tx = pc.tx /\ pc'.rx = pc.rx
  BY <1>1, <1>2, Moves
<1>4. CASE StopLooksForTx \/ CloseSocket("cmd") \/ ResetSock
  <2>1. SameFlags(env, env')
    <3>1. \/ env' = env \/ env' = [env EXCEPT !.sock = "none"]
          \/ env' = [env EXCEPT !.lowVoltage = FALSE, !.timer = FALSE, !.sock = "none"]
      BY <1>4 DEF StopLooksForTx, CloseSocket, ResetSock
    <3> QED
      BY <1>1, <3>1 DEF SameFlags, EnvType
  <2> QED
    BY <1>3, <2>1, AsideStutters
<1>5. CASE StopCommand \/ Deinit("cmd")
  <2>1. Ended(env, env')
    BY <1>1, <1>5, FlagsKept DEF StopCommand, Deinit
  <2>2. Ends
    BY <1>3, <2>1 DEF Ends, SameThreads, Ended, SessionInv
  <2> QED
    BY <2>2, EndsEnds
<1>6. CASE Claim
  BY <1>3, <1>6, ClaimImplements
<1>7. CASE Tear /\ Move("cmd", "tear", IF "preempt" \in Faults THEN "stray" ELSE "idle")
  <2>1. Tearing > 0
    BY <1>1, <1>7 DEF Tearing, Stages, Move
  <2> QED
    BY <1>3, <1>7, <2>1, TearImplements
<1> QED
  BY <1>4, <1>5, <1>6, <1>7 DEF CmdStep, CmdRelease

\* A START that is not refused finds nothing of a former session.
LEMMA StartImplements ==
    ASSUME IInv, SessionInv, StartCommand
    PROVE  SessionInv' /\ [Session!SessionNext]_(Session!sessionVars)
<1>1. pc \in PcType /\ env \in EnvType /\ TeardownInv
  BY TypesUnfolded DEF IInv
<1>2. CASE UNCHANGED <<env, pc>>
  BY <1>1, <1>2, FlagsKept, AsideStutters
<1>3. ~Refused => /\ pc.tx = "none" /\ pc.rx = "none" /\ ~env.releasing
                  /\ Users = {} /\ Phase = "none"
  <2>1. ~Refused => pc.tx = "none" /\ pc.rx = "none" /\ ~env.releasing
    BY <1>1 DEF Refused, TeardownInv
  <2>2. ~Refused => Users = {}
    BY <2>1 DEF Users
  <2> QED
    BY <2>1, <2>2 DEF Phase, Refused
<1>4. CASE ~Refused /\ env' = NewSession /\ Move("tx", "none", "connect")
  <2>1. pc'.tx = "connect" /\ pc'.rx = "none"
    BY <1>1, <1>3, <1>4, Moves DEF TxPcs
  <2>2. env'.ongoing /\ ~env'.cleanup /\ ~env'.releasing
    BY <1>4 DEF NewSession, Blank, Cleared
  <2>3. Users' = {"tx"} /\ Phase' = "open"
    BY <2>1, <2>2 DEF Users, Phase
  <2>4. SessionInv'
    BY <2>1, <2>2 DEF SessionInv
  <2> QED
    BY <1>3, <1>4, <2>3, <2>4 DEF Session!SessionNext, Session!Begin
<1>5. CASE ~Refused /\ env' = Blank /\ UNCHANGED pc
  <2>1. ~env'.ongoing /\ ~env'.cleanup /\ ~env'.releasing
    BY <1>5 DEF Blank, Cleared
  <2>2. Users' = {} /\ Phase' = "none"
    BY <1>3, <1>5, <2>1 DEF Users, Phase
  <2>3. SessionInv'
    BY <1>3, <1>5, <2>1 DEF SessionInv
  <2> QED
    BY <1>3, <1>5, <2>2, <2>3 DEF Session!sessionVars
<1> QED
  BY <1>2, <1>4, <1>5 DEF StartCommand

\* Every step is one of the session, or none.
LEMMA NextImplements ==
    ASSUME IInv, IInv', SessionInv, [Next]_vars
    PROVE  SessionInv' /\ [Session!SessionNext]_(Session!sessionVars)
<1>1. env \in EnvType
  BY TypesUnfolded DEF IInv
<1>2. CASE UNCHANGED <<env, pc>>
  BY <1>1, <1>2, FlagsKept, AsideStutters
<1>3. CASE ApStep
  <2>1. StopCommand \/ StartCommand \/ UNCHANGED <<env, pc>>
    BY <1>3 DEF ApStep, PowerOn, PowerCut, Restart, ReadReason, StopConfirmed, Handover,
                cpVars
  <2> QED
    BY <1>2, <2>1, CmdImplements, StartImplements
<1>4. CASE CpStep
  <2>1. CASE RtcFires
    <3>1. pc' = pc /\ SameFlags(env, env')
      BY <1>1, <2>1, FlagsKept DEF RtcFires
    <3> QED
      BY <3>1, AsideStutters
  <2> QED
    BY <1>4, <2>1, TxImplements, RxImplements, CmdImplements, LeaverImplements DEF CpStep
<1> QED
  BY <1>2, <1>3, <1>4 DEF Next, Server, vars, cpVars

\* The state of the threads tells which session they are of.
LEMMA SessionAlways == Spec => []SessionInv
<1>1. Init => SessionInv
  BY DEF Init, KeepaliveInit, Cleared, SessionInv
<1> QED
  BY <1>1, Inductive, NextImplements, PTL DEF Spec

\* db_keepalive_cp_init, db_keepalive_cp_deinit and "Exclusive owner now": over
\* sessions that overlap with the threads of former ones, restarts, preempted
\* releasers and any failure, the life of a session is the one that
\* KeepaliveSession prescribes.
THEOREM SessionRefined == Spec => SessionManaged
<1>1. Init => Session!SessionInit
  <2>1. Init => Users = {}
    BY DEF Init, KeepaliveInit, Users
  <2> QED
    BY <2>1 DEF Init, KeepaliveInit, Cleared, Phase, Session!SessionInit
<1>2. IInv /\ IInv' /\ SessionInv /\ [Next]_vars
          => [Session!SessionNext]_(Session!sessionVars)
  BY NextImplements
<1> QED
  BY <1>1, <1>2, Inductive, SessionAlways, PTL
     DEF Spec, SessionManaged, Session!SessionSpec

=============================================================================
