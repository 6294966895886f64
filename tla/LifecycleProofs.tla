--------------------------- MODULE LifecycleProofs ---------------------------
(* Theorems about Lifecycle for any number of connections, management clients, *)
(* requests, tokens and reasons.                                               *)
EXTENDS Lifecycle, TLAPS

(* No receiver is ahead of the channel.                                        *)
CursorsBehind == mainCursor <= tail /\ \A h \in Handlers : cursor[h] <= tail

(* What was broadcast is a reason, and so is what main is about to broadcast.  *)
SendsReasons ==
  /\ tail > 0 => slot \in Reasons
  /\ mainPc = "notify" => reason \in Reasons

(* main's own receiver has something to return from its broadcast on.          *)
MainHasPending ==
  mainPc \in {"release", "drain", "final"} => Pending(mainCursor, tail)

(* The inductive strengthening.                                                *)
IInv ==
  /\ TypeOK
  /\ CursorsBehind
  /\ SendsReasons
  /\ MainHasPending
  /\ NoMissedShutdown
  /\ NoHandlerSpins
  /\ DrainedBeforeExit

(* Where a receive leaves a cursor: still a position, and not ahead.           *)
LEMMA AfterBounded ==
  ASSUME NEW c \in Nat, NEW t \in Nat, c <= t
  PROVE  After(c, t) \in Nat /\ After(c, t) <= t
BY DEF After, Ready, Lagged, Capacity

LEMMA ResponseType ==
  ASSUME NEW req \in ApiRequest, NEW receivers \in BOOLEAN
  PROVE  dispatch(req, receivers) \in ApiResponse
BY DEF dispatch, ApiResponse, ApiRequest, Actions, Parses, Authorized

LEMMA ReasonType ==
  ASSUME NEW req \in ApiRequest
  PROVE  ReasonOf(req) \in Reasons
BY ApiAssumption DEF ReasonOf, ApiRequest

LEMMA InitIInv == Init => IInv
<1> SUFFICES ASSUME Init PROVE IInv
  OBVIOUS
<1> USE ApiAssumption, LifecycleAssumption DEF Init
<1>1. TypeOK
  BY DEF TypeOK
<1>2. CursorsBehind /\ SendsReasons
  BY DEF CursorsBehind, SendsReasons
<1>3. MainHasPending /\ NoMissedShutdown /\ NoHandlerSpins /\ DrainedBeforeExit
  BY DEF MainHasPending, NoMissedShutdown, NoHandlerSpins, DrainedBeforeExit, Notified
<1>4. QED
  BY <1>1, <1>2, <1>3 DEF IInv

LEMMA NextTypeOK ==
  ASSUME TypeOK, CursorsBehind, SendsReasons, [Next]_vars
  PROVE  TypeOK'
<1> USE ApiAssumption, LifecycleAssumption
<1> USE DEF vars, mainVars, chanVars, taskVars, apiVars
<1>1. CASE UNCHANGED vars
  BY <1>1 DEF TypeOK
<1>2. CASE OsSignal
  BY <1>2 DEF OsSignal, TypeOK
<1>3. CASE Main
  <2>1. After(mainCursor, tail) \in Nat
    BY AfterBounded DEF TypeOK, CursorsBehind
  <2>2. CASE MainSignal \/ MainNotify
    BY <2>2 DEF MainSignal, MainNotify, Send, TypeOK
  <2>3. CASE MainInternal
    BY <2>1, <2>3 DEF MainInternal, TypeOK
  <2>4. CASE MainLagged
    BY <2>1, <2>4 DEF MainLagged, TypeOK
  <2>5. CASE MainRelease \/ MainDrained
    BY <2>5 DEF MainRelease, MainDrained, TypeOK
  <2>6. CASE MainFinal
    BY <2>1, <2>6 DEF MainFinal, TypeOK
  <2>7. QED
    BY <1>3, <2>2, <2>3, <2>4, <2>5, <2>6 DEF Main
<1>4. ASSUME NEW h \in Handlers, Task(h)
      PROVE  TypeOK'
  <2>1. CASE McAccept(h)
    BY <2>1 DEF McAccept, TypeOK
  <2>2. CASE HandlerStart(h)
    BY <2>2 DEF HandlerStart, TypeOK
  <2>3. CASE PeerEnds(h)
    BY <2>3 DEF PeerEnds, TypeOK
  <2>4. CASE HandlerRecv(h)
    <3>1. After(cursor[h], tail) \in Nat
      BY AfterBounded DEF TypeOK, CursorsBehind
    <3>2. cursor' \in [Handlers -> Nat]
      BY <2>4, <3>1 DEF HandlerRecv, TypeOK
    <3>3. Received(h) \in Reasons \union {"lagged", "closed"}
      BY DEF Received, Ready, SendsReasons, TypeOK
    <3>4. heard' \in [Handlers -> Reasons \union {"nothing", "lagged", "closed"}]
      BY <2>4, <3>3 DEF HandlerRecv, TypeOK
    <3>5. QED
      BY <2>4, <3>2, <3>4 DEF HandlerRecv, TypeOK
  <2>5. QED
    BY <1>4, <2>1, <2>2, <2>3, <2>4 DEF Task
<1>5. ASSUME NEW a \in ApiTasks, ApiTask(a)
      PROVE  TypeOK'
  <2>1. CASE ApiAccept(a) \/ ApiHangup(a) \/ ApiRespond(a)
    BY <2>1 DEF ApiAccept, ApiHangup, ApiRespond, TypeOK
  <2>2. ASSUME NEW req \in ApiRequests, ApiDispatch(a, req)
        PROVE  TypeOK'
    <3>1. req \in ApiRequest /\ ReasonOf(req) \in Reasons
      BY ReasonType
    <3>2. dispatch(req, HasReceiver) \in ApiResponse
      BY <3>1, ResponseType DEF HasReceiver
    <3>3. QED
      BY <2>2, <3>1, <3>2 DEF ApiDispatch, Send, TypeOK
  <2>3. QED
    BY <1>5, <2>1, <2>2 DEF ApiTask
<1>6. QED
  BY <1>1, <1>2, <1>3, <1>4, <1>5 DEF Next

(* Cursors stay behind the channel: a receive moves one at most up to tail, a  *)
(* subscription starts one there, and tail only grows.                         *)
LEMMA NextCursorsBehind ==
  ASSUME TypeOK, CursorsBehind, [Next]_vars
  PROVE  CursorsBehind'
<1> USE DEF vars, mainVars, chanVars, taskVars, apiVars, CursorsBehind
<1>1. CASE UNCHANGED vars
  BY <1>1
<1>2. CASE OsSignal
  BY <1>2 DEF OsSignal
<1>3. CASE Main
  <2>1. After(mainCursor, tail) <= tail
    BY AfterBounded DEF TypeOK
  <2>2. CASE MainNotify
    BY <2>2 DEF MainNotify, Send, TypeOK
  <2>3. CASE MainInternal \/ MainLagged \/ MainFinal
    BY <2>1, <2>3 DEF MainInternal, MainLagged, MainFinal
  <2>4. CASE MainSignal \/ MainRelease \/ MainDrained
    BY <2>4 DEF MainSignal, MainRelease, MainDrained
  <2>5. QED
    BY <1>3, <2>2, <2>3, <2>4 DEF Main
<1>4. ASSUME NEW h \in Handlers, Task(h)
      PROVE  CursorsBehind'
  <2>1. CASE McAccept(h)
    BY <2>1 DEF McAccept, TypeOK
  <2>2. CASE HandlerStart(h) \/ PeerEnds(h)
    BY <2>2 DEF HandlerStart, PeerEnds
  <2>3. CASE HandlerRecv(h)
    <3>1. After(cursor[h], tail) <= tail
      BY AfterBounded DEF TypeOK
    <3>2. QED
      BY <2>3, <3>1 DEF HandlerRecv, TypeOK
  <2>4. QED
    BY <1>4, <2>1, <2>2, <2>3 DEF Task
<1>5. ASSUME NEW a \in ApiTasks, ApiTask(a)
      PROVE  CursorsBehind'
  <2>1. mainCursor' = mainCursor /\ cursor' = cursor
    BY <1>5 DEF ApiTask, ApiAccept, ApiHangup, ApiRespond, ApiDispatch
  <2>2. tail' \in {tail, tail + 1}
    BY <1>5 DEF ApiTask, ApiAccept, ApiHangup, ApiRespond, ApiDispatch, Send
  <2>3. QED
    BY <2>1, <2>2 DEF TypeOK
<1>6. QED
  BY <1>1, <1>2, <1>3, <1>4, <1>5 DEF Next

LEMMA NextSendsReasons ==
  ASSUME TypeOK, CursorsBehind, SendsReasons, [Next]_vars
  PROVE  SendsReasons'
<1> USE DEF vars, mainVars, chanVars, taskVars, apiVars, SendsReasons
<1>1. CASE UNCHANGED vars
  BY <1>1
<1>2. CASE OsSignal
  BY <1>2 DEF OsSignal
<1>3. CASE Main
  <2>1. CASE MainSignal
    BY <2>1, ApiAssumption DEF MainSignal
  <2>2. CASE MainInternal
    BY <2>2 DEF MainInternal, Ready, TypeOK
  <2>3. CASE MainNotify
    BY <2>3 DEF MainNotify, Send
  <2>4. CASE MainLagged \/ MainRelease \/ MainDrained \/ MainFinal
    BY <2>4 DEF MainLagged, MainRelease, MainDrained, MainFinal
  <2>5. QED
    BY <1>3, <2>1, <2>2, <2>3, <2>4 DEF Main
<1>4. ASSUME NEW h \in Handlers, Task(h)
      PROVE  SendsReasons'
  BY <1>4 DEF Task, McAccept, HandlerStart, PeerEnds, HandlerRecv
<1>5. ASSUME NEW a \in ApiTasks, ApiTask(a)
      PROVE  SendsReasons'
  <2>1. CASE ApiAccept(a) \/ ApiHangup(a) \/ ApiRespond(a)
    BY <2>1 DEF ApiAccept, ApiHangup, ApiRespond
  <2>2. ASSUME NEW req \in ApiRequests, ApiDispatch(a, req)
        PROVE  SendsReasons'
    BY <2>2, LifecycleAssumption, ReasonType DEF ApiDispatch, Send
  <2>3. QED
    BY <1>5, <2>1, <2>2 DEF ApiTask
<1>6. QED
  BY <1>1, <1>2, <1>3, <1>4, <1>5 DEF Next

(* A step never takes a pending value from a task that stays live, and a       *)
(* receiver that is behind has been behind since main's broadcast: the parts   *)
(* of IInv about the drain.                                                    *)
Drain == MainHasPending /\ NoMissedShutdown /\ NoHandlerSpins /\ DrainedBeforeExit

LEMMA NextDrain ==
  ASSUME TypeOK, CursorsBehind, SendsReasons, Drain, [Next]_vars
  PROVE  Drain'
<1> USE DEF vars, mainVars, chanVars, taskVars, apiVars, Drain,
            MainHasPending, NoMissedShutdown, NoHandlerSpins, DrainedBeforeExit,
            Notified, Pending, Live
<1>1. CASE UNCHANGED vars
  BY <1>1
<1>2. CASE OsSignal
  BY <1>2 DEF OsSignal
<1>3. CASE Main
  <2>1. CASE MainNotify
    BY <2>1 DEF MainNotify, Send, TypeOK, CursorsBehind
  <2>2. CASE MainSignal \/ MainInternal \/ MainLagged
    BY <2>2 DEF MainSignal, MainInternal, MainLagged
  <2>3. CASE MainRelease
    BY <2>3 DEF MainRelease
  <2>4. CASE MainDrained
    BY <2>4 DEF MainDrained, AllComplete
  <2>5. CASE MainFinal
    BY <2>5 DEF MainFinal
  <2>6. QED
    BY <1>3, <2>1, <2>2, <2>3, <2>4, <2>5 DEF Main
<1>4. ASSUME NEW h \in Handlers, Task(h)
      PROVE  Drain'
  <2>1. CASE McAccept(h)
    BY <2>1 DEF McAccept
  <2>2. CASE HandlerStart(h) \/ PeerEnds(h)
    BY <2>2 DEF HandlerStart, PeerEnds, TypeOK
  <2>3. CASE HandlerRecv(h)
    <3>1. heard'[h] # "closed"
      <4>1. cursor[h] < tail
        BY <2>3 DEF HandlerRecv, Returns, Closed, Senders, Ended, TypeOK
      <4>2. Received(h) # "closed"
        BY <4>1, LifecycleAssumption DEF Received, Ready, SendsReasons, TypeOK
      <4>3. QED
        BY <2>3, <4>2 DEF HandlerRecv, TypeOK
    <3>2. QED
      BY <2>3, <3>1 DEF HandlerRecv, TypeOK
  <2>4. QED
    BY <1>4, <2>1, <2>2, <2>3 DEF Task
<1>5. ASSUME NEW a \in ApiTasks, ApiTask(a)
      PROVE  Drain'
  <2>1. UNCHANGED <<mainPc, mainCursor, pc, cursor, heard>>
    BY <1>5 DEF ApiTask, ApiAccept, ApiHangup, ApiRespond, ApiDispatch
  <2>2. tail' \in {tail, tail + 1}
    BY <1>5 DEF ApiTask, ApiAccept, ApiHangup, ApiRespond, ApiDispatch, Send
  <2>3. QED
    BY <2>1, <2>2 DEF TypeOK
<1>6. QED
  BY <1>1, <1>2, <1>3, <1>4, <1>5 DEF Next

THEOREM Inductive == Safety => []IInv
<1>1. IInv /\ [Next]_vars => IInv'
  BY NextTypeOK, NextCursorsBehind, NextSendsReasons, NextDrain DEF IInv, Drain
<1>2. QED
  BY InitIInv, <1>1, PTL DEF Safety

(* The types hold, for any number of tasks and any requests.                   *)
THEOREM TypeCorrect == Safety => []TypeOK
<1>1. IInv => TypeOK
  BY DEF IInv
<1>2. QED
  BY Inductive, <1>1, PTL

(* After main's broadcast every connection task still running has the signal   *)
(* pending, whenever it subscribed and whatever API tasks sent before.         *)
THEOREM NoMissed == Safety => []NoMissedShutdown
<1>1. IInv => NoMissedShutdown
  BY DEF IInv
<1>2. QED
  BY Inductive, <1>1, PTL

(* No connection task ever sees the channel closed, so none can spin on it.    *)
THEOREM NoSpin == Safety => []NoHandlerSpins
<1>1. IInv => NoHandlerSpins
  BY DEF IInv
<1>2. QED
  BY Inductive, <1>1, PTL

(* main's last receive finds a value waiting: it never depends on API clients. *)
THEOREM FinalRecv == Safety => []FinalRecvReturns
<1>1. IInv => FinalRecvReturns
  BY DEF IInv, MainHasPending, FinalRecvReturns
<1>2. QED
  BY Inductive, <1>1, PTL

(* A successful exit comes after every connection task has ended.              *)
THEOREM Drained == Safety => []DrainedBeforeExit
<1>1. IInv => DrainedBeforeExit
  BY DEF IInv
<1>2. QED
  BY Inductive, <1>1, PTL

(* No step accepts a connection once main has left its select!.                *)
THEOREM NoAccept == Safety => NoAcceptAfterStop
<1>1. TypeOK /\ [Next]_vars => [mainPc # "select" => Live' \subseteq Live]_vars
  <2> SUFFICES ASSUME TypeOK, Next, mainPc # "select"
               PROVE  Live' \subseteq Live
    OBVIOUS
  <2> USE DEF Live, taskVars
  <2>1. CASE OsSignal
    BY <2>1 DEF OsSignal
  <2>2. CASE Main
    BY <2>2 DEF Main, MainSignal, MainInternal, MainLagged, MainNotify,
       MainRelease, MainDrained, MainFinal
  <2>3. ASSUME NEW h \in Handlers, Task(h)
        PROVE  Live' \subseteq Live
    BY <2>3 DEF Task, McAccept, HandlerStart, PeerEnds, HandlerRecv, TypeOK
  <2>4. ASSUME NEW a \in ApiTasks, ApiTask(a)
        PROVE  Live' \subseteq Live
    BY <2>4 DEF ApiTask, ApiAccept, ApiHangup, ApiRespond, ApiDispatch
  <2>5. QED
    BY <2>1, <2>2, <2>3, <2>4 DEF Next
<1>2. QED
  BY TypeCorrect, <1>1, PTL DEF Safety, NoAcceptAfterStop

(* A management task has answered nothing before it has read its line, so an   *)
(* order once accepted stays on record.                                        *)
AuthInv ==
  /\ \A a \in ApiTasks : apiPc[a] \in {"unborn", "reading"} => response[a] = "none"
  /\ OnlyAuthorizedStop

(* Dispatch broadcasts exactly when it answers "ok" to an authorised order.    *)
LEMMA DispatchOk ==
  ASSUME NEW req \in ApiRequest, MayShutDown(req)
  PROVE  /\ dispatch(req, TRUE) = "ok"
         /\ req.action = "shutdown"
         /\ ConfigToken # NoToken /\ req.token = ConfigToken
BY DEF MayShutDown, dispatch, Parses, Authorized, ApiRequest, Actions

LEMMA NextAuthInv ==
  ASSUME TypeOK, AuthInv, [Next]_vars
  PROVE  AuthInv'
<1> USE DEF vars, mainVars, chanVars, taskVars, apiVars, AuthInv, OnlyAuthorizedStop, Ordered
<1>1. CASE UNCHANGED vars
  BY <1>1
<1>2. CASE OsSignal
  BY <1>2 DEF OsSignal
<1>3. CASE Main
  <2>1. CASE MainSignal
    BY <2>1 DEF MainSignal
  <2>2. CASE MainInternal \/ MainLagged
    <3>1. tail > 0
      BY <2>2 DEF MainInternal, MainLagged, Ready, Lagged, Capacity, TypeOK
    <3>2. QED
      BY <2>2, <3>1 DEF MainInternal, MainLagged
  <2>3. CASE MainNotify
    BY <2>3 DEF MainNotify
  <2>4. CASE MainRelease \/ MainDrained \/ MainFinal
    BY <2>4 DEF MainRelease, MainDrained, MainFinal
  <2>5. QED
    BY <1>3, <2>1, <2>2, <2>3, <2>4 DEF Main
<1>4. ASSUME NEW h \in Handlers, Task(h)
      PROVE  AuthInv'
  BY <1>4 DEF Task, McAccept, HandlerStart, PeerEnds, HandlerRecv
<1>5. ASSUME NEW a \in ApiTasks, ApiTask(a)
      PROVE  AuthInv'
  <2>1. CASE ApiAccept(a) \/ ApiHangup(a) \/ ApiRespond(a)
    BY <2>1 DEF ApiAccept, ApiHangup, ApiRespond, TypeOK
  <2>2. ASSUME NEW req \in ApiRequests, ApiDispatch(a, req)
        PROVE  AuthInv'
    <3>1. HasReceiver = TRUE
      BY <2>2 DEF ApiDispatch, HasReceiver
    <3>2. \A b \in ApiTasks : b # a => /\ response'[b] = response[b]
                                      /\ request'[b] = request[b]
                                      /\ apiPc'[b] = apiPc[b]
      BY <2>2 DEF ApiDispatch, TypeOK
    <3>3. /\ apiPc'[a] = "responding" /\ request'[a] = req
          /\ response'[a] = dispatch(req, TRUE)
      BY <2>2, <3>1 DEF ApiDispatch, TypeOK
    <3>4. response[a] = "none"
      BY <2>2 DEF ApiDispatch
    <3>5. CASE MayShutDown(req)
      <4>1. Ordered(a)' /\ ConfigToken # NoToken /\ request'[a].token = ConfigToken
        BY <3>3, <3>5, DispatchOk, LifecycleAssumption
      <4>2. QED
        BY <3>2, <3>3, <4>1
    <3>6. CASE ~MayShutDown(req)
      <4>1. UNCHANGED <<tail, mainPc, signalled>>
        BY <2>2, <3>6 DEF ApiDispatch
      <4>2. QED
        BY <3>2, <3>3, <3>4, <4>1
    <3>7. QED
      BY <3>5, <3>6
  <2>3. QED
    BY <1>5, <2>1, <2>2 DEF ApiTask
<1>6. QED
  BY <1>1, <1>2, <1>3, <1>4, <1>5 DEF Next

LEMMA Authorised == Safety => []AuthInv
<1>1. Init => AuthInv
  BY DEF Init, AuthInv, OnlyAuthorizedStop
<1>2. TypeOK /\ AuthInv /\ [Next]_vars => AuthInv'
  BY NextAuthInv
<1>3. QED
  BY TypeCorrect, <1>1, <1>2, PTL DEF Safety

(* The server stops only on an OS signal or an order with the configured token.*)
THEOREM OnlyAuthorized == Safety => []OnlyAuthorizedStop
<1>1. AuthInv => OnlyAuthorizedStop
  BY DEF AuthInv
<1>2. QED
  BY Authorised, <1>1, PTL

(* An accepted order stays on record.                                          *)
LEMMA OrdersStay ==
  ASSUME TypeOK, AuthInv, [Next]_vars, NEW a \in ApiTasks, Ordered(a)
  PROVE  Ordered(a)' /\ request'[a] = request[a]
<1> USE DEF vars, mainVars, chanVars, taskVars, apiVars, AuthInv, Ordered
<1>1. CASE UNCHANGED <<request, response>>
  BY <1>1
<1>2. ASSUME NEW b \in ApiTasks, NEW req \in ApiRequests, ApiDispatch(b, req)
      PROVE  Ordered(a)' /\ request'[a] = request[a]
  <2>1. b # a
    BY <1>2 DEF ApiDispatch
  <2>2. QED
    BY <1>2, <2>1 DEF ApiDispatch, TypeOK
<1>3. QED
  BY <1>1, <1>2 DEF Next, OsSignal, Main, MainSignal, MainInternal, MainLagged, MainNotify,
     MainRelease, MainDrained, MainFinal, Task, McAccept, HandlerStart, PeerEnds,
     HandlerRecv, ApiTask, ApiAccept, ApiHangup, ApiRespond

(* A task that broadcasts has become the task of an accepted order.            *)
LEMMA DispatchOrders ==
  ASSUME TypeOK, NEW a \in ApiTasks, NEW req \in ApiRequests, ApiDispatch(a, req),
         MayShutDown(req)
  PROVE  Ordered(a)' /\ request'[a] = req /\ tail' = tail + 1 /\ slot' = ReasonOf(req)
<1>1. HasReceiver = TRUE
  BY DEF ApiDispatch, HasReceiver
<1>2. dispatch(req, TRUE) = "ok" /\ req.action = "shutdown"
  BY DispatchOk, LifecycleAssumption
<1>3. QED
  BY <1>1, <1>2 DEF ApiDispatch, Send, Ordered, TypeOK

(* The reasons somebody has asked for, and where they are kept: in the         *)
(* channel, with main on its way from one broadcast to the next, with a task.  *)
Asked ==
  {v \in Reasons : \/ signalled /\ v = DisconnectMsg
                   \/ \E a \in ApiTasks : Ordered(a) /\ v = ReasonOf(request[a])}

KeepsAsked ==
  /\ tail > 0 => slot \in Asked
  /\ mainPc = "notify" => reason \in Asked
  /\ \A h \in Handlers : heard[h] \in Reasons => heard[h] \in Asked

LEMMA AskedGrows ==
  ASSUME TypeOK, AuthInv, [Next]_vars
  PROVE  Asked \subseteq Asked'
<1>1. signalled => signalled'
  BY DEF Next, OsSignal, Main, MainSignal, MainInternal, MainLagged, MainNotify,
     MainRelease, MainDrained, MainFinal, Task, McAccept, HandlerStart, PeerEnds,
     HandlerRecv, ApiTask, ApiAccept, ApiHangup, ApiRespond, ApiDispatch,
     vars, mainVars, chanVars, taskVars, apiVars
<1>2. \A a \in ApiTasks : Ordered(a) => Ordered(a)' /\ request'[a] = request[a]
  BY OrdersStay
<1>3. QED
  BY <1>1, <1>2 DEF Asked

LEMMA NextKeepsAsked ==
  ASSUME TypeOK, AuthInv, KeepsAsked, [Next]_vars
  PROVE  KeepsAsked'
<1> USE DEF vars, mainVars, chanVars, taskVars, apiVars, KeepsAsked
<1>1. Asked \subseteq Asked'
  BY AskedGrows
<1>2. CASE UNCHANGED vars
  BY <1>1, <1>2
<1>3. CASE OsSignal
  BY <1>1, <1>3 DEF OsSignal
<1>4. CASE Main
  <2>1. CASE MainSignal
    BY <1>1, <2>1, ApiAssumption DEF MainSignal, Asked
  <2>2. CASE MainInternal
    BY <1>1, <2>2 DEF MainInternal, Ready, TypeOK
  <2>3. CASE MainNotify
    BY <1>1, <2>3 DEF MainNotify, Send
  <2>4. CASE MainLagged \/ MainRelease \/ MainDrained \/ MainFinal
    BY <1>1, <2>4 DEF MainLagged, MainRelease, MainDrained, MainFinal
  <2>5. QED
    BY <1>4, <2>1, <2>2, <2>3, <2>4 DEF Main
<1>5. ASSUME NEW h \in Handlers, Task(h)
      PROVE  KeepsAsked'
  <2>1. CASE McAccept(h) \/ HandlerStart(h) \/ PeerEnds(h)
    BY <1>1, <2>1 DEF McAccept, HandlerStart, PeerEnds
  <2>2. CASE HandlerRecv(h)
    <3>1. Received(h) \in Reasons => Received(h) \in Asked
      BY LifecycleAssumption DEF Received, Ready, TypeOK
    <3>2. QED
      BY <1>1, <2>2, <3>1 DEF HandlerRecv, TypeOK
  <2>3. QED
    BY <1>5, <2>1, <2>2 DEF Task
<1>6. ASSUME NEW a \in ApiTasks, ApiTask(a)
      PROVE  KeepsAsked'
  <2>1. CASE ApiAccept(a) \/ ApiHangup(a) \/ ApiRespond(a)
    BY <1>1, <2>1 DEF ApiAccept, ApiHangup, ApiRespond
  <2>2. ASSUME NEW req \in ApiRequests, ApiDispatch(a, req)
        PROVE  KeepsAsked'
    <3>1. UNCHANGED <<mainPc, reason, heard>>
      BY <2>2 DEF ApiDispatch
    <3>2. CASE MayShutDown(req)
      <4>1. ReasonOf(req) \in Reasons
        BY ReasonType, LifecycleAssumption
      <4>2. slot' \in Asked'
        BY <2>2, <3>2, <4>1, DispatchOrders DEF Asked
      <4>3. QED
        BY <1>1, <3>1, <4>2
    <3>3. CASE ~MayShutDown(req)
      BY <1>1, <2>2, <3>1, <3>3 DEF ApiDispatch
    <3>4. QED
      BY <3>2, <3>3
  <2>3. QED
    BY <1>6, <2>1, <2>2 DEF ApiTask
<1>7. QED
  BY <1>2, <1>3, <1>4, <1>5, <1>6 DEF Next

(* What a connection's task is told was asked for by somebody who may ask:     *)
(* main passes on what it has received, and no task reads an empty channel.    *)
THEOREM GenuineReasons == Safety => []ReasonIsGenuine
<1>1. Init => KeepsAsked
  BY LifecycleAssumption DEF Init, KeepsAsked
<1>2. TypeOK /\ AuthInv /\ KeepsAsked /\ [Next]_vars => KeepsAsked'
  BY NextKeepsAsked
<1>3. KeepsAsked => ReasonIsGenuine
  BY DEF KeepsAsked, Asked, ReasonIsGenuine
<1>4. QED
  BY TypeCorrect, Authorised, <1>1, <1>2, <1>3, PTL DEF Safety

(* Until main has looked, the channel holds one value for each accepted order. *)
TwoOrders == \E a, b \in ApiTasks : a # b /\ Ordered(a) /\ Ordered(b)

OneOrderEach ==
  /\ mainPc = "select" /\ tail > 0 => \E a \in ApiTasks : Ordered(a)
  /\ mainPc = "select" /\ tail > 1 => TwoOrders
  /\ mainPc = "failed" => TwoOrders

LEMMA NextOneOrderEach ==
  ASSUME TypeOK, AuthInv, OneOrderEach, [Next]_vars
  PROVE  OneOrderEach'
<1> USE DEF vars, mainVars, chanVars, taskVars, apiVars, OneOrderEach
<1>1. /\ \A a \in ApiTasks : Ordered(a) => Ordered(a)'
      /\ TwoOrders => TwoOrders'
  BY OrdersStay DEF TwoOrders
<1>2. CASE UNCHANGED vars \/ OsSignal
  BY <1>1, <1>2 DEF OsSignal
<1>3. CASE Main
  <2>1. CASE MainLagged
    BY <1>1, <2>1 DEF MainLagged, Lagged, Capacity, TypeOK
  <2>2. CASE MainSignal \/ MainInternal \/ MainNotify
    BY <1>1, <2>2 DEF MainSignal, MainInternal, MainNotify
  <2>3. CASE MainRelease \/ MainDrained \/ MainFinal
    BY <1>1, <2>3 DEF MainRelease, MainDrained, MainFinal
  <2>4. QED
    BY <1>3, <2>1, <2>2, <2>3 DEF Main
<1>4. ASSUME NEW h \in Handlers, Task(h)
      PROVE  OneOrderEach'
  BY <1>1, <1>4 DEF Task, McAccept, HandlerStart, PeerEnds, HandlerRecv
<1>5. ASSUME NEW a \in ApiTasks, ApiTask(a)
      PROVE  OneOrderEach'
  <2>1. CASE ApiAccept(a) \/ ApiHangup(a) \/ ApiRespond(a)
    BY <1>1, <2>1 DEF ApiAccept, ApiHangup, ApiRespond
  <2>2. ASSUME NEW req \in ApiRequests, ApiDispatch(a, req)
        PROVE  OneOrderEach'
    <3>1. mainPc' = mainPc /\ ~Ordered(a)
      BY <2>2 DEF ApiDispatch, AuthInv, Ordered
    <3>2. CASE MayShutDown(req)
      <4>1. Ordered(a)' /\ tail' = tail + 1
        BY <2>2, <3>2, DispatchOrders
      <4>2. (\E b \in ApiTasks : Ordered(b)) => TwoOrders'
        BY <1>1, <3>1, <4>1 DEF TwoOrders
      <4>3. QED
        BY <1>1, <3>1, <4>1, <4>2 DEF TypeOK
    <3>3. CASE ~MayShutDown(req)
      BY <1>1, <2>2, <3>1, <3>3 DEF ApiDispatch
    <3>4. QED
      BY <3>2, <3>3
  <2>3. QED
    BY <1>5, <2>1, <2>2 DEF ApiTask
<1>6. QED
  BY <1>2, <1>3, <1>4, <1>5 DEF Next

(* main fails, leaving its connections undrained, for one reason only: two     *)
(* orders reached the channel before it looked at the first.                   *)
THEOREM FailsOnlyOnTwo == Safety => []FailsOnlyOnTwoOrders
<1>1. Init => OneOrderEach
  BY DEF Init, OneOrderEach
<1>2. TypeOK /\ AuthInv /\ OneOrderEach /\ [Next]_vars => OneOrderEach'
  BY NextOneOrderEach
<1>3. OneOrderEach => FailsOnlyOnTwoOrders
  BY DEF OneOrderEach, TwoOrders, FailsOnlyOnTwoOrders
<1>4. QED
  BY TypeCorrect, Authorised, <1>1, <1>2, <1>3, PTL DEF Safety

(* The machinery implements the graceful drain: initial states and steps map   *)
(* to initial states and steps (or stutters) of GracefulDrain.                 *)
THEOREM ImplementsDrain == Safety => GD!Safety
<1>1. Init => GD!Init
  BY DEF Init, GD!Init, Phase, Live
<1>2. IInv /\ [Next]_vars => [GD!Next]_(GD!dvars)
  <2> SUFFICES ASSUME IInv, [Next]_vars
               PROVE  [GD!Next]_(GD!dvars)
    OBVIOUS
  <2> USE DEF IInv, TypeOK, Live, GD!dvars, GD!Next, vars, taskVars, mainVars
  <2>1. CASE UNCHANGED vars
    BY <2>1 DEF Phase
  <2>2. CASE OsSignal
    BY <2>2 DEF OsSignal, Phase
  <2>3. CASE Main
    BY <2>3 DEF Main, MainSignal, MainInternal, MainLagged, MainNotify, MainRelease,
       MainDrained, MainFinal, DrainedBeforeExit, Phase, GD!Drain, GD!Stop, GD!Crash
  <2>4. ASSUME NEW h \in Handlers, Task(h)
        PROVE  [GD!Next]_(GD!dvars)
    <3>1. CASE McAccept(h)
      <4>1. GD!Open(h)
        BY <3>1 DEF McAccept, GD!Open, Phase
      <4>2. QED
        BY <4>1
    <3>2. CASE HandlerStart(h)
      BY <3>2 DEF HandlerStart, Phase
    <3>3. ASSUME ~Ended, pc[h] = "serving", pc' = [pc EXCEPT ![h] = "gone"],
                 UNCHANGED mainPc
          PROVE  [GD!Next]_(GD!dvars)
      <4>1. GD!Close(h)
        BY <3>3 DEF GD!Close, Phase, Ended, DrainedBeforeExit
      <4>2. QED
        BY <4>1
    <3>4. CASE PeerEnds(h)
      BY <3>3, <3>4 DEF PeerEnds
    <3>5. CASE HandlerRecv(h) /\ pc' = pc
      BY <3>5 DEF HandlerRecv, Phase
    <3>6. CASE HandlerRecv(h) /\ pc' # pc
      BY <3>3, <3>6 DEF HandlerRecv
    <3>7. QED
      BY <2>4, <3>1, <3>2, <3>4, <3>5, <3>6 DEF Task
  <2>5. ASSUME NEW a \in ApiTasks, ApiTask(a)
        PROVE  [GD!Next]_(GD!dvars)
    BY <2>5 DEF ApiTask, ApiAccept, ApiHangup, ApiRespond, ApiDispatch, Phase
  <2>6. QED
    BY <2>1, <2>2, <2>3, <2>4, <2>5 DEF Next
<1>3. QED
  BY Inductive, <1>1, <1>2, PTL DEF Safety, GD!Safety
==============================================================================
