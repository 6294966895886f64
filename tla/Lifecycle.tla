------------------------------ MODULE Lifecycle ------------------------------
(* The server's life: the main task (src/main.rs), the accept loop of          *)
(* Server::run, one task per Minecraft connection (Handler, Shutdown) and one  *)
(* per management connection (api::handle), which meet in a broadcast channel  *)
(* (the shutdown signal) and in an mpsc channel nobody sends on (its closing   *)
(* tells main that every connection task has ended).                           *)
EXTENDS Api, Broadcast

CONSTANTS
  Handlers,       \* connection tasks, each for one accepted Minecraft client
  ApiTasks,       \* management tasks, each for one accepted API client
  ApiRequests     \* the requests API clients send

ASSUME LifecycleAssumption ==
  /\ ApiRequests \subseteq ApiRequest
  /\ Reasons \intersect {"nothing", "lagged", "closed"} = {}

VARIABLES
  mainPc,         \* where the main task is
  reason,         \* the template main is about to broadcast
  signalled,      \* an OS signal has been delivered
  tail, slot,     \* notify_shutdown: values sent so far, and the last one
  mainCursor,     \* main's _shutdown_rx
  pc,             \* of each connection task
  cursor,         \* each task's Shutdown.recv
  heard,          \* what each task's Shutdown::recv returned
  apiPc,          \* of each management task
  request,        \* the line each management task read
  response        \* what each management task answers

mainVars == <<mainPc, reason, mainCursor>>
chanVars == <<tail, slot>>
taskVars == <<pc, cursor, heard>>
apiVars  == <<apiPc, request, response>>
vars     == <<mainVars, signalled, chanVars, taskVars, apiVars>>

NoRequest == [action |-> "malformed", token |-> NoToken, reason |-> NoReason]

(* Connection tasks that hold a clone of shutdown_complete_tx.                 *)
Live == {h \in Handlers : pc[h] \in {"accepted", "serving"}}

(* main has returned: the runtime drops every task that is left.               *)
Ended == mainPc \in {"exited", "failed"}

(* Variants: a task clones shutdown_complete_tx only when it starts to serve;  *)
(* management tasks hold a clone too.                                          *)
CompleteWhenServed == {h \in Handlers : pc[h] = "serving"} = {}
CompleteWithApi ==
  Live = {} /\ \A a \in ApiTasks : apiPc[a] \notin {"reading", "responding"}

(* The mpsc channel is closed: main dropped its sender, and so did every task. *)
AllComplete == Live = {}

(* Some clone of notify_shutdown is left: main's, or a management task's.      *)
Senders ==
  \/ mainPc \in {"select", "notify", "release"}
  \/ \E a \in ApiTasks : apiPc[a] \in {"reading", "responding"}

HasReceiver == ~Ended \/ Live # {}

Send(value) == tail' = tail + 1 /\ slot' = value

Init ==
  /\ mainPc = "select"
  /\ reason = NoReason
  /\ signalled = FALSE
  /\ tail = 0
  /\ slot = NoReason
  /\ mainCursor = 0
  /\ pc = [h \in Handlers |-> "unborn"]
  /\ cursor = [h \in Handlers |-> 0]
  /\ heard = [h \in Handlers |-> "nothing"]
  /\ apiPc = [a \in ApiTasks |-> "unborn"]
  /\ request = [a \in ApiTasks |-> NoRequest]
  /\ response = [a \in ApiTasks |-> "none"]
------------------------------------------------------------------------------
(* The main task                                                               *)

(* SIGINT, SIGQUIT or SIGTERM is delivered (or its listener failed to install: *)
(* the select! pattern `_` takes both).                                        *)
OsSignal ==
  /\ ~Ended
  /\ ~signalled
  /\ signalled' = TRUE
  /\ UNCHANGED <<mainVars, chanVars, taskVars, apiVars>>

(* A signal branch of select! wins: server.run is dropped, and shutdown(None)  *)
(* takes the configured message.                                               *)
MainSignal ==
  /\ mainPc = "select"
  /\ signalled
  /\ mainPc' = "notify"
  /\ reason' = DisconnectMsg
  /\ UNCHANGED <<mainCursor, signalled, chanVars, taskVars, apiVars>>

(* Variants: the internal branch breaks without broadcasting again, or         *)
(* broadcasts the configured message instead of what it received.              *)
InternalSilent ==
  /\ mainPc = "select"
  /\ Ready(mainCursor, tail)
  /\ mainPc' = "release"
  /\ mainCursor' = After(mainCursor, tail)
  /\ UNCHANGED <<reason, signalled, chanVars, taskVars, apiVars>>

InternalDefault ==
  /\ mainPc = "select"
  /\ Ready(mainCursor, tail)
  /\ mainPc' = "notify"
  /\ reason' = DisconnectMsg
  /\ mainCursor' = After(mainCursor, tail)
  /\ UNCHANGED <<signalled, chanVars, taskVars, apiVars>>

(* The internal branch wins: main has received what an API task sent.          *)
MainInternal ==
  /\ mainPc = "select"
  /\ Ready(mainCursor, tail)
  /\ mainPc' = "notify"
  /\ reason' = slot
  /\ mainCursor' = After(mainCursor, tail)
  /\ UNCHANGED <<signalled, chanVars, taskVars, apiVars>>

(* Variant: every receive of the internal branch is taken for an error.        *)
InternalFails ==
  /\ mainPc = "select"
  /\ Pending(mainCursor, tail)
  /\ mainPc' = "failed"
  /\ mainCursor' = After(mainCursor, tail)
  /\ UNCHANGED <<reason, signalled, chanVars, taskVars, apiVars>>

(* The internal branch wins with Err(Lagged): `reason?` returns from main.     *)
MainLagged ==
  /\ mainPc = "select"
  /\ Lagged(mainCursor, tail)
  /\ mainPc' = "failed"
  /\ mainCursor' = After(mainCursor, tail)
  /\ UNCHANGED <<reason, signalled, chanVars, taskVars, apiVars>>

(* Server::shutdown broadcasts; it cannot fail while main holds a receiver.    *)
MainNotify ==
  /\ mainPc = "notify"
  /\ mainPc' = "release"
  /\ Send(reason)
  /\ UNCHANGED <<reason, mainCursor, signalled, taskVars, apiVars>>

(* drop(notify_shutdown); drop(shutdown_complete_tx).                          *)
MainRelease ==
  /\ mainPc = "release"
  /\ mainPc' = "drain"
  /\ UNCHANGED <<reason, mainCursor, signalled, chanVars, taskVars, apiVars>>

(* _shutdown_complete_rx.recv() returns None.                                  *)
MainDrained ==
  /\ mainPc = "drain"
  /\ AllComplete
  /\ mainPc' = "final"
  /\ UNCHANGED <<reason, mainCursor, signalled, chanVars, taskVars, apiVars>>

(* _shutdown_rx.recv() returns, with whatever result, and main returns Ok.     *)
MainFinal ==
  /\ mainPc = "final"
  /\ Returns(mainCursor, tail, Senders)
  /\ mainPc' = "exited"
  /\ mainCursor' = After(mainCursor, tail)
  /\ UNCHANGED <<reason, signalled, chanVars, taskVars, apiVars>>

Main == MainSignal \/ MainInternal \/ MainLagged \/ MainNotify \/ MainRelease
          \/ MainDrained \/ MainFinal
------------------------------------------------------------------------------
(* Minecraft connections                                                       *)

(* Variant: the accept loop is not dropped when main leaves its select!.       *)
AcceptAlways(h) ==
  /\ ~Ended
  /\ pc[h] = "unborn"
  /\ pc' = [pc EXCEPT ![h] = "accepted"]
  /\ cursor' = [cursor EXCEPT ![h] = tail]
  /\ UNCHANGED <<heard, mainVars, signalled, chanVars, apiVars>>

(* Server::run accepts, clones shutdown_complete_tx, subscribes and spawns.    *)
McAccept(h) ==
  /\ mainPc = "select"
  /\ pc[h] = "unborn"
  /\ pc' = [pc EXCEPT ![h] = "accepted"]
  /\ cursor' = [cursor EXCEPT ![h] = tail]
  /\ UNCHANGED <<heard, mainVars, signalled, chanVars, apiVars>>

(* Connection::new has read the config; Handler::run starts.                   *)
HandlerStart(h) ==
  /\ ~Ended
  /\ pc[h] = "accepted"
  /\ pc' = [pc EXCEPT ![h] = "serving"]
  /\ UNCHANGED <<cursor, heard, mainVars, signalled, chanVars, apiVars>>

(* handle_connection returns Err (the peer closed, or an error): run returns   *)
(* and the Handler is dropped.                                                 *)
PeerEnds(h) ==
  /\ ~Ended
  /\ pc[h] = "serving"
  /\ pc' = [pc EXCEPT ![h] = "gone"]
  /\ UNCHANGED <<cursor, heard, mainVars, signalled, chanVars, apiVars>>

(* What Shutdown::recv returns: the reason on Ok, None on Lagged or Closed.     *)
Received(h) ==
  IF Ready(cursor[h], tail) THEN slot
  ELSE IF Lagged(cursor[h], tail) THEN "lagged" ELSE "closed"

(* The shutdown branch of run's select! wins.  Ok and Lagged set is_shutdown,  *)
(* which ends the loop and drops the Handler; Closed leaves it unset, and run  *)
(* goes around.                                                                *)
HandlerRecv(h) ==
  /\ ~Ended
  /\ pc[h] = "serving"
  /\ Returns(cursor[h], tail, Senders)
  /\ heard' = [heard EXCEPT ![h] = Received(h)]
  /\ cursor' = [cursor EXCEPT ![h] = After(@, tail)]
  /\ pc' = [pc EXCEPT ![h] = IF Pending(cursor[h], tail) THEN "gone" ELSE @]
  /\ UNCHANGED <<mainVars, signalled, chanVars, apiVars>>
------------------------------------------------------------------------------
(* Management connections                                                      *)

(* Server::run accepts, clones notify_shutdown (and nothing that main waits    *)
(* for) and spawns.                                                            *)
ApiAccept(a) ==
  /\ mainPc = "select"
  /\ apiPc[a] = "unborn"
  /\ apiPc' = [apiPc EXCEPT ![a] = "reading"]
  /\ UNCHANGED <<request, response, mainVars, signalled, chanVars, taskVars>>

(* read_line returns 0 bytes or an error.                                      *)
ApiHangup(a) ==
  /\ ~Ended
  /\ apiPc[a] = "reading"
  /\ apiPc' = [apiPc EXCEPT ![a] = "gone"]
  /\ UNCHANGED <<request, response, mainVars, signalled, chanVars, taskVars>>

(* A line arrives and is dispatched; an authorised shutdown is broadcast.      *)
ApiDispatch(a, req) ==
  /\ ~Ended
  /\ apiPc[a] = "reading"
  /\ apiPc' = [apiPc EXCEPT ![a] = "responding"]
  /\ request' = [request EXCEPT ![a] = req]
  /\ response' = [response EXCEPT ![a] = dispatch(req, HasReceiver)]
  /\ IF MayShutDown(req) /\ HasReceiver THEN Send(ReasonOf(req)) ELSE UNCHANGED chanVars
  /\ UNCHANGED <<mainVars, signalled, taskVars>>

(* write_response has written the line, or failed to: the task ends.           *)
ApiRespond(a) ==
  /\ ~Ended
  /\ apiPc[a] = "responding"
  /\ apiPc' = [apiPc EXCEPT ![a] = "gone"]
  /\ UNCHANGED <<request, response, mainVars, signalled, chanVars, taskVars>>
------------------------------------------------------------------------------
Task(h) == McAccept(h) \/ HandlerStart(h) \/ PeerEnds(h) \/ HandlerRecv(h)

ApiTask(a) ==
  \/ ApiAccept(a) \/ ApiHangup(a) \/ ApiRespond(a)
  \/ \E req \in ApiRequests : ApiDispatch(a, req)

Next ==
  \/ OsSignal
  \/ Main
  \/ \E h \in Handlers : Task(h)
  \/ \E a \in ApiTasks : ApiTask(a)

(* The runtime polls a woken task: main when a branch of its select! or a      *)
(* receive is ready, a connection task when it can start or its signal is      *)
(* pending.  Clients owe nothing: no fairness on connects, hang-ups, requests  *)
(* or OS signals.                                                              *)
Fairness ==
  /\ WF_vars(Main)
  /\ \A h \in Handlers : WF_vars(HandlerStart(h)) /\ WF_vars(HandlerRecv(h))

Safety == Init /\ [][Next]_vars

Spec == Safety /\ Fairness
------------------------------------------------------------------------------
(* Properties                                                                  *)

TypeOK ==
  /\ mainPc \in {"select", "notify", "release", "drain", "final", "exited", "failed"}
  /\ reason \in Reasons \union {NoReason}
  /\ signalled \in BOOLEAN
  /\ tail \in Nat
  /\ slot \in Reasons \union {NoReason}
  /\ mainCursor \in Nat
  /\ pc \in [Handlers -> {"unborn", "accepted", "serving", "gone"}]
  /\ cursor \in [Handlers -> Nat]
  /\ heard \in [Handlers -> Reasons \union {"nothing", "lagged", "closed"}]
  /\ apiPc \in [ApiTasks -> {"unborn", "reading", "responding", "gone"}]
  /\ request \in [ApiTasks -> ApiRequests \union {NoRequest}]
  /\ response \in [ApiTasks -> ApiResponse \union {"none"}]

Notified == mainPc \in {"release", "drain", "final", "exited"}

(* No connection misses the shutdown: once main has broadcast, every task that *)
(* still runs has a value (or a lag) to receive, also one that subscribed      *)
(* after an API task's own send, which it never saw.                           *)
NoMissedShutdown == Notified => \A h \in Live : Pending(cursor[h], tail)

(* No connection task ever receives Closed, on which Handler::run would spin:  *)
(* is_shutdown stays false and the next recv returns at once.                  *)
NoHandlerSpins == \A h \in Handlers : heard[h] # "closed"

(* main never blocks in its last receive, whatever the API clients that still  *)
(* hold a Sender do: main's own broadcast came after its last receive.         *)
FinalRecvReturns == mainPc = "final" => Pending(mainCursor, tail)

(* main passes the mpsc channel, and exits successfully, only when every       *)
(* connection task has ended, also those accepted but not yet started.         *)
DrainedBeforeExit == mainPc \in {"final", "exited"} => Live = {}

(* A task of an API client whose shutdown was authorised.                      *)
Ordered(a) == response[a] = "ok" /\ request[a].action = "shutdown"

(* The server stops only on an OS signal or on a shutdown request that carried *)
(* the configured token; with no token configured the API cannot stop it.      *)
OnlyAuthorizedStop ==
  mainPc # "select" \/ tail > 0 =>
    \/ signalled
    \/ ConfigToken # NoToken
         /\ \E a \in ApiTasks : Ordered(a) /\ request[a].token = ConfigToken

(* A reason a client's task reports is one that was asked for: the configured  *)
(* message after an OS signal, else the reason of an accepted request, which   *)
(* main broadcasts again unchanged.                                            *)
ReasonIsGenuine ==
  \A h \in Handlers : heard[h] \in Reasons =>
    \/ signalled /\ heard[h] = DisconnectMsg
    \/ \E a \in ApiTasks : Ordered(a) /\ heard[h] = ReasonOf(request[a])

(* main gives up without draining only when two shutdown requests were         *)
(* accepted before it looked at the first.                                     *)
FailsOnlyOnTwoOrders ==
  mainPc = "failed" => \E a, b \in ApiTasks : a # b /\ Ordered(a) /\ Ordered(b)

(* Once main has left its select!, no step makes a connection task live.       *)
NoAcceptAfterStop == [][mainPc # "select" => Live' \subseteq Live]_vars

(* A shutdown that was signalled or ordered ends the process, although clients *)
(* never hang up and API clients hold their connections open in silence.       *)
ShutdownCompletes == (signalled \/ tail > 0) ~> Ended

(* The machinery implements the drain it is documented to be.                  *)
Phase ==
  CASE mainPc \in {"select", "notify"}           -> "serving"
    [] mainPc \in {"release", "drain", "final"}  -> "draining"
    [] mainPc = "exited"                         -> "stopped"
    [] mainPc = "failed"                         -> "crashed"

GD == INSTANCE GracefulDrain WITH Conns <- Handlers, phase <- Phase, live <- Live

DrainsGracefully == GD!Spec
------------------------------------------------------------------------------
(* What the repository says of the program, and the program does not do        *)

(* main.rs:169-172: main waits "for all active connections to finish           *)
(* processing" before it returns.                                              *)
ConnectionsFinishFirst == Ended => Live = {}
==============================================================================
