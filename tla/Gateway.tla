-------------------------------- MODULE Gateway --------------------------------
(***************************************************************************)
(* The life of a gateway process: gatewayCmd (cmd/picoclaw/main.go), the   *)
(* channel manager and its dispatcher (pkg/channels/manager.go), Start,    *)
(* Stop and Send of the seven channels, the edge reporter.                 *)
(*                                                                         *)
(* Goroutines:                                                             *)
(*   - main, which starts everything, waits for an interrupt and stops     *)
(*     everything; StartAll and StopAll keep the manager's lock;           *)
(*   - the dispatcher, which needs that lock to look a channel up and then *)
(*     calls its Send without it;                                          *)
(*   - the acceptor of MaixCam, one handler per connected device, and the  *)
(*     listener of the WhatsApp bridge's connection;                       *)
(*   - the reporter, which posts to the fleet manager.                     *)
(*                                                                         *)
(* The other five channels hand connections to an SDK: what matters here   *)
(* is whether they report themselves as running, and a call of the SDK in  *)
(* Send that may never return.  WhatsApp and MaixCam write to a connection *)
(* with the channel's lock held, and Stop, the acceptor and a handler that *)
(* ends need that lock; the peer may stop reading.                         *)
(*                                                                         *)
(* The heartbeat service has no goroutine: Start finds the stop channel    *)
(* open, takes that for running and returns; Stop closes the channel.      *)
(* Turns and cron jobs, which publish, are in MessagePipeline.             *)
(***************************************************************************)
EXTENDS Naturals, Sequences, FiniteSets

CONSTANTS
    Configs,       \* the configurations: channels enabled, edge reporting on
    Unregistered,  \* a channel no manager registers, such as "system"
    Devices,       \* connections MaixCam devices may open, each once
    Bridge,        \* the connection to the WhatsApp bridge
    Nothing,       \* no message
    OutCap,        \* capacity of the outbound queue (100 in bus.go)
    MaxMessages    \* bound: messages published

(* Channels that are an SDK's client, and those that own connections and   *)
(* write to them with a lock held.                                         *)
SdkChannels == {"telegram", "discord", "feishu", "qq", "dingtalk"}
LockingChannels == {"whatsapp", "maixcam"}
Channels == SdkChannels \cup LockingChannels

Connections == Devices \cup {Bridge}

(* The channel whose table may hold the connection. *)
Owner(k) == IF k = Bridge THEN "whatsapp" ELSE "maixcam"

Destinations == Channels \cup {Unregistered}

Message == [id : 1 .. MaxMessages, to : Destinations]

ASSUME GatewayAssumption ==
    /\ Configs \subseteq [channels : SUBSET Channels, edge : BOOLEAN]
    /\ Unregistered \notin Channels
    /\ Bridge \notin Devices /\ Devices \cap {"off", "accepting", "ended"} = {}
    /\ Nothing \notin Message
    /\ OutCap \in Nat \ {0} /\ MaxMessages \in Nat

VARIABLES
    enabled,     \* m.channels
    main,        \* where gatewayCmd is
    todo,        \* channels StartAll or StopAll has not come to
    ctxDone,     \* cancel() was called
    started,     \* what became of a channel's Start, and of QQ's session
    running,     \* the running flag of each channel
    outbox,      \* the outbound queue
    dispatcher,  \* where dispatchOutbound is, with which message
    settled,     \* what became of the messages taken, in order
    late,        \* how many of them were taken after the cancellation
    acceptor,    \* acceptConnections: off, accepting, ended, or a new device
    listening,   \* whether MaixCam's listener is open
    table,       \* connections a channel's Send may write to
    open,        \* connections that are not closed on our side
    handler,     \* the goroutine of each connection
    stalled,     \* connections whose peer stopped reading
    reporter     \* StartHeartbeat's goroutine

vars == <<enabled, main, todo, ctxDone, started, running, outbox, dispatcher,
          settled, late, acceptor, listening, table, open, handler, stalled, reporter>>

channelVars == <<started, running, acceptor, listening, table, open, handler, stalled>>
queueVars == <<outbox, dispatcher, settled, late>>

(* Places in gatewayCmd.  "clearing" is MaixCam's Stop between closing the *)
(* listener and taking the lock; "killed" an interrupt before Notify.      *)
MainPlaces == {"boot", "starting", "serving", "cancelled", "stopping", "clearing",
               "stopped", "killed"}

(* Places in dispatchOutbound, those in Send last. *)
SendPlaces == {"checking", "calling", "locking", "writing"}
DispatcherPlaces == {"off", "top", "waiting", "looking", "ended"} \cup SendPlaces

NoDispatcher == [at |-> "off", msg |-> Nothing, left |-> {}, failed |-> FALSE]

Init ==
    /\ \E c \in Configs :
          /\ enabled = c.channels
          /\ reporter = IF c.edge THEN "configured" ELSE "off"
    /\ main = "boot"
    /\ todo = {}
    /\ ctxDone = FALSE
    /\ started = [c \in enabled |-> "no"]
    /\ running = [c \in enabled |-> FALSE]
    /\ outbox = <<>>
    /\ dispatcher = NoDispatcher
    /\ settled = <<>>
    /\ late = 0
    /\ acceptor = "off"
    /\ listening = FALSE
    /\ table = [c \in enabled \cap LockingChannels |-> {}]
    /\ open = {}
    /\ handler = [k \in Connections |-> "none"]
    /\ stalled = {}

(* The process is there and gatewayCmd has not returned. *)
Alive == main \notin {"stopped", "killed"}

(* StartAll or StopAll holds the manager's lock.  The readers' sections    *)
(* are single steps.                                                       *)
ManagerLocked == main \in {"starting", "stopping", "clearing"}

(* The dispatcher's context is a child of the process's; StopAll cancels   *)
(* it, too.                                                                *)
DispatchDone == ctxDone \/ main \in {"stopping", "clearing"}

(* A Send holds the channel's lock while it writes; every other section    *)
(* under that lock is a single step.                                       *)
ChannelLocked(c) == dispatcher.at = "writing" /\ dispatcher.msg.to = c

-----------------------------------------------------------------------------
(* Starting.                                                               *)

(* cronService.Start, heartbeatService.Start, the edge server and the      *)
(* reporter; then StartAll takes the lock and, if there is a channel,      *)
(* launches the dispatcher.                                                *)
Boot ==
    /\ main = "boot"
    /\ main' = "starting"
    /\ todo' = enabled
    /\ reporter' = IF reporter = "configured" THEN "posting" ELSE reporter
    /\ dispatcher' = IF enabled = {} THEN dispatcher ELSE [dispatcher EXCEPT !.at = "top"]
    /\ UNCHANGED <<enabled, ctxDone, outbox, settled, late, channelVars>>

(* What Start may return.  Feishu's only looks whether it has credentials  *)
(* and does not wait for its connection; the others return an error when   *)
(* the first call fails.                                                   *)
StartOutcomes == {"ok", "failed"}

(* Telegram says it is running before it asks who it is, so it may be      *)
(* running without a receiver; Discord may fail before or after it does.   *)
RunningAfterStart(c, outcome) ==
    IF outcome = "ok" THEN {TRUE}
    ELSE CASE c = "telegram" -> {TRUE}
           [] c = "discord"  -> BOOLEAN
           [] OTHER          -> {FALSE}

(* Start of one channel: WhatsApp dials the bridge, MaixCam listens and    *)
(* launches its acceptor.  Only Start's caller and the goroutines it       *)
(* launches see the channel before the lock is released, so it is one step.*)
StartChannel(c) ==
    /\ main = "starting" /\ c \in todo
    /\ todo' = todo \ {c}
    /\ \E outcome \in StartOutcomes :
          /\ started' = [started EXCEPT ![c] = outcome]
          /\ \E r \in RunningAfterStart(c, outcome) : running' = [running EXCEPT ![c] = r]
          /\ listening' = (listening \/ (c = "maixcam" /\ outcome = "ok"))
          /\ acceptor' = IF c = "maixcam" /\ outcome = "ok" THEN "accepting" ELSE acceptor
          /\ IF c = "whatsapp" /\ outcome = "ok"
             THEN /\ table' = [table EXCEPT ![c] = {Bridge}]
                  /\ open' = open \cup {Bridge}
                  /\ handler' = [handler EXCEPT ![Bridge] = "top"]
             ELSE UNCHANGED <<table, open, handler>>
    /\ UNCHANGED <<enabled, main, ctxDone, queueVars, stalled, reporter>>

(* StartAll returns, Run is launched and the interrupt has a handler. *)
Serve ==
    /\ main = "starting" /\ todo = {}
    /\ main' = "serving"
    /\ UNCHANGED <<enabled, todo, ctxDone, channelVars, queueVars, reporter>>

(* An interrupt before signal.Notify ends the process on the spot. *)
Kill ==
    /\ main \in {"boot", "starting"}
    /\ main' = "killed"
    /\ UNCHANGED <<enabled, todo, ctxDone, channelVars, queueVars, reporter>>

(* The session goroutine of QQ returns with an error and clears the flag;  *)
(* if it does so before Start sets the flag, the flag stays.               *)
SessionEnds ==
    /\ Alive /\ "qq" \in enabled /\ started["qq"] = "ok"
    /\ started' = [started EXCEPT !["qq"] = "lost"]
    /\ running' \in {running, [running EXCEPT !["qq"] = FALSE]}
    /\ UNCHANGED <<enabled, main, todo, ctxDone, queueVars, acceptor, listening, table,
                   open, handler, stalled, reporter>>

-----------------------------------------------------------------------------
(* Stopping.                                                               *)

(* Stops the channels and leaves the context for the deferred call. *)
InterruptCancellingLast ==
    /\ main = "serving"
    /\ main' = "cancelled"
    /\ UNCHANGED <<enabled, todo, ctxDone, channelVars, queueVars, reporter>>

(* The first interrupt; later ones are swallowed by the channel Notify     *)
(* fills.                                                                  *)
Interrupt ==
    /\ main = "serving"
    /\ main' = "cancelled"
    /\ ctxDone' = TRUE
    /\ UNCHANGED <<enabled, todo, channelVars, queueVars, reporter>>

(* edgeReporter.Stop, heartbeatService.Stop, cronService.Stop and          *)
(* agentLoop.Stop, none of which waits; then StopAll takes the lock.       *)
StopServices ==
    /\ main = "cancelled"
    /\ main' = "stopping"
    /\ todo' = enabled
    /\ UNCHANGED <<enabled, ctxDone, channelVars, queueVars, reporter>>

(* A Stop that waits for a Send under way. *)
StopSdkWaiting(c) ==
    /\ main = "stopping" /\ c \in todo \cap SdkChannels
    /\ ~(dispatcher.at = "calling" /\ dispatcher.msg.to = c)
    /\ todo' = todo \ {c}
    /\ running' = [running EXCEPT ![c] = FALSE]
    /\ UNCHANGED <<enabled, main, ctxDone, queueVars, started, acceptor, listening, table,
                   open, handler, stalled, reporter>>

StopSdk(c) ==
    /\ main = "stopping" /\ c \in todo \cap SdkChannels
    /\ todo' = todo \ {c}
    /\ running' = [running EXCEPT ![c] = FALSE]
    /\ UNCHANGED <<enabled, main, ctxDone, queueVars, started, acceptor, listening, table,
                   open, handler, stalled, reporter>>

(* Closing a connection ends a write to it that waits for the peer. *)
Close(connections) ==
    /\ open' = open \ connections
    /\ stalled' = stalled \ connections

(* WhatsApp closes its connection and forgets it. *)
StopWhatsApp ==
    /\ main = "stopping" /\ "whatsapp" \in todo /\ ~ChannelLocked("whatsapp")
    /\ todo' = todo \ {"whatsapp"}
    /\ Close(table["whatsapp"])
    /\ table' = [table EXCEPT !["whatsapp"] = {}]
    /\ running' = [running EXCEPT !["whatsapp"] = FALSE]
    /\ UNCHANGED <<enabled, main, ctxDone, queueVars, started, acceptor, listening, handler,
                   reporter>>

(* MaixCam closes its listener, waits for the lock, and closes and forgets *)
(* the connections it knows of.                                            *)
StopListener ==
    /\ main = "stopping" /\ "maixcam" \in todo
    /\ main' = "clearing"
    /\ running' = [running EXCEPT !["maixcam"] = FALSE]
    /\ listening' = FALSE
    /\ UNCHANGED <<enabled, todo, ctxDone, queueVars, started, acceptor, table, open, handler,
                   stalled, reporter>>

ClearClients ==
    /\ main = "clearing" /\ ~ChannelLocked("maixcam")
    /\ main' = "stopping"
    /\ todo' = todo \ {"maixcam"}
    /\ Close(table["maixcam"])
    /\ table' = [table EXCEPT !["maixcam"] = {}]
    /\ UNCHANGED <<enabled, ctxDone, queueVars, started, running, acceptor, listening, handler,
                   reporter>>

(* gatewayCmd returns and takes every goroutine with it. *)
Stopped ==
    /\ main = "stopping" /\ todo = {}
    /\ main' = "stopped"
    /\ UNCHANGED <<enabled, todo, ctxDone, channelVars, queueVars, reporter>>

-----------------------------------------------------------------------------
(* The outbound queue and its dispatcher.                                  *)

(* Messages taken out of the queue so far, settled or in Send. *)
Holding == dispatcher.msg # Nothing
TakenCount == Len(settled) + (IF Holding THEN 1 ELSE 0)

(* Turns and cron jobs publish from the start of the cron service on.  Any *)
(* channel that is not registered is as good as another.                   *)
Publish(d) ==
    /\ Alive /\ main # "boot"
    /\ d \in enabled \cup {Unregistered}
    /\ Len(outbox) < OutCap
    /\ TakenCount + Len(outbox) < MaxMessages
    /\ outbox' = Append(outbox, [id |-> TakenCount + Len(outbox) + 1, to |-> d])
    /\ UNCHANGED <<enabled, main, todo, ctxDone, dispatcher, settled, late, channelVars, reporter>>

(* A step of the dispatcher leaves main and the channels alone. *)
DispatcherOnly == Alive /\ UNCHANGED <<enabled, main, todo, ctxDone, channelVars, reporter>>

(* A loop that leaves the context to SubscribeOutbound. *)
DispatchTopUntested ==
    /\ DispatcherOnly
    /\ dispatcher.at = "top"
    /\ dispatcher' = [dispatcher EXCEPT !.at = "waiting"]
    /\ UNCHANGED <<outbox, settled, late>>

(* The test of the context at the head of the loop. *)
DispatchTop ==
    /\ DispatcherOnly
    /\ dispatcher.at = "top"
    /\ dispatcher' = [dispatcher EXCEPT !.at = IF DispatchDone THEN "ended" ELSE "waiting"]
    /\ UNCHANGED <<outbox, settled, late>>

(* SubscribeOutbound.  When there is a message and the context is done,    *)
(* too, select picks either.                                               *)
Subscribe ==
    /\ DispatcherOnly
    /\ dispatcher.at = "waiting"
    /\ outbox # <<>>
    /\ dispatcher' = [dispatcher EXCEPT !.at = "looking", !.msg = Head(outbox)]
    /\ outbox' = Tail(outbox)
    /\ late' = late + (IF DispatchDone THEN 1 ELSE 0)
    /\ UNCHANGED settled

SubscribeCancelled ==
    /\ DispatcherOnly
    /\ dispatcher.at = "waiting" /\ DispatchDone
    /\ dispatcher' = [dispatcher EXCEPT !.at = "top"]
    /\ UNCHANGED <<outbox, settled, late>>

(* A failed message goes back to the end of the queue. *)
SettleRetrying(fate) ==
    IF fate = "failed"
    THEN /\ outbox' = Append(outbox, dispatcher.msg)
         /\ dispatcher' = [NoDispatcher EXCEPT !.at = "top"]
         /\ UNCHANGED <<settled, late>>
    ELSE /\ settled' = Append(settled, [msg |-> dispatcher.msg, fate |-> fate])
         /\ dispatcher' = [NoDispatcher EXCEPT !.at = "top"]
         /\ UNCHANGED <<outbox, late>>

(* The dispatcher is done with its message; an error is only logged. *)
Settle(fate) ==
    /\ settled' = Append(settled, [msg |-> dispatcher.msg, fate |-> fate])
    /\ dispatcher' = [NoDispatcher EXCEPT !.at = "top"]
    /\ UNCHANGED <<outbox, late>>

(* The look-up does not ask whether the channel exists. *)
LookupUnchecked ==
    /\ DispatcherOnly
    /\ dispatcher.at = "looking" /\ ~ManagerLocked
    /\ dispatcher' = [dispatcher EXCEPT !.at = "checking"]
    /\ UNCHANGED <<outbox, settled, late>>

(* The look-up reads the map without the lock. *)
LookupUnlocked ==
    /\ DispatcherOnly
    /\ dispatcher.at = "looking"
    /\ IF dispatcher.msg.to \in enabled
       THEN /\ dispatcher' = [dispatcher EXCEPT !.at = "checking"]
            /\ UNCHANGED <<outbox, settled, late>>
       ELSE Settle("unrouted")

(* An unknown channel ends the loop. *)
LookupReturning ==
    /\ DispatcherOnly
    /\ dispatcher.at = "looking" /\ ~ManagerLocked
    /\ dispatcher' = [dispatcher EXCEPT
                         !.at = IF dispatcher.msg.to \in enabled THEN "checking" ELSE "ended"]
    /\ UNCHANGED <<outbox, settled, late>>

(* The look-up under the manager's lock. *)
Lookup ==
    /\ DispatcherOnly
    /\ dispatcher.at = "looking" /\ ~ManagerLocked
    /\ IF dispatcher.msg.to \in enabled
       THEN /\ dispatcher' = [dispatcher EXCEPT !.at = "checking"]
            /\ UNCHANGED <<outbox, settled, late>>
       ELSE Settle("unrouted")

(* Send asks IsRunning first; WhatsApp's does not, and looks at its        *)
(* connection under its lock.                                              *)
CheckRunning ==
    /\ DispatcherOnly
    /\ dispatcher.at = "checking"
    /\ LET c == dispatcher.msg.to
       IN  IF c # "whatsapp" /\ ~running[c]
           THEN Settle("refused")
           ELSE /\ dispatcher' = [dispatcher EXCEPT
                                     !.at = IF c \in SdkChannels THEN "calling" ELSE "locking"]
                /\ UNCHANGED <<outbox, settled, late>>

(* The call of the SDK returns, if it does. *)
CallReturns ==
    /\ DispatcherOnly
    /\ dispatcher.at = "calling"
    /\ \E fate \in {"delivered", "failed"} : Settle(fate)

(* Send takes the channel's lock.  Without a connection WhatsApp has been  *)
(* stopped or never started; with MaixCam there is just no device.         *)
LockChannel ==
    /\ DispatcherOnly
    /\ dispatcher.at = "locking"
    /\ LET c == dispatcher.msg.to
       IN  IF table[c] = {}
           THEN Settle(IF c = "whatsapp" THEN "refused" ELSE "failed")
           ELSE /\ dispatcher' = [dispatcher EXCEPT !.at = "writing", !.left = table[c]]
                /\ UNCHANGED <<outbox, settled, late>>

(* A write to one of the connections, in any order.  It fails if the       *)
(* connection is closed, may fail if the peer is gone, and blocks while    *)
(* the peer does not read.  The lock is released after the last.           *)
Write(k) ==
    /\ DispatcherOnly
    /\ dispatcher.at = "writing" /\ k \in dispatcher.left
    /\ k \notin stalled
    /\ \E error \in BOOLEAN :
          /\ k \notin open => error
          /\ LET failed == dispatcher.failed \/ error
             IN  IF dispatcher.left = {k}
                 THEN Settle(IF failed THEN "failed" ELSE "delivered")
                 ELSE /\ dispatcher' = [dispatcher EXCEPT !.left = @ \ {k}, !.failed = failed]
                      /\ UNCHANGED <<outbox, settled, late>>

-----------------------------------------------------------------------------
(* Connections.                                                            *)

(* A step of a connection's goroutines leaves main and the dispatcher.     *)
ConnectionOnly ==
    /\ Alive
    /\ UNCHANGED <<enabled, main, todo, ctxDone, queueVars, started, running, listening, reporter>>

(* Accept returns a device's connection. *)
Accept(k) ==
    /\ ConnectionOnly
    /\ acceptor = "accepting" /\ listening
    /\ handler[k] = "none"
    /\ acceptor' = k
    /\ open' = open \cup {k}
    /\ UNCHANGED <<table, handler, stalled>>

(* Accept fails, certainly once the listener is closed, and the acceptor   *)
(* returns; the channel still says it is running.                          *)
AcceptFails ==
    /\ ConnectionOnly
    /\ acceptor = "accepting"
    /\ acceptor' = "ended"
    /\ UNCHANGED <<table, open, handler, stalled>>

(* The acceptor registers the connection, launches its handler and tests   *)
(* the context before it accepts again.                                    *)
Register(k) ==
    /\ ConnectionOnly
    /\ acceptor = k /\ ~ChannelLocked("maixcam")
    /\ table' = [table EXCEPT !["maixcam"] = @ \cup {k}]
    /\ handler' = [handler EXCEPT ![k] = "top"]
    /\ acceptor' = IF ctxDone THEN "ended" ELSE "accepting"
    /\ UNCHANGED <<open, stalled>>

(* handleConnection and listen test the context and then block in a read.  *)
(* WhatsApp's listener returns without closing; it sleeps while it has no  *)
(* connection.                                                             *)
TestContext(k) ==
    /\ ConnectionOnly
    /\ handler[k] = "top"
    /\ k = Bridge => ctxDone \/ table["whatsapp"] # {}
    /\ handler' = [handler EXCEPT ![k] =
                      IF ~ctxDone THEN "reading" ELSE IF k = Bridge THEN "gone" ELSE "closing"]
    /\ UNCHANGED <<acceptor, table, open, stalled>>

(* A message is read and handled. *)
Read(k) ==
    /\ ConnectionOnly
    /\ handler[k] = "reading" /\ k \in open
    /\ handler' = [handler EXCEPT ![k] = "top"]
    /\ UNCHANGED <<acceptor, table, open, stalled>>

(* The read fails because either side closed the connection.  A device's   *)
(* handler ends; WhatsApp's listener sleeps and reads the same connection  *)
(* again, there is no reconnection.                                        *)
ReadFails(k) ==
    /\ ConnectionOnly
    /\ handler[k] = "reading"
    /\ handler' = [handler EXCEPT ![k] = IF k = Bridge THEN "top" ELSE "closing"]
    /\ UNCHANGED <<acceptor, table, open, stalled>>

(* The deferred call of a handler: the connection is closed first and then *)
(* taken out of the table under the lock.                                  *)
CloseConnection(k) ==
    /\ ConnectionOnly
    /\ handler[k] = "closing"
    /\ handler' = [handler EXCEPT ![k] = "closed"]
    /\ Close({k})
    /\ UNCHANGED <<acceptor, table>>

Unregister(k) ==
    /\ ConnectionOnly
    /\ handler[k] = "closed" /\ ~ChannelLocked("maixcam")
    /\ handler' = [handler EXCEPT ![k] = "gone"]
    /\ table' = [table EXCEPT !["maixcam"] = @ \ {k}]
    /\ UNCHANGED <<acceptor, open, stalled>>

(* A peer stops reading for good and its receive window fills. *)
Stall(k) ==
    /\ ConnectionOnly
    /\ k \in open \ stalled
    /\ stalled' = stalled \cup {k}
    /\ UNCHANGED <<acceptor, table, open, handler>>

-----------------------------------------------------------------------------
(* The edge reporter.                                                      *)

ReporterOnly ==
    /\ Alive
    /\ UNCHANGED <<enabled, main, todo, ctxDone, channelVars, queueVars>>

(* The registration or a heartbeat is posted; the client gives up after    *)
(* ten seconds.                                                            *)
Posted ==
    /\ ReporterOnly
    /\ reporter = "posting" /\ reporter' = "waiting"

ReporterTicks ==
    /\ ReporterOnly
    /\ reporter = "waiting" /\ reporter' = "posting"

(* StopServices closes stopCh. *)
ReporterStops ==
    /\ ReporterOnly
    /\ reporter = "waiting" /\ main \in {"stopping", "clearing"}
    /\ reporter' = "ended"

-----------------------------------------------------------------------------
Main ==
    \/ Boot
    \/ \E c \in enabled : StartChannel(c)
    \/ Serve
    \/ StopServices
    \/ \E c \in enabled : StopSdk(c)
    \/ StopWhatsApp
    \/ StopListener
    \/ ClearClients
    \/ Stopped

Dispatcher ==
    \/ DispatchTop
    \/ Subscribe
    \/ SubscribeCancelled
    \/ Lookup
    \/ CheckRunning
    \/ LockChannel
    \/ \E k \in Connections : Write(k)

Connection ==
    \/ AcceptFails
    \/ \E k \in Devices : Accept(k) \/ Register(k) \/ CloseConnection(k) \/ Unregister(k)
    \/ \E k \in Connections : TestContext(k) \/ Read(k) \/ ReadFails(k) \/ Stall(k)

Next ==
    \/ Main
    \/ Kill
    \/ Interrupt
    \/ SessionEnds
    \/ \E d \in Destinations : Publish(d)
    \/ Dispatcher
    \/ CallReturns
    \/ Connection
    \/ Posted
    \/ ReporterTicks
    \/ ReporterStops

Spec == Init /\ [][Next]_vars

(* main and the dispatcher go on where they can, and a Start returns.      *)
(* Nothing is assumed of a call of an SDK in Send or of a peer.  Posting   *)
(* has a deadline, and select is fair between the ticker and stopCh.       *)
Fairness ==
    /\ WF_vars(Main)
    /\ WF_vars(Dispatcher)
    /\ WF_vars(Posted)
    /\ SF_vars(ReporterStops)

FairSpec == Spec /\ Fairness

-----------------------------------------------------------------------------
TypeOK ==
    /\ enabled \subseteq Channels
    /\ main \in MainPlaces
    /\ todo \subseteq enabled
    /\ ctxDone \in BOOLEAN
    /\ ctxDone <=> main \in {"cancelled", "stopping", "clearing", "stopped"}
    /\ started \in [enabled -> {"no", "ok", "failed", "lost"}]
    /\ running \in [enabled -> BOOLEAN]
    /\ outbox \in Seq(Message) /\ Len(outbox) <= OutCap
    /\ dispatcher \in [at : DispatcherPlaces, msg : Message \cup {Nothing},
                       left : SUBSET Connections, failed : BOOLEAN]
    /\ Holding <=> dispatcher.at \in SendPlaces \cup {"looking"}
    /\ dispatcher.at \in SendPlaces => dispatcher.msg.to \in enabled
    /\ settled \in Seq([msg : Message, fate : {"delivered", "failed", "refused", "unrouted"}])
    /\ late \in 0 .. MaxMessages
    /\ acceptor \in {"off", "accepting", "ended"} \cup Devices
    /\ listening \in BOOLEAN
    /\ table \in [enabled \cap LockingChannels -> SUBSET Connections]
    /\ \A c \in DOMAIN table : \A k \in table[c] : Owner(k) = c
    /\ open \subseteq Connections /\ stalled \subseteq open
    /\ handler \in [Connections -> {"none", "top", "reading", "closing", "closed", "gone"}]
    /\ reporter \in {"off", "configured", "posting", "waiting", "ended"}

(* No message is lost because it came too early: although the dispatcher   *)
(* runs and cron jobs publish before the channels are started, a channel   *)
(* refuses a message only when its Start failed, its session ended or the  *)
(* gateway is being stopped.  It is StartAll's lock (manager.go:147) that  *)
(* keeps the look-up back.                                                 *)
RefusedOnlyWhenDown ==
    \A i \in DOMAIN settled :
        settled[i].fate = "refused" => ctxDone \/ started[settled[i].msg.to] \in {"failed", "lost"}

(* Stop leaves nobody behind: once a channel that owns connections has     *)
(* been stopped, an open connection is one that accept returned while Stop *)
(* ran, and its goroutine finds the context done before it reads.  That    *)
(* takes the cancellation before StopAll (main.go:682, 688), because Stop  *)
(* only closes what is in the table (maixcam.go:197).                      *)
StoppedConnectionsEnd ==
    main \in {"stopping", "clearing", "stopped"} =>
        \A k \in open :
            \/ Owner(k) \in todo
            \/ acceptor = k
            \/ handler[k] \in {"top", "closing"} /\ ctxDone

(* After the cancellation the dispatcher takes at most one more message:   *)
(* the select in SubscribeOutbound may prefer a message once, then the     *)
(* head of the loop tests the context (manager.go:210).                    *)
OneMessageAfterCancel == late <= 1

(* Messages are settled one at a time, once each and in the order of their *)
(* publication (manager.go:205-238): Delivery, with the message the        *)
(* dispatcher holds at the head of what is pending.                        *)
InHand == IF Holding THEN <<dispatcher.msg>> ELSE <<>>

Promise == INSTANCE Delivery
    WITH Destinations <- Destinations, registered <- enabled,
         pending <- InHand \o outbox, settled <- settled

DeliversInOrder == Promise!Spec

(* The dispatcher is in a write whose peer does not read. *)
WriteBlocked == dispatcher.at = "writing" /\ dispatcher.left \cap stalled # {}

(* An interrupted gateway comes to its end, and it ends the reporter, even *)
(* if a call of an SDK never returns (main.go:681-690).  One thing can     *)
(* hold it up for good: a Send blocked in a write to a peer that does not  *)
(* read, because it holds the lock that Stop needs (whatsapp.go:81,        *)
(* maixcam.go:211) and a write has no deadline.                            *)
ShutdownEnds ==
    /\ <>[]WriteBlocked \/ (main = "cancelled" ~> main = "stopped")
    /\ ctxDone ~> (reporter \in {"off", "ended"} \/ main = "stopped")

(* What is published is taken out of the queue, so that publishers go on,  *)
(* while there is a dispatcher: none without channels (manager.go:150),    *)
(* none after an interrupt, and it waits for good for a Send that never    *)
(* returns.                                                                *)
OutboxDrains ==
    \/ <>[](dispatcher.at = "calling") \/ <>[]WriteBlocked
    \/ outbox # <<>> ~> (outbox = <<>> \/ enabled = {} \/ main \notin {"starting", "serving"})

=============================================================================
