----------------------------- MODULE GatewayProofs -----------------------------
(***************************************************************************)
(* Theorems about Gateway: its types, what becomes of messages while the   *)
(* gateway starts and stops, the connections a Stop leaves behind, that    *)
(* the dispatcher implements Delivery, and the safety part of OutboxDrains *)
(* and of ShutdownEnds: whom main and the dispatcher can ever wait for.    *)
(***************************************************************************)
EXTENDS Gateway, SequenceTheorems, TLAPS

(***************************************************************************)
(* TypeOK in the parts that the groups of actions touch: the process, the  *)
(* queue with its dispatcher, the channels with their connections.  The    *)
(* queue's part counts the messages, and says which channels have a lock   *)
(* to take.                                                                *)
(***************************************************************************)
ProcessType ==
    /\ enabled \subseteq Channels
    /\ main \in MainPlaces
    /\ todo \subseteq enabled
    /\ ctxDone \in BOOLEAN
    /\ ctxDone <=> main \in {"cancelled", "stopping", "clearing", "stopped"}
    /\ reporter \in {"off", "configured", "posting", "waiting", "ended"}

Fate == {"delivered", "failed", "refused", "unrouted"}

QueueType ==
    /\ outbox \in Seq(Message) /\ Len(outbox) <= OutCap
    /\ dispatcher \in [at : DispatcherPlaces, msg : Message \cup {Nothing},
                       left : SUBSET Connections, failed : BOOLEAN]
    /\ Holding <=> dispatcher.at \in SendPlaces \cup {"looking"}
    /\ dispatcher.at \in SendPlaces => dispatcher.msg.to \in enabled
    /\ dispatcher.at \in {"locking", "writing"} => dispatcher.msg.to \in LockingChannels
    /\ settled \in Seq([msg : Message, fate : Fate])
    /\ late \in Nat /\ late <= TakenCount
    /\ TakenCount + Len(outbox) <= MaxMessages
    /\ main = "boot" => dispatcher.at = "off"

ChannelType ==
    /\ started \in [enabled -> {"no", "ok", "failed", "lost"}]
    /\ running \in [enabled -> BOOLEAN]
    /\ acceptor \in {"off", "accepting", "ended"} \cup Devices
    /\ listening \in BOOLEAN
    /\ table \in [enabled \cap LockingChannels -> SUBSET Connections]
    /\ \A c \in DOMAIN table : \A k \in table[c] : Owner(k) = c
    /\ open \subseteq Connections /\ stalled \subseteq open
    /\ handler \in [Connections -> {"none", "top", "reading", "closing", "closed", "gone"}]

TypeInv == ProcessType /\ QueueType /\ ChannelType

LEMMA TypeInvImplies == TypeInv => TypeOK
<1> SUFFICES ASSUME TypeInv PROVE TypeOK
  OBVIOUS
<1>1. TakenCount \in Nat /\ Len(outbox) \in Nat
  <2>1. Len(settled) \in Nat /\ Len(outbox) \in Nat
    BY DEF TypeInv, QueueType
  <2> QED
    BY <2>1 DEF TakenCount
<1>2. late \in 0 .. MaxMessages
  BY <1>1, GatewayAssumption DEF TypeInv, QueueType
<1>3. ProcessType /\ ChannelType
  BY DEF TypeInv
<1>4. QueueType
  BY DEF TypeInv
<1> QED
  BY <1>2, <1>3, <1>4 DEF ProcessType, QueueType, ChannelType, TypeOK, Fate

(* The steps that settle the message the dispatcher holds. *)
LEMMA SettleType ==
  ASSUME TypeInv, UNCHANGED <<enabled, main>>, Holding, NEW fate \in Fate, Settle(fate)
  PROVE  QueueType'
<1> USE DEF TypeInv, QueueType
<1>1. dispatcher.msg \in Message /\ dispatcher' = [NoDispatcher EXCEPT !.at = "top"]
      /\ UNCHANGED <<outbox, late>>
  BY DEF Holding, Settle
<1>2. dispatcher' \in [at : DispatcherPlaces, msg : Message \cup {Nothing},
                       left : SUBSET Connections, failed : BOOLEAN]
      /\ dispatcher'.at = "top" /\ dispatcher'.msg = Nothing
  BY <1>1 DEF NoDispatcher, DispatcherPlaces
<1>3. settled' \in Seq([msg : Message, fate : Fate]) /\ Len(settled') = Len(settled) + 1
  BY <1>1 DEF Settle
<1>4. TakenCount' = TakenCount
  BY <1>2, <1>3 DEF TakenCount, Holding
<1>5. main' # "boot"
  BY DEF SendPlaces
<1> QED
  BY <1>1, <1>2, <1>3, <1>4, <1>5 DEF Holding, SendPlaces

LEMMA ProcessStep == TypeInv /\ [Next]_vars => ProcessType'
<1> SUFFICES ASSUME TypeInv, [Next]_vars PROVE ProcessType'
  OBVIOUS
<1> USE DEF TypeInv, ProcessType, MainPlaces
<1>1. CASE Boot
  BY <1>1 DEF Boot
<1>2. ASSUME NEW c \in enabled, StartChannel(c) PROVE ProcessType'
  BY <1>2 DEF StartChannel
<1>3. CASE Serve \/ StopServices \/ Stopped
  BY <1>3 DEF Serve, StopServices, Stopped
<1>14. CASE Kill
  BY <1>14 DEF Kill
<1>15. CASE Interrupt
  BY <1>15 DEF Interrupt
<1>4. ASSUME NEW c \in enabled, StopSdk(c) PROVE ProcessType'
  BY <1>4 DEF StopSdk
<1>5. CASE StopWhatsApp \/ StopListener \/ ClearClients
  BY <1>5 DEF StopWhatsApp, StopListener, ClearClients
<1>6. CASE SessionEnds
  BY <1>6 DEF SessionEnds
<1>7. ASSUME NEW d \in Destinations, Publish(d) PROVE ProcessType'
  BY <1>7 DEF Publish
<1>8. CASE DispatcherOnly
  BY <1>8 DEF DispatcherOnly
<1>9. CASE ConnectionOnly
  BY <1>9 DEF ConnectionOnly
<1>10. CASE Posted \/ ReporterTicks \/ ReporterStops
  BY <1>10 DEF Posted, ReporterTicks, ReporterStops, ReporterOnly
<1>11. CASE UNCHANGED vars
  BY <1>11 DEF vars
<1>12. Dispatcher \/ CallReturns => DispatcherOnly
  BY DEF Dispatcher, DispatchTop, Subscribe, SubscribeCancelled, Lookup, CheckRunning,
         CallReturns, LockChannel, Write
<1>13. Connection => ConnectionOnly
  BY DEF Connection, Accept, AcceptFails, Register, TestContext, Read, ReadFails,
         CloseConnection, Unregister, Stall
<1> QED
  BY <1>1, <1>2, <1>3, <1>4, <1>5, <1>6, <1>7, <1>8, <1>9, <1>10, <1>11, <1>12, <1>13,
     <1>14, <1>15 DEF Next, Main

(* Which steps leave the queue, and which the channels, alone. *)
LEMMA WhoseStep ==
  ASSUME [Next]_vars
  PROVE  \/ Main \/ Kill \/ Interrupt \/ SessionEnds
         \/ \E d \in Destinations : Publish(d)
         \/ DispatcherOnly /\ (Dispatcher \/ CallReturns)
         \/ ConnectionOnly /\ Connection
         \/ ReporterOnly
         \/ UNCHANGED vars
<1>1. Dispatcher \/ CallReturns => DispatcherOnly
  BY DEF Dispatcher, DispatchTop, Subscribe, SubscribeCancelled, Lookup, CheckRunning,
         CallReturns, LockChannel, Write
<1>2. Connection => ConnectionOnly
  BY DEF Connection, Accept, AcceptFails, Register, TestContext, Read, ReadFails,
         CloseConnection, Unregister, Stall
<1>3. Posted \/ ReporterTicks \/ ReporterStops => ReporterOnly
  BY DEF Posted, ReporterTicks, ReporterStops
<1> QED
  BY <1>1, <1>2, <1>3 DEF Next

LEMMA QueueStep == TypeInv /\ [Next]_vars => QueueType'
<1> SUFFICES ASSUME TypeInv, [Next]_vars PROVE QueueType'
  OBVIOUS
<1> USE DEF TypeInv
<1>0. ASSUME UNCHANGED <<enabled, queueVars>>, main' = "boot" => main = "boot"
      PROVE  QueueType'
  BY <1>0 DEF queueVars, QueueType, Holding, TakenCount
<1>1. CASE Boot
  <2>1. dispatcher' \in [at : DispatcherPlaces, msg : Message \cup {Nothing},
                         left : SUBSET Connections, failed : BOOLEAN]
        /\ dispatcher'.msg = dispatcher.msg
        /\ (dispatcher'.at = dispatcher.at \/ dispatcher'.at = "top")
    BY <1>1 DEF Boot, QueueType, DispatcherPlaces
  <2>2. dispatcher.at = "off"
    BY <1>1 DEF Boot, QueueType
  <2> QED
    BY <1>1, <2>1, <2>2 DEF Boot, QueueType, Holding, TakenCount, SendPlaces
<1>2. CASE Main /\ ~Boot
  BY <1>0, <1>2 DEF Main, StartChannel, Serve, StopServices, StopSdk, StopWhatsApp,
                    StopListener, ClearClients, Stopped
<1>3. CASE Kill \/ Interrupt \/ SessionEnds \/ ConnectionOnly \/ ReporterOnly \/ UNCHANGED vars
  BY <1>0, <1>3 DEF Kill, Interrupt, SessionEnds, ConnectionOnly, ReporterOnly, vars, queueVars
<1>4. ASSUME NEW d \in Destinations, Publish(d) PROVE QueueType'
  <2>1. TakenCount \in Nat /\ Len(outbox) \in Nat
    BY DEF QueueType, TakenCount
  <2>2. [id |-> TakenCount + Len(outbox) + 1, to |-> d] \in Message
    BY <1>4, <2>1, GatewayAssumption DEF Publish, Message
  <2>3. outbox' \in Seq(Message) /\ Len(outbox') = Len(outbox) + 1
    BY <1>4, <2>2 DEF Publish, QueueType
  <2>4. UNCHANGED <<enabled, dispatcher, settled, late, TakenCount, Holding>>
    BY <1>4 DEF Publish, TakenCount, Holding
  <2> QED
    BY <1>4, <2>1, <2>3, <2>4, GatewayAssumption DEF Publish, QueueType
<1>5. ASSUME DispatcherOnly PROVE UNCHANGED <<enabled, main>>
  BY <1>5 DEF DispatcherOnly
<1>6. ASSUME DispatcherOnly, UNCHANGED <<outbox, settled, late>>,
             dispatcher' \in [at : DispatcherPlaces, msg : {dispatcher.msg},
                              left : SUBSET Connections, failed : BOOLEAN],
             dispatcher.at \in SendPlaces \cup {"looking"} <=>
                 dispatcher'.at \in SendPlaces \cup {"looking"},
             dispatcher'.at \in SendPlaces => dispatcher.msg.to \in enabled,
             dispatcher'.at \in {"locking", "writing"} => dispatcher.msg.to \in LockingChannels,
             dispatcher.at # "off"
      PROVE  QueueType'
  <2>1. dispatcher'.msg = dispatcher.msg
    BY <1>6
  <2> QED
    BY <1>5, <1>6, <2>1 DEF QueueType, Holding, TakenCount
<1>7. CASE DispatchTop \/ SubscribeCancelled
  BY <1>6, <1>7 DEF DispatchTop, SubscribeCancelled, QueueType, DispatcherPlaces, SendPlaces
<1>8. CASE Subscribe
  <2>1. Head(outbox) \in Message /\ outbox' \in Seq(Message) /\ Len(outbox') = Len(outbox) - 1
        /\ Len(outbox) \in Nat /\ Len(settled) \in Nat
    BY <1>8, HeadTailProperties DEF Subscribe, QueueType
  <2>2. dispatcher' \in [at : DispatcherPlaces, msg : Message, left : SUBSET Connections,
                         failed : BOOLEAN]
        /\ dispatcher'.at = "looking"
    BY <1>8, <2>1 DEF Subscribe, QueueType, DispatcherPlaces
  <2>3. ~Holding /\ Holding'
    BY <1>8, <2>2, GatewayAssumption DEF Subscribe, QueueType, Holding, SendPlaces
  <2>4. TakenCount' = TakenCount + 1 /\ TakenCount \in Nat
    BY <1>8, <2>1, <2>3 DEF Subscribe, TakenCount
  <2>5. late' \in Nat /\ late' <= late + 1
    BY <1>8 DEF Subscribe, QueueType
  <2>6. UNCHANGED <<enabled, settled, main>> /\ main # "boot"
    BY <1>5, <1>8 DEF Subscribe, QueueType
  <2> QED
    BY <2>1, <2>2, <2>3, <2>4, <2>5, <2>6, GatewayAssumption DEF QueueType, SendPlaces
<1>9. CASE Lookup
  <2>1. Holding
    BY <1>9 DEF Lookup, QueueType
  <2>2. CASE dispatcher.msg.to \notin enabled
    BY <1>5, <1>9, <2>1, <2>2, SettleType DEF Lookup, Fate
  <2>3. CASE dispatcher.msg.to \in enabled
    BY <1>6, <1>9, <2>3 DEF Lookup, QueueType, DispatcherPlaces, SendPlaces
  <2> QED
    BY <2>2, <2>3
<1>10. CASE CheckRunning
  <2>1. Holding /\ dispatcher.msg.to \in enabled
    BY <1>10 DEF CheckRunning, QueueType, SendPlaces
  <2>2. CASE Settle("refused")
    BY <1>5, <1>10, <2>1, <2>2, SettleType DEF CheckRunning, Fate
  <2>3. CASE ~Settle("refused")
    <3>1. DispatcherOnly /\ UNCHANGED <<outbox, settled, late>> /\ dispatcher.at = "checking"
          /\ dispatcher' = [dispatcher EXCEPT
                !.at = IF dispatcher.msg.to \in SdkChannels THEN "calling" ELSE "locking"]
      BY <1>10, <2>3 DEF CheckRunning
    <3>2. dispatcher.msg.to \in SdkChannels \/ dispatcher.msg.to \in LockingChannels
      BY <2>1 DEF ProcessType, Channels
    <3> QED
      BY <1>6, <2>1, <3>1, <3>2 DEF QueueType, DispatcherPlaces, SendPlaces
  <2> QED
    BY <2>2, <2>3
<1>11. CASE CallReturns
  <2>1. Holding
    BY <1>11 DEF CallReturns, QueueType, SendPlaces
  <2> QED
    BY <1>5, <1>11, <2>1, SettleType DEF CallReturns, Fate
<1>12. CASE LockChannel
  <2>1. Holding /\ dispatcher.msg.to \in enabled \cap LockingChannels
    BY <1>12 DEF LockChannel, QueueType, SendPlaces
  <2>2. CASE table[dispatcher.msg.to] = {}
    BY <1>5, <1>12, <2>1, <2>2, SettleType DEF LockChannel, Fate
  <2>3. CASE table[dispatcher.msg.to] # {}
    <3>1. table[dispatcher.msg.to] \in SUBSET Connections
      BY <2>1 DEF ChannelType
    <3> QED
      BY <1>6, <1>12, <2>1, <2>3, <3>1 DEF LockChannel, QueueType, DispatcherPlaces, SendPlaces
  <2> QED
    BY <2>2, <2>3
<1>13. ASSUME NEW k \in Connections, Write(k) PROVE QueueType'
  <2>1. Holding
    BY <1>13 DEF Write, QueueType, SendPlaces
  <2>2. PICK error \in BOOLEAN :
           LET failed == dispatcher.failed \/ error
           IN  IF dispatcher.left = {k}
               THEN Settle(IF failed THEN "failed" ELSE "delivered")
               ELSE /\ dispatcher' = [dispatcher EXCEPT !.left = @ \ {k}, !.failed = failed]
                    /\ UNCHANGED <<outbox, settled, late>>
    BY <1>13 DEF Write
  <2>3. CASE dispatcher.left = {k}
    <3>1. PICK fate \in Fate : Settle(fate)
      BY <2>2, <2>3 DEF Fate
    <3> QED
      BY <1>5, <1>13, <2>1, <3>1, SettleType DEF Write
  <2>4. CASE dispatcher.left # {k}
    <3>1. PICK failed \in BOOLEAN :
             /\ dispatcher' = [dispatcher EXCEPT !.left = @ \ {k}, !.failed = failed]
             /\ UNCHANGED <<outbox, settled, late>>
      BY <2>2, <2>4
    <3>2. dispatcher.left \ {k} \in SUBSET Connections
      BY DEF QueueType
    <3> QED
      BY <1>6, <1>13, <3>1, <3>2 DEF Write, QueueType, DispatcherPlaces, SendPlaces
  <2> QED
    BY <2>3, <2>4
<1> QED
  BY <1>1, <1>2, <1>3, <1>4, <1>7, <1>8, <1>9, <1>10, <1>11, <1>12, <1>13, WhoseStep
     DEF Dispatcher

(* Closing connections leaves the others open. *)
LEMMA CloseType ==
  ASSUME ChannelType, NEW K, Close(K)
  PROVE  open' \subseteq Connections /\ stalled' \subseteq open' /\ open' = open \ K
  BY DEF Close, ChannelType

LEMMA ChannelStep == TypeInv /\ [Next]_vars => ChannelType'
<1> SUFFICES ASSUME TypeInv, [Next]_vars PROVE ChannelType'
  OBVIOUS
<1> USE DEF TypeInv
<1>0. ASSUME UNCHANGED <<enabled, channelVars>> PROVE ChannelType'
  BY <1>0 DEF channelVars, ChannelType
<1>1. CASE Boot \/ Serve \/ StopServices \/ Stopped \/ Kill \/ Interrupt
  BY <1>0, <1>1 DEF Boot, Serve, StopServices, Stopped, Kill, Interrupt
<1>2. CASE DispatcherOnly \/ ReporterOnly \/ UNCHANGED vars
  BY <1>0, <1>2 DEF DispatcherOnly, ReporterOnly, vars, channelVars
<1>3. ASSUME NEW d \in Destinations, Publish(d) PROVE ChannelType'
  BY <1>0, <1>3 DEF Publish
<1>4. ASSUME NEW c \in enabled, StartChannel(c) PROVE ChannelType'
  <2>1. PICK outcome \in {"ok", "failed"}, r \in BOOLEAN :
           /\ started' = [started EXCEPT ![c] = outcome]
           /\ running' = [running EXCEPT ![c] = r]
    BY <1>4 DEF StartChannel, StartOutcomes, RunningAfterStart
  <2>2. started' \in [enabled -> {"no", "ok", "failed", "lost"}]
        /\ running' \in [enabled -> BOOLEAN]
    BY <2>1 DEF ChannelType
  <2>3. listening' \in BOOLEAN /\ acceptor' \in {"off", "accepting", "ended"} \cup Devices
    BY <1>4 DEF StartChannel, ChannelType
  <2>4. \/ UNCHANGED <<table, open, handler>>
        \/ /\ table' = [table EXCEPT !["whatsapp"] = {Bridge}]
           /\ open' = open \cup {Bridge}
           /\ handler' = [handler EXCEPT ![Bridge] = "top"]
    BY <1>4 DEF StartChannel
  <2>5. UNCHANGED <<enabled, stalled>>
    BY <1>4 DEF StartChannel
  <2> QED
    BY <2>2, <2>3, <2>4, <2>5 DEF ChannelType, Connections, Owner
<1>5. ASSUME NEW c \in enabled, StopSdk(c) PROVE ChannelType'
  BY <1>5 DEF StopSdk, ChannelType
<1>6. CASE StopWhatsApp
  BY <1>6, CloseType DEF StopWhatsApp, ChannelType
<1>7. CASE StopListener
  BY <1>7 DEF StopListener, ChannelType
<1>8. CASE ClearClients
  BY <1>8, CloseType DEF ClearClients, ChannelType
<1>9. CASE SessionEnds
  BY <1>9 DEF SessionEnds, ChannelType
<1>10. ASSUME ConnectionOnly PROVE UNCHANGED <<enabled, started, running, listening>>
  BY <1>10 DEF ConnectionOnly
<1>11. ASSUME NEW k \in Devices PROVE k \in Connections /\ Owner(k) = "maixcam"
  BY GatewayAssumption DEF Connections, Owner
<1>12. CASE AcceptFails
  BY <1>10, <1>12 DEF AcceptFails, ChannelType
<1>13. ASSUME NEW k \in Devices, Accept(k) PROVE ChannelType'
  BY <1>10, <1>11, <1>13 DEF Accept, ChannelType
<1>14. ASSUME NEW k \in Devices, Register(k) PROVE ChannelType'
  BY <1>10, <1>11, <1>14 DEF Register, ChannelType
<1>15. ASSUME NEW k \in Devices, CloseConnection(k) PROVE ChannelType'
  <2>1. ConnectionOnly /\ Close({k}) /\ UNCHANGED <<acceptor, table>>
        /\ handler' = [handler EXCEPT ![k] = "closed"]
    BY <1>15 DEF CloseConnection
  <2> QED
    BY <1>10, <1>11, <2>1, CloseType DEF ChannelType
<1>16. ASSUME NEW k \in Devices, Unregister(k) PROVE ChannelType'
  BY <1>10, <1>11, <1>16 DEF Unregister, ChannelType
<1>17. ASSUME NEW k \in Connections, TestContext(k) \/ Read(k) \/ ReadFails(k) PROVE ChannelType'
  BY <1>10, <1>17 DEF TestContext, Read, ReadFails, ChannelType
<1>18. ASSUME NEW k \in Connections, Stall(k) PROVE ChannelType'
  BY <1>10, <1>18 DEF Stall, ChannelType
<1> QED
  BY <1>1, <1>2, <1>3, <1>4, <1>5, <1>6, <1>7, <1>8, <1>9, <1>12, <1>13, <1>14, <1>15, <1>16,
     <1>17, <1>18, WhoseStep DEF Main, Connection

LEMMA InitType == Init => TypeInv
<1> SUFFICES ASSUME Init PROVE TypeInv
  OBVIOUS
<1>1. PICK c \in Configs : enabled = c.channels
                           /\ reporter = (IF c.edge THEN "configured" ELSE "off")
  BY DEF Init
<1>2. enabled \subseteq Channels
  BY <1>1, GatewayAssumption
<1>3. ProcessType
  BY <1>1, <1>2 DEF Init, ProcessType, MainPlaces
<1>4. QueueType
  <2>1. Len(outbox) = 0 /\ Len(settled) = 0 /\ outbox \in Seq(Message)
        /\ settled \in Seq([msg : Message, fate : Fate])
    BY DEF Init
  <2>2. dispatcher \in [at : DispatcherPlaces, msg : Message \cup {Nothing},
                        left : SUBSET Connections, failed : BOOLEAN]
        /\ dispatcher.at = "off" /\ dispatcher.msg = Nothing
    BY DEF Init, NoDispatcher, DispatcherPlaces
  <2>3. late = 0
    BY DEF Init
  <2> QED
    BY <2>1, <2>2, <2>3, GatewayAssumption DEF QueueType, TakenCount, Holding, SendPlaces
<1>5. ChannelType
  BY DEF Init, ChannelType
<1> QED
  BY <1>3, <1>4, <1>5 DEF TypeInv

LEMMA TypeInvariance == Spec => []TypeInv
<1>1. TypeInv /\ [Next]_vars => TypeInv'
  BY ProcessStep, QueueStep, ChannelStep DEF TypeInv
<1> QED
  BY <1>1, InitType, PTL DEF Spec

(* Every reachable state has the shape TypeOK describes: the dispatcher    *)
(* holds a message exactly where its code does, a Send is for a channel    *)
(* that is registered, a peer that does not read is on an open connection. *)
THEOREM TypeCorrect == Spec => []TypeOK
  BY TypeInvImplies, TypeInvariance, PTL

-----------------------------------------------------------------------------
(* Once the context is done the dispatcher has at most one message more.   *)
(* A message taken late leaves it in Send, and from there it comes to the  *)
(* head of the loop, never again to the select.                            *)
LateInv ==
    /\ late <= 1
    /\ late = 1 => ctxDone /\ dispatcher.at # "waiting"

(* With the test at the head of the loop, at most one message is taken     *)
(* after the cancellation (manager.go:210).                                *)
THEOREM AtMostOneIsLate == Spec => []OneMessageAfterCancel
<1>1. Init => LateInv
  BY DEF Init, LateInv
<1>2. TypeInv /\ LateInv /\ [Next]_vars => LateInv'
  <2> SUFFICES ASSUME TypeInv, LateInv, [Next]_vars PROVE LateInv'
    OBVIOUS
  <2> USE DEF LateInv
  <2>0. late \in Nat
    BY DEF TypeInv, QueueType
  <2>1. DispatchDone => ctxDone
    BY DEF DispatchDone, TypeInv, ProcessType
  <2>2. CASE Main
    BY <2>2 DEF Main, Boot, StartChannel, Serve, StopServices, StopSdk, StopWhatsApp,
                StopListener, ClearClients, Stopped, queueVars, TypeInv, QueueType
  <2>3. CASE Kill \/ Interrupt \/ SessionEnds \/ ConnectionOnly \/ ReporterOnly \/ UNCHANGED vars
    BY <2>3 DEF Kill, Interrupt, SessionEnds, ConnectionOnly, ReporterOnly, vars, queueVars
  <2>4. ASSUME NEW d \in Destinations, Publish(d) PROVE LateInv'
    BY <2>4 DEF Publish
  <2>5. CASE DispatcherOnly /\ Subscribe
    BY <2>0, <2>1, <2>5 DEF DispatcherOnly, Subscribe, TypeInv, QueueType
  <2>6. CASE DispatcherOnly /\ (Dispatcher \/ CallReturns) /\ ~Subscribe
    <3>1. UNCHANGED <<late, ctxDone>>
      BY <2>6 DEF DispatcherOnly, Dispatcher, CallReturns, DispatchTop, SubscribeCancelled, Lookup,
                  CheckRunning, LockChannel, Write, Settle
    <3>2. late = 1 => dispatcher'.at # "waiting"
      BY <2>6 DEF Dispatcher, CallReturns, DispatchTop, SubscribeCancelled, Lookup, DispatchDone,
                  CheckRunning, LockChannel, Write, Settle, NoDispatcher, TypeInv, QueueType
    <3> QED
      BY <3>1, <3>2
  <2> QED
    BY <2>2, <2>3, <2>4, <2>5, <2>6, WhoseStep
<1>3. LateInv => OneMessageAfterCancel
  BY DEF LateInv, OneMessageAfterCancel
<1> QED
  BY <1>1, <1>2, <1>3, TypeInvariance, PTL DEF Spec

-----------------------------------------------------------------------------
(* No Send before StartAll has released its lock, so that no message is    *)
(* settled before every channel has had its Start; and until the context   *)
(* is done a channel whose Start succeeded says so and has what its Send   *)
(* looks for.                                                              *)
Starting == main \in {"boot", "starting", "killed"}

Ready ==
    /\ main = "starting" => \A c \in enabled \ todo : started[c] # "no"
    /\ ~Starting => \A c \in enabled : started[c] # "no"
    /\ \A c \in enabled : started[c] = "ok" /\ ~ctxDone =>
           running[c] /\ (c = "whatsapp" => table[c] # {})

RefusedFor(s) ==
    s.fate = "refused" =>
        /\ s.msg.to \in enabled
        /\ ctxDone \/ started[s.msg.to] \in {"failed", "lost"}

StartInv ==
    /\ Starting => settled = <<>> /\ dispatcher.at \notin SendPlaces
    /\ Ready
    /\ \A i \in DOMAIN settled : RefusedFor(settled[i])

(* A refused message stays explained, and a new one has to be.             *)
LEMMA RefusedStep ==
  ASSUME TypeInv, StartInv, UNCHANGED enabled, ctxDone => ctxDone',
         \A c \in enabled : started[c] \in {"failed", "lost"} => started'[c] \in {"failed", "lost"},
         settled' = settled \/ \E s \in [msg : Message, fate : Fate] :
                                   settled' = Append(settled, s) /\ RefusedFor(s)'
  PROVE  \A i \in DOMAIN settled' : RefusedFor(settled[i])'
<1>1. CASE settled' = settled
  BY <1>1 DEF StartInv, RefusedFor
<1>2. CASE \E s \in [msg : Message, fate : Fate] : settled' = Append(settled, s) /\ RefusedFor(s)'
  <2>1. PICK s \in [msg : Message, fate : Fate] : settled' = Append(settled, s) /\ RefusedFor(s)'
    BY <1>2
  <2>2. /\ DOMAIN settled' = 1 .. Len(settled) + 1
        /\ DOMAIN settled = 1 .. Len(settled)
        /\ \A i \in 1 .. Len(settled) : settled'[i] = settled[i]
        /\ settled'[Len(settled) + 1] = s
    BY <2>1, AppendProperties DEF TypeInv, QueueType
  <2>3. ASSUME NEW i \in DOMAIN settled' PROVE RefusedFor(settled[i])'
    <3>1. CASE i \in DOMAIN settled
      <4>1. settled'[i] = settled[i]
        BY <2>2, <3>1
      <4> QED
        BY <3>1, <4>1 DEF StartInv, RefusedFor
    <3>2. CASE i = Len(settled) + 1
      BY <2>1, <2>2, <3>2 DEF RefusedFor
    <3>3. Len(settled) \in Nat
      BY DEF TypeInv, QueueType
    <3> QED
      BY <2>2, <2>3, <3>1, <3>2, <3>3
  <2> QED
    BY <2>3
<1> QED
  BY <1>1, <1>2

LEMMA ReadyStep == TypeInv /\ StartInv /\ [Next]_vars => Ready'
<1> SUFFICES ASSUME TypeInv, StartInv, [Next]_vars PROVE Ready'
  OBVIOUS
<1>0. ASSUME UNCHANGED <<enabled, main, todo, ctxDone, started, running, table>> PROVE Ready'
  BY <1>0 DEF StartInv, Ready, Starting
<1> USE DEF TypeInv, StartInv, Ready, Starting
<1>1. CASE Boot
  BY <1>1 DEF Boot, channelVars
<1>2. ASSUME NEW c \in enabled, StartChannel(c) PROVE Ready'
  <2>1. PICK outcome \in StartOutcomes, r \in BOOLEAN :
           /\ r \in RunningAfterStart(c, outcome)
           /\ started' = [started EXCEPT ![c] = outcome]
           /\ running' = [running EXCEPT ![c] = r]
           /\ outcome = "ok" /\ c = "whatsapp" => table' = [table EXCEPT !["whatsapp"] = {Bridge}]
    BY <1>2 DEF StartChannel, RunningAfterStart
  <2>2. outcome \in {"ok", "failed"} /\ (outcome = "ok" => r = TRUE)
    BY <2>1 DEF StartOutcomes, RunningAfterStart
  <2>3. c # "whatsapp" => UNCHANGED table
    BY <1>2 DEF StartChannel
  <2>4. main' = "starting" /\ todo' = todo \ {c} /\ UNCHANGED <<enabled, ctxDone>>
    BY <1>2 DEF StartChannel
  <2>5. DOMAIN started = enabled /\ DOMAIN running = enabled
        /\ DOMAIN table = enabled \cap LockingChannels
    BY DEF ChannelType
  <2>6. ASSUME NEW d \in enabled, started'[d] = "ok", ~ctxDone
        PROVE  running'[d] /\ (d = "whatsapp" => table'[d] # {})
    <3>1. CASE d = c
      <4>1. outcome = "ok" /\ running'[d] = TRUE
        BY <2>1, <2>2, <2>5, <2>6, <3>1
      <4>2. d = "whatsapp" => table'[d] = {Bridge}
        BY <2>1, <2>5, <3>1, <4>1 DEF LockingChannels
      <4> QED
        BY <4>1, <4>2
    <3>2. CASE d # c
      <4>1. running'[d] = running[d] /\ started'[d] = started[d]
        BY <2>1, <2>5, <3>2
      <4>2. CASE d = "whatsapp"
        BY <1>2, <2>3, <2>6, <3>2, <4>1, <4>2 DEF StartChannel
      <4> QED
        BY <2>6, <4>1, <4>2
    <3> QED
      BY <3>1, <3>2
  <2> QED
    BY <1>2, <2>1, <2>2, <2>4, <2>5, <2>6 DEF StartChannel
<1>3. CASE Serve \/ StopServices \/ Stopped
  BY <1>3 DEF Serve, StopServices, Stopped, channelVars
<1>4. CASE Kill
  BY <1>4 DEF Kill, channelVars
<1>5. CASE Interrupt
  BY <1>5 DEF Interrupt, channelVars
<1>6. ASSUME main \in {"stopping", "clearing"}, main' \in {"stopping", "clearing"},
             UNCHANGED <<enabled, ctxDone, started>>
      PROVE  Ready'
  BY <1>6 DEF ProcessType
<1>7. ASSUME NEW c \in enabled, StopSdk(c) PROVE Ready'
  BY <1>6, <1>7 DEF StopSdk
<1>8. CASE StopWhatsApp \/ StopListener \/ ClearClients
  BY <1>6, <1>8 DEF StopWhatsApp, StopListener, ClearClients
<1>9. CASE SessionEnds
  <2>1. /\ started' = [started EXCEPT !["qq"] = "lost"] /\ started["qq"] = "ok"
        /\ \A c \in enabled \ {"qq"} : running'[c] = running[c]
        /\ UNCHANGED <<enabled, main, todo, ctxDone, table>>
    BY <1>9 DEF SessionEnds, ChannelType
  <2>2. DOMAIN started = enabled
    BY DEF ChannelType
  <2>3. \A c \in enabled : started'[c] = (IF c = "qq" THEN "lost" ELSE started[c])
    BY <2>1, <2>2
  <2> QED
    BY <2>1, <2>3
<1>10. ASSUME NEW d \in Destinations, Publish(d) PROVE Ready'
  BY <1>0, <1>10 DEF Publish, channelVars
<1>11. CASE DispatcherOnly \/ ReporterOnly \/ UNCHANGED vars
  BY <1>0, <1>11 DEF DispatcherOnly, ReporterOnly, vars, channelVars
<1>12. CASE ConnectionOnly /\ Connection
  <2>1. "whatsapp" \in enabled => table'["whatsapp"] = table["whatsapp"]
    BY <1>12 DEF Connection, Accept, AcceptFails, Register, TestContext, Read, ReadFails,
                 CloseConnection, Unregister, Stall, ChannelType, LockingChannels
  <2> QED
    BY <1>12, <2>1 DEF ConnectionOnly
<1> QED
  BY <1>1, <1>2, <1>3, <1>4, <1>5, <1>7, <1>8, <1>9, <1>10, <1>11, <1>12, WhoseStep DEF Main

(* What no step takes back. *)
LEMMA Monotone ==
  ASSUME TypeInv, [Next]_vars
  PROVE  /\ UNCHANGED enabled
         /\ ctxDone => ctxDone'
         /\ Starting' => Starting
         /\ ~Starting => \A c \in enabled :
                started[c] \in {"failed", "lost"} => started'[c] \in {"failed", "lost"}
<1>1. CASE UNCHANGED <<enabled, main, ctxDone, started>>
  BY <1>1 DEF Starting
<1>2. CASE Boot \/ Serve \/ StopServices \/ Stopped \/ Kill \/ StopListener \/ ClearClients
  BY <1>2 DEF Boot, Serve, StopServices, Stopped, Kill, StopListener, ClearClients, Starting,
              channelVars
<1>3. CASE Interrupt
  BY <1>3 DEF Interrupt, Starting, channelVars
<1>4. ASSUME NEW c \in enabled, StartChannel(c)
      PROVE  UNCHANGED <<enabled, main, ctxDone>> /\ Starting
  BY <1>4 DEF StartChannel, Starting
<1>5. CASE SessionEnds
  <2>1. started' = [started EXCEPT !["qq"] = "lost"] /\ UNCHANGED <<enabled, main, ctxDone>>
    BY <1>5 DEF SessionEnds
  <2>2. DOMAIN started = enabled
    BY DEF TypeInv, ChannelType
  <2>3. \A c \in enabled : started'[c] = (IF c = "qq" THEN "lost" ELSE started[c])
    BY <2>1, <2>2
  <2> QED
    BY <2>1, <2>3 DEF Starting
<1>6. \/ UNCHANGED <<enabled, main, ctxDone, started>>
      \/ Boot \/ Serve \/ StopServices \/ Stopped \/ Kill \/ StopListener \/ ClearClients
      \/ Interrupt \/ SessionEnds \/ \E c \in enabled : StartChannel(c)
  BY WhoseStep DEF Main, StopSdk, StopWhatsApp, Publish, DispatcherOnly, ConnectionOnly,
                   ReporterOnly, vars, channelVars
<1> QED
  BY <1>1, <1>2, <1>3, <1>4, <1>5, <1>6 DEF Starting

(* While the gateway starts nothing reaches Send and nothing is settled. *)
LEMMA NothingSettledYet ==
  ASSUME TypeInv, StartInv, Starting, [Next]_vars
  PROVE  settled' = <<>> /\ dispatcher'.at \notin SendPlaces
<1>1. CASE UNCHANGED settled /\ (UNCHANGED dispatcher \/ dispatcher'.at \notin SendPlaces)
  BY <1>1 DEF StartInv
<1>2. CASE DispatcherOnly /\ (Dispatcher \/ CallReturns)
  <2>1. \/ ManagerLocked /\ dispatcher.at \notin SendPlaces /\ main = "starting"
        \/ dispatcher.at = "off"
    BY <1>2 DEF StartInv, Starting, DispatcherOnly, Alive, ManagerLocked, TypeInv, QueueType
  <2>2. DispatchTop \/ Subscribe \/ SubscribeCancelled
    BY <1>2, <2>1 DEF Dispatcher, CallReturns, Lookup, CheckRunning, LockChannel, Write, SendPlaces
  <2> QED
    BY <1>1, <2>2 DEF DispatchTop, Subscribe, SubscribeCancelled, TypeInv, QueueType, SendPlaces
<1>3. CASE ~(DispatcherOnly /\ (Dispatcher \/ CallReturns))
  <2>1. CASE Boot
    BY <1>1, <2>1 DEF Boot, TypeInv, QueueType, SendPlaces
  <2> QED
    BY <1>1, <1>3, <2>1, WhoseStep
       DEF Main, StartChannel, Serve, StopServices, StopSdk, StopWhatsApp, StopListener,
           ClearClients, Stopped, Kill, Interrupt, SessionEnds, Publish, ConnectionOnly,
           ReporterOnly, vars, queueVars
<1> QED
  BY <1>2, <1>3

(* A Send that refuses a message does so for a reason. *)
LEMMA RefusalsExplained ==
  ASSUME TypeInv, StartInv, ~Starting, [Next]_vars
  PROVE  settled' = settled \/ \E s \in [msg : Message, fate : Fate] :
                                   settled' = Append(settled, s) /\ RefusedFor(s)'
<1>1. ASSUME DispatcherOnly, NEW fate \in Fate, Settle(fate), dispatcher.msg \in Message,
             fate = "refused" => dispatcher.msg.to \in enabled
                                 /\ (ctxDone \/ started[dispatcher.msg.to] # "ok")
      PROVE  \E s \in [msg : Message, fate : Fate] :
                 settled' = Append(settled, s) /\ RefusedFor(s)'
  <2>1. PICK s \in [msg : Message, fate : Fate] : s = [msg |-> dispatcher.msg, fate |-> fate]
    BY <1>1
  <2>2. UNCHANGED <<enabled, ctxDone, started>>
    BY <1>1 DEF DispatcherOnly, channelVars
  <2>3. \A c \in enabled : started[c] \in {"ok", "failed", "lost"}
    BY DEF StartInv, Ready, TypeInv, ChannelType
  <2>4. RefusedFor(s)'
    BY <1>1, <2>1, <2>2, <2>3 DEF RefusedFor
  <2> QED
    BY <1>1, <2>1, <2>4 DEF Settle
<1>2. dispatcher.at \in SendPlaces \cup {"looking"} => dispatcher.msg \in Message
  BY DEF TypeInv, QueueType, Holding
<1>3. dispatcher.at \in SendPlaces => dispatcher.msg.to \in enabled
  BY DEF TypeInv, QueueType
<1>4. CASE Lookup
  BY <1>1, <1>2, <1>4 DEF Lookup, Fate
<1>5. CASE CheckRunning
  <2>1. dispatcher.at = "checking" /\ DispatcherOnly
    BY <1>5 DEF CheckRunning
  <2>2. CASE UNCHANGED settled
    BY <2>2
  <2>3. CASE Settle("refused") /\ ~running[dispatcher.msg.to]
    BY <1>1, <1>2, <1>3, <2>1, <2>3 DEF StartInv, Ready, Fate, SendPlaces
  <2> QED
    BY <1>5, <2>2, <2>3 DEF CheckRunning
<1>6. CASE CallReturns
  BY <1>1, <1>2, <1>6 DEF CallReturns, Fate, SendPlaces
<1>7. CASE LockChannel
  <2>1. dispatcher.at = "locking" /\ DispatcherOnly
    BY <1>7 DEF LockChannel
  <2>2. CASE UNCHANGED settled
    BY <2>2
  <2>3. CASE Settle("failed")
    BY <1>1, <1>2, <2>1, <2>3 DEF Fate, SendPlaces
  <2>4. CASE Settle("refused") /\ dispatcher.msg.to = "whatsapp" /\ table["whatsapp"] = {}
    BY <1>1, <1>2, <1>3, <2>1, <2>4 DEF StartInv, Ready, Fate, SendPlaces
  <2> QED
    BY <1>7, <2>2, <2>3, <2>4 DEF LockChannel
<1>8. ASSUME NEW k \in Connections, Write(k)
      PROVE  settled' = settled \/ \E s \in [msg : Message, fate : Fate] :
                                       settled' = Append(settled, s) /\ RefusedFor(s)'
  <2>1. dispatcher.at = "writing" /\ DispatcherOnly
        /\ (UNCHANGED settled \/ Settle("failed") \/ Settle("delivered"))
    BY <1>8 DEF Write
  <2> QED
    BY <1>1, <1>2, <2>1 DEF Fate, SendPlaces
<1>9. CASE DispatchTop \/ Subscribe \/ SubscribeCancelled
  BY <1>9 DEF DispatchTop, Subscribe, SubscribeCancelled
<1>10. CASE ~(Dispatcher \/ CallReturns)
  BY <1>10, WhoseStep
     DEF Main, Boot, StartChannel, Serve, StopServices, StopSdk, StopWhatsApp, StopListener,
         ClearClients, Stopped, Kill, Interrupt, SessionEnds, Publish, ConnectionOnly,
         ReporterOnly, vars, queueVars
<1> QED
  BY <1>4, <1>5, <1>6, <1>7, <1>8, <1>9, <1>10 DEF Dispatcher

LEMMA StartInvariance == Spec => []StartInv
<1>1. Init => StartInv
  <2> SUFFICES ASSUME Init PROVE StartInv
    OBVIOUS
  <2>1. main = "boot" /\ ctxDone = FALSE /\ settled = <<>> /\ dispatcher.at = "off"
        /\ \A c \in enabled : started[c] = "no"
    BY DEF Init, NoDispatcher
  <2> QED
    BY <2>1 DEF StartInv, Starting, Ready, SendPlaces
<1>2. TypeInv /\ StartInv /\ [Next]_vars => StartInv'
  <2> SUFFICES ASSUME TypeInv, StartInv, [Next]_vars PROVE StartInv'
    OBVIOUS
  <2>1. CASE Starting
    <3>1. settled' = <<>> /\ dispatcher'.at \notin SendPlaces
      BY <2>1, NothingSettledYet
    <3> QED
      BY <3>1, ReadyStep DEF StartInv, SendPlaces
  <2>2. CASE ~Starting
    <3>1. \A i \in DOMAIN settled' : RefusedFor(settled[i])'
      BY <2>2, RefusedStep, RefusalsExplained, Monotone
    <3> QED
      BY <2>2, <3>1, ReadyStep, Monotone DEF StartInv
  <2> QED
    BY <2>1, <2>2
<1> QED
  BY <1>1, <1>2, TypeInvariance, PTL DEF Spec

(* No message is refused because it came before its channel was started:   *)
(* StartAll keeps its lock until every Start has returned (manager.go:147, *)
(* 174).                                                                   *)
THEOREM NothingRefusedEarly == Spec => []RefusedOnlyWhenDown
<1>1. StartInv => RefusedOnlyWhenDown
  BY DEF StartInv, RefusedFor, RefusedOnlyWhenDown
<1> QED
  BY <1>1, StartInvariance, PTL

-----------------------------------------------------------------------------
(* A connection that is open is in the table of its channel, where Stop    *)
(* finds it, or in the hands of the acceptor.  So what is open after Stop  *)
(* was accepted while it ran, and since the context is done its handler    *)
(* never reads.  WhatsApp has no acceptor, and nothing of it stays open.   *)
Registered(k) == k \in table[Owner(k)] \/ (k \in Devices /\ acceptor = k)

StopHasPassed(k) == main \in {"stopping", "clearing", "stopped"} /\ Owner(k) \notin todo

Ending(k) == k \in Devices /\ (acceptor = k \/ handler[k] \in {"top", "closing"})

OpenInv ==
    /\ main = "boot" \/ (main = "starting" /\ "maixcam" \in todo) => acceptor = "off"
    /\ acceptor # "off" => "maixcam" \in enabled
    /\ main = "clearing" => "maixcam" \in todo
    /\ \A k \in open : /\ Owner(k) \in enabled
                       /\ Registered(k)
                       /\ handler[k] # "closed"
                       /\ StopHasPassed(k) => Ending(k)

(* Of a connection that stays open and whose goroutines do nothing, only   *)
(* its channel's Stop changes anything.                                    *)
LEMMA SameConnections ==
  ASSUME TypeInv, OpenInv, UNCHANGED <<enabled, acceptor, table, open, handler>>,
         main' = "boot" => main = "boot",
         main' = "starting" => main = "starting" \/ acceptor = "off",
         main' = "starting" /\ main = "starting" => todo' \subseteq todo,
         main' = "clearing" => "maixcam" \in todo',
         \A k \in open : StopHasPassed(k)' => StopHasPassed(k)
  PROVE  OpenInv'
  BY DEF OpenInv, Registered, Ending, Owner

LEMMA OpenStep == TypeInv /\ OpenInv /\ [Next]_vars => OpenInv'
<1> SUFFICES ASSUME TypeInv, OpenInv, [Next]_vars PROVE OpenInv'
  OBVIOUS
<1>0. ASSUME UNCHANGED <<enabled, main, todo, acceptor, table, open, handler>> PROVE OpenInv'
  BY <1>0, SameConnections DEF StopHasPassed, Owner, OpenInv
<1>1. CASE Boot
  BY <1>1, SameConnections DEF Boot, channelVars, StopHasPassed, OpenInv
<1>2. ASSUME NEW c \in enabled, StartChannel(c) PROVE OpenInv'
  <2>1. UNCHANGED <<enabled, main>> /\ main = "starting" /\ todo' = todo \ {c} /\ c \in todo
    BY <1>2 DEF StartChannel
  <2>2. acceptor' = acceptor \/ (c = "maixcam" /\ acceptor = "off")
    BY <1>2, <2>1 DEF StartChannel, OpenInv
  <2>3. \/ UNCHANGED <<table, open, handler>>
        \/ /\ c = "whatsapp"
           /\ table' = [table EXCEPT !["whatsapp"] = {Bridge}]
           /\ open' = open \cup {Bridge}
           /\ handler' = [handler EXCEPT ![Bridge] = "top"]
    BY <1>2 DEF StartChannel
  <2>4. \A k \in open' : Registered(k)' /\ Owner(k) \in enabled /\ handler'[k] # "closed"
    <3>1. ASSUME NEW k \in open, UNCHANGED <<table, open, handler>>
          PROVE  Registered(k)' /\ Owner(k) \in enabled /\ handler'[k] # "closed"
      BY <2>2, <3>1, GatewayAssumption DEF OpenInv, Registered, Owner
    <3>2. ASSUME NEW k \in open', c = "whatsapp",
                 table' = [table EXCEPT !["whatsapp"] = {Bridge}],
                 open' = open \cup {Bridge}, handler' = [handler EXCEPT ![Bridge] = "top"]
          PROVE  Registered(k)' /\ Owner(k) \in enabled /\ handler'[k] # "closed"
      <4>1. DOMAIN table = enabled \cap LockingChannels /\ DOMAIN handler = Connections
            /\ Bridge \in Connections /\ "whatsapp" \in enabled /\ acceptor' = acceptor
        BY <2>2, <3>2 DEF TypeInv, ChannelType, Connections
      <4>2. CASE k = Bridge
        BY <3>2, <4>1, <4>2 DEF Registered, Owner, LockingChannels
      <4>3. CASE k # Bridge
        BY <3>2, <4>1, <4>3 DEF OpenInv, Registered, Owner
      <4> QED
        BY <4>2, <4>3
    <3> QED
      BY <2>3, <3>1, <3>2
  <2>5. acceptor' # "off" => "maixcam" \in enabled
    BY <1>2, <2>2 DEF OpenInv
  <2>6. main' = "starting" /\ "maixcam" \in todo' => acceptor' = "off"
    BY <2>1, <2>2 DEF OpenInv
  <2> QED
    BY <2>1, <2>4, <2>5, <2>6 DEF OpenInv, StopHasPassed, Owner
<1>3. CASE Serve \/ Kill \/ Interrupt
  BY <1>3, SameConnections DEF Serve, Kill, Interrupt, channelVars, StopHasPassed
<1>4. CASE StopServices
  BY <1>4, SameConnections DEF StopServices, channelVars, StopHasPassed, OpenInv
<1>5. CASE Stopped
  BY <1>5, SameConnections DEF Stopped, channelVars, StopHasPassed, Owner
<1>6. ASSUME NEW c \in enabled, StopSdk(c) PROVE OpenInv'
  <2>1. \A k : Owner(k) # c
    BY <1>6 DEF StopSdk, SdkChannels, Owner
  <2> QED
    BY <1>6, <2>1, SameConnections DEF StopSdk, StopHasPassed, Owner
<1>7. CASE StopListener
  BY <1>7, SameConnections DEF StopListener, StopHasPassed, Owner
<1>8. ASSUME NEW c \in LockingChannels, c \in todo, main \in {"stopping", "clearing"},
             main' = "stopping", todo' = todo \ {c}, Close(table[c]),
             table' = [table EXCEPT ![c] = {}], UNCHANGED <<enabled, acceptor, handler>>
      PROVE  OpenInv'
  <2>1. open' = open \ table[c]
    BY <1>8, CloseType DEF TypeInv
  <2>2. DOMAIN table = enabled \cap LockingChannels
    BY DEF TypeInv, ChannelType
  <2>3. ASSUME NEW k \in open'
        PROVE  Registered(k)' /\ (StopHasPassed(k)' => Ending(k)')
    <3>1. k \in open /\ k \notin table[c] /\ Registered(k) /\ (StopHasPassed(k) => Ending(k))
      BY <2>1, <2>3 DEF OpenInv
    <3>2. CASE Owner(k) = c
      <4>1. k \in Devices /\ acceptor = k
        BY <3>1, <3>2 DEF Registered
      <4> QED
        BY <1>8, <4>1 DEF Registered, Ending
    <3>3. CASE Owner(k) # c
      <4>1. table'[Owner(k)] = table[Owner(k)]
        BY <1>8, <2>2, <3>3
      <4>2. UNCHANGED Owner(k)
        BY DEF Owner
      <4> QED
        BY <1>8, <3>1, <3>3, <4>1, <4>2 DEF Registered, StopHasPassed, Ending
    <3> QED
      BY <3>2, <3>3
  <2> QED
    BY <1>8, <2>1, <2>3 DEF OpenInv, Owner
<1>9. CASE StopWhatsApp
  BY <1>8, <1>9 DEF StopWhatsApp, LockingChannels
<1>10. CASE ClearClients
  BY <1>8, <1>10 DEF ClearClients, LockingChannels, OpenInv
<1>11. CASE SessionEnds \/ DispatcherOnly \/ ReporterOnly \/ UNCHANGED vars
  BY <1>0, <1>11 DEF SessionEnds, DispatcherOnly, ReporterOnly, vars, channelVars
<1>12. ASSUME NEW d \in Destinations, Publish(d) PROVE OpenInv'
  BY <1>0, <1>12 DEF Publish, channelVars
<1>13. ASSUME ConnectionOnly
       PROVE  UNCHANGED <<enabled, main, todo, ctxDone>> /\ (\A k : StopHasPassed(k)' <=> StopHasPassed(k))
  BY <1>13 DEF ConnectionOnly, StopHasPassed, Owner
<1>14. \A k : StopHasPassed(k) => ctxDone
  BY DEF StopHasPassed, TypeInv, ProcessType
<1>15. ASSUME NEW k \in Devices PROVE k # Bridge /\ Owner(k) = "maixcam" /\ k \in Connections
                                      /\ k \notin {"off", "accepting", "ended"}
  BY GatewayAssumption DEF Owner, Connections
<1>16. acceptor # "off" => main # "boot" /\ ~(main = "starting" /\ "maixcam" \in todo)
                           /\ "maixcam" \in DOMAIN table
  BY DEF OpenInv, TypeInv, ChannelType, LockingChannels
<1>17. DOMAIN handler = Connections /\ open \subseteq Connections
  BY DEF TypeInv, ChannelType
<1>18. CASE AcceptFails
  BY <1>13, <1>15, <1>16, <1>18 DEF AcceptFails, OpenInv, Registered, Ending, Owner
<1>19. ASSUME NEW k \in Devices, Accept(k) PROVE OpenInv'
  BY <1>13, <1>15, <1>16, <1>17, <1>19 DEF Accept, OpenInv, Registered, Ending, Owner
<1>20. ASSUME NEW k \in Devices, Register(k) PROVE OpenInv'
  BY <1>13, <1>15, <1>16, <1>17, <1>20 DEF Register, OpenInv, Registered, Ending, Owner
<1>21. ASSUME NEW k \in Connections, TestContext(k) \/ Read(k) \/ ReadFails(k) PROVE OpenInv'
  BY <1>13, <1>14, <1>15, <1>17, <1>21 DEF TestContext, Read, ReadFails, OpenInv, Registered, Ending, Owner, Connections
<1>22. ASSUME NEW k \in Devices, CloseConnection(k) PROVE OpenInv'
  BY <1>13, <1>15, <1>17, <1>22, CloseType DEF CloseConnection, OpenInv, Registered, Ending, Owner, TypeInv
<1>23. ASSUME NEW k \in Devices, Unregister(k) PROVE OpenInv'
  BY <1>13, <1>15, <1>17, <1>23 DEF Unregister, OpenInv, Registered, Ending, Owner, TypeInv, ChannelType
<1>24. ASSUME NEW k \in Connections, Stall(k) PROVE OpenInv'
  BY <1>0, <1>13, <1>24 DEF Stall
<1> QED
  BY <1>1, <1>2, <1>3, <1>4, <1>5, <1>6, <1>7, <1>9, <1>10, <1>11, <1>12, <1>18, <1>19, <1>20,
     <1>21, <1>22, <1>23, <1>24, WhoseStep DEF Main, Connection

LEMMA OpenInvariance == Spec => []OpenInv
<1>1. Init => OpenInv
  BY DEF Init, OpenInv
<1> QED
  BY <1>1, OpenStep, TypeInvariance, PTL DEF Spec

(* Stop leaves no connection behind that anybody still reads from          *)
(* (main.go:682, maixcam.go:186-204, whatsapp.go:61-78).                   *)
THEOREM NobodyIsLeftBehind == Spec => []StoppedConnectionsEnd
<1>1. TypeInv /\ OpenInv => StoppedConnectionsEnd
  BY DEF TypeInv, ProcessType, OpenInv, StopHasPassed, Ending, StoppedConnectionsEnd
<1> QED
  BY <1>1, OpenInvariance, TypeInvariance, PTL

-----------------------------------------------------------------------------
(* The refinement of Delivery.  What the dispatcher holds is the head of   *)
(* what is pending.                                                        *)
Pending == InHand \o outbox

LEMMA PendingType ==
  ASSUME TypeInv
  PROVE  /\ Pending \in Seq(Message)
         /\ Len(settled) + Len(Pending) = TakenCount + Len(outbox)
         /\ Holding => Pending # <<>> /\ Head(Pending) = dispatcher.msg /\ Tail(Pending) = outbox
         /\ ~Holding => Pending = outbox
<1>1. outbox \in Seq(Message) /\ settled \in Seq([msg : Message, fate : Fate])
  BY DEF TypeInv, QueueType
<1>2. CASE Holding
  <2>1. dispatcher.msg \in Message /\ InHand = <<dispatcher.msg>>
    BY <1>2 DEF TypeInv, QueueType, Holding, InHand
  <2>2. InHand \in Seq(Message) /\ Len(InHand) = 1 /\ InHand[1] = dispatcher.msg
    BY <2>1
  <2>3. Pending \in Seq(Message) /\ Len(Pending) = Len(outbox) + 1
        /\ Pending[1] = dispatcher.msg
        /\ \A i \in 1 .. Len(outbox) : Pending[i + 1] = outbox[i]
    <3>1. Pending \in Seq(Message) /\ Len(Pending) = Len(InHand) + Len(outbox)
      BY <1>1, <2>2, ConcatProperties DEF Pending
    <3>2. \A i \in 1 .. Len(InHand) + Len(outbox) :
              Pending[i] = IF i <= Len(InHand) THEN InHand[i] ELSE outbox[i - Len(InHand)]
      BY <1>1, <2>2, ConcatProperties, Zenon DEF Pending
    <3>3. Len(outbox) \in Nat
      BY <1>1
    <3> QED
      BY <2>2, <3>1, <3>2, <3>3
  <2>4. Pending # <<>> /\ Head(Pending) = dispatcher.msg
    BY <1>1, <2>3, HeadTailProperties
  <2>5. Tail(Pending) \in Seq(Message) /\ Len(Tail(Pending)) = Len(outbox)
        /\ \A i \in 1 .. Len(outbox) : Tail(Pending)[i] = Pending[i + 1]
    BY <1>1, <2>3, <2>4, HeadTailProperties
  <2>6. Tail(Pending) = outbox
    BY <1>1, <2>3, <2>5, SeqEqual
  <2> QED
    BY <1>1, <1>2, <2>3, <2>4, <2>6 DEF TakenCount
<1>3. CASE ~Holding
  <2>1. Pending = outbox
    BY <1>1, <1>3, ConcatEmptySeq DEF Pending, InHand
  <2> QED
    BY <1>1, <1>3, <2>1 DEF TakenCount
<1> QED
  BY <1>2, <1>3

(* The three ways in which a step changes what Delivery sees. *)
LEMMA SameDelivery ==
  ASSUME UNCHANGED <<enabled, settled, InHand, outbox>>
  PROVE  UNCHANGED Promise!vars
  BY DEF Promise!vars

LEMMA SettleDelivers ==
  ASSUME TypeInv, UNCHANGED enabled, Holding, NEW fate \in Fate, Settle(fate),
         fate = "unrouted" <=> dispatcher.msg.to \notin enabled
  PROVE  Promise!Settle(fate)
<1>1. settled' = Append(settled, [msg |-> dispatcher.msg, fate |-> fate]) /\ UNCHANGED outbox
      /\ dispatcher'.msg = Nothing
  BY DEF Settle, NoDispatcher
<1>2. Pending' = outbox
  <2>1. outbox' \in Seq(Message) /\ InHand' = <<>>
    BY <1>1 DEF TypeInv, QueueType, InHand, Holding
  <2> QED
    BY <1>1, <2>1, ConcatEmptySeq DEF Pending
<1> QED
  BY <1>1, <1>2, PendingType DEF Promise!Settle, Pending

LEMMA DispatcherDelivers ==
  ASSUME TypeInv, DispatcherOnly, Dispatcher \/ CallReturns
  PROVE  Promise!Next \/ UNCHANGED Promise!vars
<1>1. UNCHANGED enabled
  BY DEF DispatcherOnly
<1>2. dispatcher.at \in SendPlaces \cup {"looking"} => Holding
  BY DEF TypeInv, QueueType
<1>3. dispatcher.at \in SendPlaces => dispatcher.msg.to \in enabled
  BY DEF TypeInv, QueueType
<1>4. ASSUME NEW fate \in Fate, Settle(fate), Holding,
             fate = "unrouted" <=> dispatcher.msg.to \notin enabled
      PROVE  Promise!Next
  BY <1>1, <1>4, SettleDelivers DEF Promise!Next, Promise!Fates, Fate
<1>5. ASSUME UNCHANGED <<settled, outbox>>, dispatcher'.msg = dispatcher.msg
      PROVE  UNCHANGED Promise!vars
  BY <1>1, <1>5, SameDelivery DEF InHand, Holding
<1>6. CASE DispatchTop \/ SubscribeCancelled
  BY <1>5, <1>6 DEF DispatchTop, SubscribeCancelled, TypeInv, QueueType
<1>7. CASE Subscribe
  <2>1. ~Holding /\ outbox # <<>> /\ outbox \in Seq(Message)
    BY <1>7 DEF Subscribe, TypeInv, QueueType, SendPlaces
  <2>2. dispatcher'.msg = Head(outbox) /\ outbox' = Tail(outbox) /\ UNCHANGED settled
    BY <1>7 DEF Subscribe, TypeInv, QueueType
  <2>3. Head(outbox) \in Message /\ Tail(outbox) \in Seq(Message)
    BY <2>1, HeadTailProperties
  <2>4. InHand' = <<Head(outbox)>>
    BY <2>2, <2>3, GatewayAssumption DEF InHand, Holding
  <2>5. <<Head(outbox)>> \o Tail(outbox) = outbox
    <3> DEFINE joined == <<Head(outbox)>> \o Tail(outbox)
    <3>1. joined \in Seq(Message) /\ Len(joined) = 1 + Len(Tail(outbox))
      BY <2>3, ConcatProperties
    <3>2. \A i \in 1 .. 1 + Len(Tail(outbox)) :
              joined[i] = IF i <= 1 THEN <<Head(outbox)>>[i] ELSE Tail(outbox)[i - 1]
      <4>1. <<Head(outbox)>> \in Seq(Message) /\ Len(<<Head(outbox)>>) = 1
        BY <2>3
      <4> QED
        BY <2>3, <4>1, ConcatProperties
    <3>3. Len(Tail(outbox)) = Len(outbox) - 1 /\ Len(outbox) \in Nat /\ Head(outbox) = outbox[1]
          /\ \A i \in 1 .. Len(Tail(outbox)) : Tail(outbox)[i] = outbox[i + 1]
      BY <2>1, HeadTailProperties
    <3>4. \A i \in 1 .. Len(joined) : joined[i] = outbox[i]
      BY <3>1, <3>2, <3>3
    <3> HIDE DEF joined
    <3>5. joined = outbox
      BY <2>1, <3>1, <3>3, <3>4, SeqEqual
    <3> QED
      BY <3>5 DEF joined
  <2>6. Pending' = Pending
    BY <2>1, <2>2, <2>4, <2>5, PendingType DEF Pending
  <2> QED
    BY <1>1, <2>2, <2>6 DEF Promise!vars, Pending
<1>8. CASE Lookup
  <2>1. Holding
    BY <1>2, <1>8 DEF Lookup
  <2>2. CASE dispatcher.msg.to \notin enabled
    BY <1>4, <1>8, <2>1, <2>2 DEF Lookup, Fate
  <2>3. CASE dispatcher.msg.to \in enabled
    BY <1>5, <1>8, <2>3 DEF Lookup, TypeInv, QueueType
  <2> QED
    BY <2>2, <2>3
<1>9. CASE CheckRunning \/ CallReturns \/ LockChannel \/ \E k \in Connections : Write(k)
  <2>1. dispatcher.at \in SendPlaces
    BY <1>9 DEF CheckRunning, CallReturns, LockChannel, Write, SendPlaces
  <2>2. \/ \E fate \in {"delivered", "failed", "refused"} : Settle(fate)
        \/ UNCHANGED <<settled, outbox>> /\ dispatcher'.msg = dispatcher.msg
    BY <1>9 DEF CheckRunning, CallReturns, LockChannel, Write, TypeInv, QueueType
  <2> QED
    BY <1>2, <1>3, <1>4, <1>5, <2>1, <2>2 DEF Fate
<1> QED
  BY <1>6, <1>7, <1>8, <1>9 DEF Dispatcher

LEMMA PublishDelivers ==
  ASSUME TypeInv, NEW d \in Destinations, Publish(d)
  PROVE  Promise!Publish(d)
<1> DEFINE m == [id |-> TakenCount + Len(outbox) + 1, to |-> d]
<1>1. UNCHANGED <<enabled, settled, InHand>> /\ outbox' = Append(outbox, m)
  BY DEF Publish, InHand, Holding
<1>2. TakenCount \in Nat /\ Len(outbox) \in Nat
  BY DEF TypeInv, QueueType, TakenCount
<1>3. m \in Message
  BY <1>2, GatewayAssumption DEF Publish, Message
<1>4. outbox \in Seq(Message) /\ dispatcher.msg \in Message \cup {Nothing}
  BY DEF TypeInv, QueueType
<1>5. InHand \in Seq(Message)
  <2>1. CASE Holding
    BY <1>4, <2>1 DEF InHand, Holding
  <2>2. CASE ~Holding
    BY <2>2 DEF InHand
  <2> QED
    BY <2>1, <2>2
<1>6. InHand \o Append(outbox, m) = Append(InHand \o outbox, m)
  BY <1>3, <1>4, <1>5
<1>7. Len(settled) + Len(Pending) + 1 = TakenCount + Len(outbox) + 1
  BY PendingType
<1> QED
  BY <1>1, <1>6, <1>7 DEF Promise!Publish, Pending

(* The dispatcher settles messages one at a time, each once and in the     *)
(* order of their publication, whatever channels do (manager.go:205-238).  *)
THEOREM DispatcherDeliversInOrder == Spec => DeliversInOrder
<1>1. Init => Promise!Init
  <2> SUFFICES ASSUME Init PROVE Promise!Init
    OBVIOUS
  <2>1. enabled \subseteq Destinations
    BY InitType DEF TypeInv, ProcessType, Destinations
  <2>2. InHand = <<>> /\ outbox = <<>> /\ settled = <<>>
    BY DEF Init, InHand, Holding, NoDispatcher
  <2>3. InHand \o outbox = <<>>
    BY <2>2, ConcatEmptySeq
  <2> QED
    BY <2>1, <2>2, <2>3 DEF Promise!Init
<1>2. TypeInv /\ [Next]_vars => [Promise!Next]_Promise!vars
  <2> SUFFICES ASSUME TypeInv, [Next]_vars PROVE Promise!Next \/ UNCHANGED Promise!vars
    OBVIOUS
  <2>1. CASE DispatcherOnly /\ (Dispatcher \/ CallReturns)
    BY <2>1, DispatcherDelivers
  <2>2. ASSUME NEW d \in Destinations, Publish(d) PROVE Promise!Next
    BY <2>2, PublishDelivers DEF Promise!Next
  <2>3. ASSUME UNCHANGED <<enabled, settled, outbox>>, dispatcher'.msg = dispatcher.msg
        PROVE  UNCHANGED Promise!vars
    BY <2>3, SameDelivery DEF InHand, Holding
  <2>4. CASE Boot
    BY <2>3, <2>4 DEF Boot, TypeInv, QueueType
  <2>5. CASE Main /\ ~Boot
    BY <2>3, <2>5 DEF Main, StartChannel, Serve, StopServices, StopSdk, StopWhatsApp,
                      StopListener, ClearClients, Stopped, queueVars
  <2>6. CASE Kill \/ Interrupt \/ SessionEnds \/ ConnectionOnly \/ ReporterOnly \/ UNCHANGED vars
    BY <2>3, <2>6 DEF Kill, Interrupt, SessionEnds, ConnectionOnly, ReporterOnly, vars, queueVars
  <2> QED
    BY <2>1, <2>2, <2>4, <2>5, <2>6, WhoseStep
<1> QED
  BY <1>1, <1>2, TypeInvariance, PTL DEF Spec, Promise!Spec, DeliversInOrder

-----------------------------------------------------------------------------
(* A Send under way.  While it writes it holds the channel's lock, so the  *)
(* connections it still has to write to stay in the channel's table, which *)
(* it ranges over.                                                         *)
SendHoldsItsTable ==
    dispatcher.at = "writing" =>
        /\ dispatcher.left # {}
        /\ dispatcher.left \subseteq table[dispatcher.msg.to]

(* No step takes a connection from, or adds one to, the table that a Send  *)
(* ranges over.                                                            *)
TableIsStill ==
    [][dispatcher.at = "writing"
          => table'[dispatcher.msg.to] = table[dispatcher.msg.to]]_vars


(* A Send comes to its end in a bounded number of writes: it starts with   *)
(* the connections of the table, each write takes one away, nothing adds   *)
(* one, and no step but its own ends it, the end of the process excepted.  *)
SendsMoveOn ==
    [][dispatcher.at = "writing" =>
          \/ UNCHANGED dispatcher
          \/ dispatcher'.at = "top" /\ \E k \in Connections : Write(k)
          \/ /\ dispatcher'.at = "writing" /\ dispatcher'.msg = dispatcher.msg
             /\ \E k \in dispatcher.left : dispatcher'.left = dispatcher.left \ {k}]_vars

(* A step of anybody but a Send that ends leaves the table it ranges over. *)
LEMMA StillTable ==
  ASSUME TypeInv, StartInv, [Next]_vars, dispatcher.at = "writing"
  PROVE  table'[dispatcher.msg.to] = table[dispatcher.msg.to]
<1>1. dispatcher.msg.to \in enabled \cap LockingChannels /\ ~Starting
      /\ DOMAIN table = enabled \cap LockingChannels
  BY DEF TypeInv, QueueType, ChannelType, StartInv, SendPlaces
<1>2. CASE Main
  BY <1>1, <1>2 DEF Main, Boot, StartChannel, Serve, StopServices, StopSdk, StopWhatsApp,
                    StopListener, ClearClients, Stopped, channelVars, Starting, ChannelLocked
<1>3. CASE Kill \/ Interrupt \/ SessionEnds \/ DispatcherOnly \/ ReporterOnly \/ UNCHANGED vars
  BY <1>3 DEF Kill, Interrupt, SessionEnds, DispatcherOnly, ReporterOnly, vars, channelVars
<1>4. ASSUME NEW d \in Destinations, Publish(d)
      PROVE  UNCHANGED table
  BY <1>4 DEF Publish, channelVars
<1>5. CASE Connection
  BY <1>1, <1>5 DEF Connection, Accept, AcceptFails, Register, TestContext, Read, ReadFails,
                    CloseConnection, Unregister, Stall, ChannelLocked
<1> QED
  BY <1>2, <1>3, <1>4, <1>5, WhoseStep

(* What a step may do to a Send that writes. *)
LEMMA WritingStep ==
  ASSUME TypeInv, [Next]_vars, dispatcher.at = "writing"
  PROVE  \/ UNCHANGED dispatcher
         \/ dispatcher'.at = "top" /\ \E k \in Connections : Write(k)
         \/ /\ dispatcher'.at = "writing" /\ dispatcher'.msg = dispatcher.msg
            /\ dispatcher'.left # {}
            /\ \E k \in dispatcher.left : dispatcher'.left = dispatcher.left \ {k}
<1>1. CASE UNCHANGED dispatcher
  BY <1>1
<1>2. ASSUME NEW k \in Connections, Write(k), dispatcher.left = {k}
      PROVE  dispatcher'.at = "top"
  BY <1>2 DEF Write, Settle, NoDispatcher
<1>3. ASSUME NEW k \in Connections, Write(k), dispatcher.left # {k}
      PROVE  /\ dispatcher'.at = "writing" /\ dispatcher'.msg = dispatcher.msg
             /\ dispatcher'.left # {}
             /\ k \in dispatcher.left /\ dispatcher'.left = dispatcher.left \ {k}
  <2>1. PICK failed : dispatcher' = [dispatcher EXCEPT !.left = @ \ {k}, !.failed = failed]
    BY <1>3 DEF Write
  <2> QED
    BY <1>3, <2>1 DEF Write, TypeInv, QueueType
<1>4. CASE ~ \E k \in Connections : Write(k)
  <2>1. CASE Dispatcher \/ CallReturns
    BY <1>4, <2>1 DEF Dispatcher, CallReturns, DispatchTop, Subscribe, SubscribeCancelled, Lookup,
                      CheckRunning, LockChannel
  <2>2. CASE Main
    BY <2>2 DEF Main, Boot, StartChannel, Serve, StopServices, StopSdk, StopWhatsApp,
                StopListener, ClearClients, Stopped, queueVars, TypeInv, QueueType
  <2>3. ASSUME NEW d \in Destinations, Publish(d) PROVE UNCHANGED dispatcher
    BY <2>3 DEF Publish
  <2> QED
    BY <2>1, <2>2, <2>3, WhoseStep
       DEF Kill, Interrupt, SessionEnds, ConnectionOnly, ReporterOnly, vars, queueVars
<1> QED
  BY <1>1, <1>2, <1>3, <1>4

(* Only LockChannel begins to write. *)
LEMMA WritingBegins ==
  ASSUME TypeInv, [Next]_vars, dispatcher.at # "writing", dispatcher'.at = "writing"
  PROVE  LockChannel
<1>1. CASE Dispatcher \/ CallReturns
  BY <1>1 DEF Dispatcher, CallReturns, DispatchTop, Subscribe, SubscribeCancelled, Lookup,
              CheckRunning, Write, Settle, NoDispatcher, TypeInv, QueueType
<1>2. CASE Main
  BY <1>2 DEF Main, Boot, StartChannel, Serve, StopServices, StopSdk, StopWhatsApp,
              StopListener, ClearClients, Stopped, queueVars, TypeInv, QueueType
<1>3. ASSUME NEW d \in Destinations, Publish(d) PROVE UNCHANGED dispatcher
  BY <1>3 DEF Publish
<1> QED
  BY <1>1, <1>2, <1>3, WhoseStep
     DEF Kill, Interrupt, SessionEnds, ConnectionOnly, ReporterOnly, vars, queueVars

(* MaixCam's Send ranges over its map of clients while devices come and go *)
(* and the gateway stops, and WhatsApp's uses a connection that Stop sets  *)
(* to nil: what they still have to write to is in the table all the time   *)
(* (maixcam.go:211, 229, whatsapp.go:81).                                  *)
THEOREM SendsHoldTheirTable == Spec => []SendHoldsItsTable
<1>1. Init => SendHoldsItsTable
  BY DEF Init, NoDispatcher, SendHoldsItsTable
<1>2. TypeInv /\ StartInv /\ SendHoldsItsTable /\ [Next]_vars => SendHoldsItsTable'
  <2> SUFFICES ASSUME TypeInv, StartInv, SendHoldsItsTable, [Next]_vars,
                      dispatcher'.at = "writing"
               PROVE  dispatcher'.left # {} /\ dispatcher'.left \subseteq table'[dispatcher'.msg.to]
    BY DEF SendHoldsItsTable
  <2>1. CASE dispatcher.at = "writing"
    BY <2>1, StillTable, WritingStep DEF SendHoldsItsTable
  <2>2. CASE dispatcher.at # "writing"
    <3>1. LockChannel
      BY <2>2, WritingBegins
    <3>2. /\ dispatcher' = [dispatcher EXCEPT !.at = "writing", !.left = table[dispatcher.msg.to]]
          /\ table[dispatcher.msg.to] # {} /\ UNCHANGED table
      BY <3>1 DEF LockChannel, Settle, NoDispatcher, DispatcherOnly, channelVars
    <3> QED
      BY <3>2 DEF TypeInv, QueueType
  <2> QED
    BY <2>1, <2>2
<1> QED
  BY <1>1, <1>2, StartInvariance, TypeInvariance, PTL DEF Spec

(* Nobody changes the table under a Send: the acceptor, a handler that     *)
(* ends and Stop wait for the lock (maixcam.go:87, 101, 194).              *)
THEOREM TablesAreStill == Spec => TableIsStill
<1>1. TypeInv /\ StartInv /\ [Next]_vars =>
        [dispatcher.at = "writing"
            => table'[dispatcher.msg.to] = table[dispatcher.msg.to]]_vars
  BY StillTable
<1> QED
  BY <1>1, StartInvariance, TypeInvariance, PTL DEF Spec, TableIsStill

(* A Send writes to each connection at most once and to no other, and only *)
(* its last write ends it.                                                 *)
THEOREM SendsComeToAnEnd == Spec => SendsMoveOn
<1>1. TypeInv /\ [Next]_vars =>
        [dispatcher.at = "writing" =>
          \/ UNCHANGED dispatcher
          \/ dispatcher'.at = "top" /\ \E k \in Connections : Write(k)
          \/ /\ dispatcher'.at = "writing" /\ dispatcher'.msg = dispatcher.msg
             /\ \E k \in dispatcher.left : dispatcher'.left = dispatcher.left \ {k}]_vars
  BY WritingStep
<1> QED
  BY <1>1, TypeInvariance, PTL DEF Spec, SendsMoveOn

-----------------------------------------------------------------------------
(* The safety part of ShutdownEnds: after an interrupt main can go on, and *)
(* every step it takes brings it nearer to its end.                        *)

(* Steps of main that no lock holds up. *)
MainIsFree ==
    \/ main = "cancelled"
    \/ main = "stopping" /\ \/ todo = {}
                            \/ todo \cap SdkChannels # {}
                            \/ "maixcam" \in todo
                            \/ "whatsapp" \in todo /\ ~ChannelLocked("whatsapp")
    \/ main = "clearing" /\ ~ChannelLocked("maixcam")

(* A Send has a connection to write to whose peer reads. *)
WriteIsFree ==
    dispatcher.at = "writing" /\ \E k \in dispatcher.left : k \notin stalled

(* An interrupted gateway waits for nothing but a write: one that can go   *)
(* on, or one to a peer that does not read.                                *)
ShutdownGoesOn ==
    main \in {"cancelled", "stopping", "clearing"} =>
        MainIsFree \/ WriteIsFree \/ WriteBlocked

(* What main still has to do after an interrupt, a step each. *)
ToStop ==
    IF main \in {"cancelled", "stopping", "clearing"}
    THEN {<<"StopAll", "returns">>}
         \cup {<<c, "stop">> : c \in IF main = "cancelled" THEN enabled ELSE todo}
         \cup {<<c, "listener">> : c \in {"maixcam"} \cap
                  (IF main = "cancelled" THEN enabled
                   ELSE IF main = "stopping" THEN todo ELSE {})}
         \cup (IF main = "cancelled" THEN {<<"services", "stop">>} ELSE {})
    ELSE {}

(* Once the context is done a step of main leaves less to do, and no step  *)
(* of anybody else more.                                                   *)
ShutdownMovesOn ==
    [][ctxDone =>
          /\ ctxDone'
          /\ ToStop' \subseteq ToStop
          /\ Main => ToStop' # ToStop]_vars


(* After an interrupt the only thing main ever waits for is a write that   *)
(* holds a channel's lock: no other lock, no goroutine and no message can  *)
(* hold the shutdown up (main.go:681-690, manager.go:178).                 *)
THEOREM ShutdownIsNotHeldUp == Spec => []ShutdownGoesOn
<1>1. TypeInv /\ OpenInv /\ SendHoldsItsTable => ShutdownGoesOn
  <2> SUFFICES ASSUME TypeInv, SendHoldsItsTable,
                      main \in {"cancelled", "stopping", "clearing"}, ~MainIsFree
               PROVE  WriteIsFree \/ WriteBlocked
    BY DEF ShutdownGoesOn
  <2>1. todo \subseteq SdkChannels \cup LockingChannels
    BY DEF TypeInv, ProcessType, Channels
  <2>2. dispatcher.at = "writing"
    BY <2>1 DEF MainIsFree, ChannelLocked, LockingChannels
  <2>3. dispatcher.left # {}
    BY <2>2 DEF SendHoldsItsTable
  <2> QED
    BY <2>2, <2>3 DEF WriteIsFree, WriteBlocked
<1> QED
  BY <1>1, SendsHoldTheirTable, OpenInvariance, TypeInvariance, PTL

(* What there is to stop, place by place. *)
LEMMA ToStopMembers ==
  ASSUME TypeInv, OpenInv, main \in {"cancelled", "stopping", "clearing"}
  PROVE  \A x : x \in ToStop <=>
            \/ x = <<"StopAll", "returns">>
            \/ \E c \in enabled : x = <<c, "stop">> /\ (main = "cancelled" \/ c \in todo)
            \/ /\ x = <<"maixcam", "listener">> /\ main # "clearing"
               /\ "maixcam" \in enabled /\ (main = "cancelled" \/ "maixcam" \in todo)
            \/ x = <<"services", "stop">> /\ main = "cancelled"
<1>1. todo \subseteq enabled
  BY DEF TypeInv, ProcessType
<1> QED
  BY <1>1 DEF ToStop

(* Each step of the shutdown is one of a finite number that was there from *)
(* the interrupt on; nobody else undoes one.                               *)
THEOREM ShutdownComesNearer == Spec => ShutdownMovesOn
<1>1. TypeInv /\ OpenInv /\ OpenInv' /\ TypeInv' /\ [Next]_vars =>
        [ctxDone =>
          /\ ctxDone'
          /\ ToStop' \subseteq ToStop
          /\ Main => ToStop' # ToStop]_vars
  <2> SUFFICES ASSUME TypeInv, OpenInv, TypeInv', OpenInv', [Next]_vars, ctxDone
               PROVE  ctxDone' /\ ToStop' \subseteq ToStop /\ (Main => ToStop' # ToStop)
    OBVIOUS
  <2>1. main \in {"cancelled", "stopping", "clearing", "stopped"} /\ enabled \subseteq Channels
        /\ todo \subseteq enabled
    BY DEF TypeInv, ProcessType
  <2>2. ctxDone' /\ UNCHANGED enabled
    BY Monotone
  <2>3. CASE Main
    <3>1. main \in {"cancelled", "stopping", "clearing"}
      BY <2>1, <2>3 DEF Main, Boot, StartChannel, Serve, StopServices, StopSdk, StopWhatsApp,
                        StopListener, ClearClients, Stopped
    <3>2. <<"StopAll", "returns">> \in ToStop
      BY <3>1 DEF ToStop
    <3>3. CASE main' = "stopped"
      BY <2>2, <3>2, <3>3 DEF ToStop
    <3>4. ASSUME main' \in {"stopping", "clearing"}
          PROVE  \A x : x \in ToStop' <=>
                    \/ x = <<"StopAll", "returns">>
                    \/ \E c \in enabled : x = <<c, "stop">> /\ c \in todo'
                    \/ /\ x = <<"maixcam", "listener">> /\ main' # "clearing"
                       /\ "maixcam" \in enabled /\ "maixcam" \in todo'
      <4>1. todo' \subseteq enabled
        BY <2>2 DEF TypeInv, ProcessType
      <4> QED
        BY <2>2, <3>4, <4>1 DEF ToStop
    <3>5. CASE StopServices
      <4>1. main = "cancelled" /\ main' = "stopping" /\ todo' = enabled
        BY <3>5 DEF StopServices
      <4>2. <<"services", "stop">> \in ToStop /\ <<"services", "stop">> \notin ToStop'
        BY <2>1, <3>1, <3>4, <4>1, ToStopMembers DEF Channels, SdkChannels, LockingChannels
      <4> QED
        BY <2>2, <3>1, <3>4, <4>1, <4>2, ToStopMembers
    <3>6. ASSUME NEW c \in todo, main = "stopping", main' = "stopping" , todo' = todo \ {c},
                 c # "maixcam"
          PROVE  ToStop' \subseteq ToStop /\ ToStop' # ToStop
      <4>1. <<c, "stop">> \in ToStop /\ <<c, "stop">> \notin ToStop'
        BY <2>1, <3>1, <3>4, <3>6, ToStopMembers
      <4> QED
        BY <3>1, <3>4, <3>6, <4>1, ToStopMembers
    <3>7. CASE (\E c \in enabled : StopSdk(c)) \/ StopWhatsApp
      BY <2>2, <3>6, <3>7 DEF StopSdk, StopWhatsApp, SdkChannels
    <3>8. CASE StopListener
      <4>1. main = "stopping" /\ main' = "clearing" /\ todo' = todo /\ "maixcam" \in todo
        BY <3>8 DEF StopListener
      <4>2. <<"maixcam", "listener">> \in ToStop /\ <<"maixcam", "listener">> \notin ToStop'
        BY <2>1, <3>1, <3>4, <4>1, ToStopMembers
      <4> QED
        BY <2>2, <3>1, <3>4, <4>1, <4>2, ToStopMembers
    <3>9. CASE ClearClients
      <4>1. main = "clearing" /\ main' = "stopping" /\ todo' = todo \ {"maixcam"}
            /\ "maixcam" \in todo
        BY <3>9 DEF ClearClients, OpenInv
      <4>2. <<"maixcam", "stop">> \in ToStop /\ <<"maixcam", "stop">> \notin ToStop'
        BY <2>1, <3>1, <3>4, <4>1, ToStopMembers
      <4> QED
        BY <2>2, <3>1, <3>4, <4>1, <4>2, ToStopMembers
    <3> QED
      BY <2>1, <2>2, <2>3, <3>3, <3>5, <3>7, <3>8, <3>9
         DEF Main, Boot, StartChannel, Serve, Stopped, ToStop
  <2>4. CASE ~Main
    <3>1. UNCHANGED <<main, todo>>
      BY <2>1, <2>4, WhoseStep
         DEF Kill, Interrupt, SessionEnds, Publish, DispatcherOnly, ConnectionOnly, ReporterOnly, vars
    <3> QED
      BY <2>2, <2>4, <3>1 DEF ToStop
  <2> QED
    BY <2>2, <2>3, <2>4
<1> QED
  BY <1>1, OpenInvariance, TypeInvariance, PTL DEF Spec, ShutdownMovesOn

-----------------------------------------------------------------------------
(* The safety part of OutboxDrains. *)

(* The dispatcher has a step that no lock, peer or SDK holds up. *)
DispatcherIsFree ==
    \/ dispatcher.at \in {"top", "checking", "locking"}
    \/ dispatcher.at = "waiting" /\ outbox # <<>>
    \/ dispatcher.at = "looking" /\ ~ManagerLocked
    \/ WriteIsFree

(* With a message in the queue, the dispatcher of a gateway with channels  *)
(* can go on, or it waits for StartAll to release the lock, for a call of  *)
(* an SDK, or for a peer that does not read.                               *)
DispatcherGoesOn ==
    outbox # <<>> /\ enabled # {} /\ main \in {"starting", "serving"} =>
        \/ DispatcherIsFree
        \/ dispatcher.at = "looking" /\ main = "starting"
        \/ dispatcher.at = "calling"
        \/ WriteBlocked

(* A gateway with channels that starts or serves has its dispatcher. *)
DispatcherIsThere ==
    enabled # {} /\ main \in {"starting", "serving"} => dispatcher.at \notin {"off", "ended"}

LEMMA DispatcherStays == Spec => []DispatcherIsThere
<1>1. Init => DispatcherIsThere
  BY DEF Init, DispatcherIsThere
<1>2. TypeInv /\ DispatcherIsThere /\ [Next]_vars => DispatcherIsThere'
  <2> SUFFICES ASSUME TypeInv, DispatcherIsThere, [Next]_vars, enabled' # {},
                      main' \in {"starting", "serving"}
               PROVE  dispatcher'.at \notin {"off", "ended"}
    BY DEF DispatcherIsThere
  <2>1. CASE Boot
    BY <2>1 DEF Boot, TypeInv, QueueType
  <2>2. ASSUME UNCHANGED <<enabled, dispatcher>>, main \in {"starting", "serving"}
        PROVE  dispatcher'.at \notin {"off", "ended"}
    BY <2>2 DEF DispatcherIsThere
  <2>3. CASE Main /\ ~Boot
    BY <2>2, <2>3 DEF Main, StartChannel, Serve, StopServices, StopSdk, StopWhatsApp,
                      StopListener, ClearClients, Stopped, queueVars
  <2>4. CASE Kill \/ Interrupt \/ SessionEnds \/ ConnectionOnly \/ ReporterOnly \/ UNCHANGED vars
    BY <2>2, <2>4 DEF Kill, Interrupt, SessionEnds, ConnectionOnly, ReporterOnly, vars, queueVars
  <2>5. ASSUME NEW d \in Destinations, Publish(d) PROVE dispatcher'.at \notin {"off", "ended"}
    BY <2>2, <2>5 DEF Publish
  <2>6. CASE DispatcherOnly /\ (Dispatcher \/ CallReturns)
    <3>1. UNCHANGED <<enabled, main>> /\ ~DispatchDone
      BY <2>6 DEF DispatcherOnly, DispatchDone, TypeInv, ProcessType
    <3>2. dispatcher.at \notin {"off", "ended"}
      BY <3>1 DEF DispatcherIsThere
    <3> QED
      BY <2>6, <3>1, <3>2
         DEF Dispatcher, CallReturns, DispatchTop, Subscribe, SubscribeCancelled, Lookup,
             CheckRunning, LockChannel, Write, Settle, NoDispatcher, TypeInv, QueueType
  <2> QED
    BY <2>1, <2>3, <2>4, <2>5, <2>6, WhoseStep
<1> QED
  BY <1>1, <1>2, TypeInvariance, PTL DEF Spec

(* The queue is never left alone: until an interrupt the dispatcher is     *)
(* there, and it waits for nothing that it or a publisher holds            *)
(* (manager.go:147, 205-238).                                              *)
THEOREM DispatcherIsNotHeldUp == Spec => []DispatcherGoesOn
<1>1. TypeInv /\ DispatcherIsThere /\ SendHoldsItsTable => DispatcherGoesOn
  <2> SUFFICES ASSUME TypeInv, DispatcherIsThere, SendHoldsItsTable,
                      outbox # <<>>, enabled # {}, main \in {"starting", "serving"}
               PROVE  \/ DispatcherIsFree
                      \/ dispatcher.at = "looking" /\ main = "starting"
                      \/ dispatcher.at = "calling"
                      \/ WriteBlocked
    BY DEF DispatcherGoesOn
  <2>1. dispatcher.at \in {"top", "waiting", "looking"} \cup SendPlaces
    BY DEF TypeInv, QueueType, DispatcherPlaces, DispatcherIsThere
  <2>2. CASE dispatcher.at = "looking"
    BY <2>2 DEF DispatcherIsFree, ManagerLocked
  <2>3. CASE dispatcher.at = "writing"
    BY <2>3 DEF SendHoldsItsTable, DispatcherIsFree, WriteIsFree, WriteBlocked
  <2> QED
    BY <2>1, <2>2, <2>3 DEF DispatcherIsFree, SendPlaces
<1> QED
  BY <1>1, DispatcherStays, SendsHoldTheirTable, TypeInvariance, PTL

=============================================================================
