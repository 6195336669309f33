--------------------------- MODULE ChatChannelsProofs ---------------------------
(***************************************************************************)
(* Theorems about ChatChannels: its types, that a message is published to  *)
(* the agent once, that an answer is shown in the conversation of its      *)
(* message, and that on Telegram it replaces its own placeholder and finds *)
(* its own stop channel.                                                   *)
(***************************************************************************)
EXTENDS ChatChannels, SequenceTheorems, FiniteSetTheorems, TLAPS

(***************************************************************************)
(* TypeOK in the parts that the steps touch, with the places that each     *)
(* kind of channel has.                                                    *)
(***************************************************************************)
EventType ==
    /\ kind \in DOMAIN Bound
    /\ events \in Seq(Shapes) /\ Len(events) <= Bound[kind]
    /\ \A i \in Numbers : events[i].in = Device <=> kind = "maixcam"

PlacesOf(k) ==
    CASE k = "telegram" -> {"idle", "thinking", "placing", "keeping", "publishing"}
      [] k = "qq"       -> {"idle", "filtering", "publishing"}
      [] k = "dingtalk" -> {"idle", "storing", "publishing"}
      [] OTHER          -> {"idle", "publishing"}

HandlerStates == [at : HandlerPlaces, id : Numbers \cup {0}]

HandlerOK(h) == (h.at = "idle" <=> h.id = 0) /\ h.at \in PlacesOf(kind)

DeliveryType == undelivered \in [Numbers -> 0 .. IF kind = "qq" THEN Copies ELSE 1]

HandlerType ==
    /\ handler \in [Threads -> HandlerStates]
    /\ \A t \in Threads : HandlerOK(handler[t])

InboxType ==
    /\ inbox \in Seq(Numbers) /\ Len(inbox) <= InCap
    /\ published \in Seq(Numbers)

Texts == [about : Numbers \cup {0}, to : Chats]

SenderStates ==
    [at : SendPlaces, about : Numbers \cup {0}, to : Chats \cup {None},
     held : Numbers \cup {None}]

SenderOK(s) ==
    /\ s.at # "idle" <=> s.to # None
    /\ s.at = "idle" => s.about = 0
    /\ s.at \in {"taking", "editing"} => s.held # None
    /\ kind # "telegram" => s.at \in {"idle", "sending"}

SettledTexts ==
    [about : Numbers \cup {0}, shown : Chats \cup {Nowhere, None, "lost"},
     in : Numbers \cup {None}]

OutType ==
    /\ outbox \in Seq(Texts) /\ Len(outbox) <= OutCap
    /\ notices \in 0 .. MaxNotices
    /\ sender \in SenderStates /\ SenderOK(sender)
    /\ settled \in Seq(SettledTexts)

FilterType ==
    /\ processed \subseteq Numbers /\ Cardinality(processed) <= Limit
    /\ forgotten \subseteq Numbers

MapType ==
    /\ webhooks \in [Chats -> Conversations \cup {None}]
    /\ thinking \in [Chats -> Numbers \cup {None}]
    /\ placeholders \in [Chats -> Numbers \cup {None}]
    /\ closed \subseteq Numbers /\ crowded \subseteq Numbers /\ midStop \subseteq Numbers
    /\ display \in [Numbers -> {None, "thinking", "answer"}]
    /\ animation \in [Numbers -> {"none", "waiting", "editing", "ended"}]

TypeInv ==
    EventType /\ DeliveryType /\ HandlerType /\ InboxType /\ OutType /\ FilterType /\ MapType

(***************************************************************************)
(* One publication.  A handler that has come past the filter has its       *)
(* message to itself; QQ knows the identifier of such a message, or has    *)
(* evicted it, and the other platforms do not deliver it again.            *)
(***************************************************************************)
IsPublished(i) == \E k \in DOMAIN published : published[k] = i

Passed(t) == handler[t].at \notin {"idle", "filtering"}

OneHandler ==
    /\ \A t, u \in Threads :
         t # u /\ Passed(t) /\ Passed(u) /\ handler[t].id = handler[u].id
           => handler[t].id \in forgotten
    /\ \A t \in Threads :
         Passed(t) /\ IsPublished(handler[t].id) => handler[t].id \in forgotten

Known(i) == IF kind = "qq" THEN i \in processed \cup forgotten ELSE undelivered[i] = 0

AllKnown ==
    /\ kind # "qq" => forgotten = {}
    /\ \A t \in Threads : Passed(t) => Known(handler[t].id)
    /\ \A k \in DOMAIN published : Known(published[k])

PathInv == OneHandler /\ AllKnown /\ PublishedOnce

(***************************************************************************)
(* The way back.  What is about a message has the chat of that message; a  *)
(* webhook leads to the chat it is stored under, or for the empty          *)
(* identifier to that of an unaddressed message, and is there from before  *)
(* the publication; and what QQ lets through has an author.                *)
(***************************************************************************)
Homeward(about, to) == about # 0 => IsPublished(about) /\ to = ChatOf(about)

LeadsHome(c, webhook) ==
    \/ webhook \in {c, None}
    \/ c = NoUser /\ \E j \in Numbers : Unaddressed(j) /\ webhook = events[j].in

(* The message can be answered. *)
Answerable(i) ==
    /\ kind = "dingtalk" => webhooks[ChatOf(i)] # None
    /\ kind = "qq" => events[i].from # NoUser

WebhookInv ==
    /\ \A c \in Chats : LeadsHome(c, webhooks[c])
    /\ \A t \in Threads : handler[t].at = "publishing" => Answerable(handler[t].id)
    /\ \A k \in DOMAIN published : Answerable(published[k])

RouteInv ==
    /\ \A k \in DOMAIN inbox : IsPublished(inbox[k])
    /\ \A k \in DOMAIN outbox : Homeward(outbox[k].about, outbox[k].to)
    /\ Homeward(sender.about, sender.to)
    /\ \A s \in DOMAIN settled : settled[s].about # 0 => IsPublished(settled[s].about)

(***************************************************************************)
(* On Telegram a message is answered once: it is in one place on its way.  *)
(***************************************************************************)
Settled(rep) == {rep[s].about : s \in DOMAIN rep}

InOnePlace(in, out, cur, rep) ==
    /\ \A j, k \in DOMAIN in : j # k => in[j] # in[k]
    /\ \A j, k \in DOMAIN out : j # k /\ out[j].about # 0 => out[j].about # out[k].about
    /\ \A j \in DOMAIN in : \A k \in DOMAIN out : in[j] # out[k].about
    /\ \A j \in DOMAIN in : in[j] # cur /\ in[j] \notin Settled(rep)
    /\ \A k \in DOMAIN out :
         out[k].about # 0 => out[k].about # cur /\ out[k].about \notin Settled(rep)
    /\ cur # 0 => cur \notin Settled(rep)

AnswerInv == kind = "telegram" => InOnePlace(inbox, outbox, sender.about, settled)

(***************************************************************************)
(* Placeholders on Telegram.  Of two messages of one chat that are both    *)
(* under way, the later one has found the earlier one waiting, so both are *)
(* crowded; a placeholder that is kept is that of a message under way.     *)
(***************************************************************************)
Allowed(i) == IsAllowed(kind, events[i])

Started(i) ==
    \/ IsPublished(i)
    \/ \E t \in Threads :
         handler[t].id = i /\ handler[t].at \in {"placing", "keeping", "publishing"}

UnderWay(i) == Started(i) /\ Allowed(i) /\ ~Answered(i)

CrowdInv ==
    kind = "telegram" =>
        /\ \A t \in Threads : handler[t].at # "idle" => ~Dropped(kind, events[handler[t].id])
        /\ \A k \in DOMAIN published :
             Allowed(published[k]) /\ ~Dropped(kind, events[published[k]])
        /\ \A i, j \in Numbers :
             i # j /\ events[i].in = events[j].in /\ UnderWay(i) /\ UnderWay(j) => i \in crowded

PlaceholderInv ==
    kind = "telegram" =>
        /\ \A c \in Chats : placeholders[c] # None =>
             /\ events[placeholders[c]].in = c
             /\ ~Answered(placeholders[c])
             /\ Allowed(placeholders[c]) => Started(placeholders[c])
        /\ sender.about # 0 /\ sender.at \in {"editing", "sending"}
             => placeholders[sender.to] # sender.about
        /\ sender.about # 0 /\ sender.at \in {"taking", "editing"}
             => \/ sender.held = sender.about
                \/ sender.about \in crowded
                \/ ~Allowed(sender.held)

-----------------------------------------------------------------------------
(* Messages, chats and queues.                                             *)

LEMMA Constants ==
  /\ None \notin Chats /\ None \notin Nat /\ Conversations \subseteq Chats
  /\ NoUser \in Chats /\ NoUser \notin Conversations
  /\ DOMAIN Bound \subseteq Kinds /\ \A k \in DOMAIN Bound : Bound[k] \in Nat
  /\ InCap \in Nat \ {0} /\ OutCap \in Nat \ {0} /\ Copies \in Nat /\ MaxNotices \in Nat
  /\ Limit \in Nat \ {0} /\ Half \in 1 .. Limit
  BY ChatAssumption, AdaptersAssumption DEF Chats, Conversations

(* An answer goes to the conversation the message was written in, if on QQ *)
(* and DingTalk the author of a private one is known.                      *)
LEMMA AddressIsConversation ==
  ASSUME NEW k \in Kinds, NEW e \in Shapes, e.in = Device <=> k = "maixcam"
  PROVE  /\ e.in \in Conversations
         /\ \/ Address(k, e) = e.in
            \/ /\ k \in {"qq", "dingtalk"} /\ e.in \in Users /\ e.from = NoUser
               /\ Address(k, e) = NoUser
<1>1. e.in \in Conversations /\ (e.in \in Users => e.from \in {e.in, NoUser})
  BY ChatAssumption DEF Events
<1>2. CASE k \in {"qq", "dingtalk"}
  <2>1. e.in \in Groups \/ (e.in \notin Groups /\ e.in \in Users)
    BY <1>1, <1>2 DEF Conversations
  <2> QED
    BY <1>1, <1>2, <2>1 DEF Address
<1>3. CASE k = "maixcam"
  BY <1>1, <1>3 DEF Address
<1>4. CASE k \in Kinds \ {"qq", "dingtalk", "maixcam"}
  BY <1>1, <1>4 DEF Address
<1> QED
  BY <1>1, <1>2, <1>3, <1>4

LEMMA EventFacts ==
  ASSUME EventType
  PROVE  /\ kind \in Kinds /\ Bound[kind] \in Nat /\ Len(events) \in Nat
         /\ \A i \in Numbers : /\ i \in Nat \ {0} /\ i # None
                               /\ events[i] \in Shapes
                               /\ events[i].in \in Conversations /\ events[i].in \in Chats
                               /\ ChatOf(i) \in Chats /\ ChatOf(i) # None
                               /\ \/ ChatOf(i) = events[i].in
                                  \/ /\ kind \in {"qq", "dingtalk"} /\ events[i].in \in Users
                                     /\ events[i].from = NoUser /\ ChatOf(i) = NoUser
         /\ 0 \notin Numbers /\ None \notin Numbers
<1>1. kind \in Kinds /\ Bound[kind] \in Nat
  BY Constants DEF EventType
<1>2. Len(events) \in Nat /\ Numbers \subseteq Nat \ {0}
  BY LenProperties DEF EventType, Numbers
<1>3. ASSUME NEW i \in Numbers PROVE events[i] \in Shapes
  BY LenProperties, ElementOfSeq DEF EventType, Numbers
<1>4. ASSUME NEW i \in Numbers
      PROVE  /\ events[i].in \in Conversations
             /\ \/ ChatOf(i) = events[i].in
                \/ /\ kind \in {"qq", "dingtalk"} /\ events[i].in \in Users
                   /\ events[i].from = NoUser /\ ChatOf(i) = NoUser
  BY <1>1, <1>3, AddressIsConversation DEF EventType, ChatOf
<1> QED
  BY <1>1, <1>2, <1>3, <1>4, Constants

LEMMA AppendType ==
  ASSUME NEW S, NEW q \in Seq(S), NEW e \in S
  PROVE  /\ Append(q, e) \in Seq(S) /\ Len(Append(q, e)) = Len(q) + 1 /\ Len(q) \in Nat
         /\ DOMAIN q = 1 .. Len(q) /\ DOMAIN Append(q, e) = 1 .. Len(q) + 1
         /\ \A i \in DOMAIN q : Append(q, e)[i] = q[i]
         /\ Append(q, e)[Len(q) + 1] = e
<1>1. DOMAIN Append(q, e) = 1 .. Len(Append(q, e))
  BY AppendProperties, LenProperties
<1> QED
  BY <1>1, AppendProperties, LenProperties

(* What a queue holds after one more entry. *)
LEMMA AppendEntries ==
  ASSUME NEW S, NEW q \in Seq(S), NEW e \in S, NEW i \in DOMAIN Append(q, e)
  PROVE  \/ i \in DOMAIN q /\ i # Len(q) + 1 /\ Append(q, e)[i] = q[i]
         \/ i = Len(q) + 1 /\ Append(q, e)[i] = e
  BY AppendType

LEMMA TailType ==
  ASSUME NEW S, NEW q \in Seq(S), q # <<>>
  PROVE  /\ Head(q) \in S /\ Head(q) = q[1] /\ 1 \in DOMAIN q
         /\ Tail(q) \in Seq(S) /\ Len(Tail(q)) = Len(q) - 1 /\ Len(q) \in Nat
         /\ Len(Tail(q)) <= Len(q)
<1>1. Len(q) \in Nat \ {0} /\ DOMAIN q = 1 .. Len(q)
  BY EmptySeq, LenProperties
<1>2. Head(q) \in S /\ Tail(q) \in Seq(S) /\ Len(Tail(q)) = Len(q) - 1
  BY HeadTailProperties
<1>3. Head(q) = q[1]
  OBVIOUS
<1> QED
  BY <1>1, <1>2, <1>3

LEMMA TailEntries ==
  ASSUME NEW S, NEW q \in Seq(S), q # <<>>, NEW i \in DOMAIN Tail(q)
  PROVE  i \in Nat /\ i + 1 \in DOMAIN q /\ i + 1 # 1 /\ Tail(q)[i] = q[i + 1]
<1>1. Len(q) \in Nat /\ DOMAIN q = 1 .. Len(q) /\ Len(Tail(q)) = Len(q) - 1
  BY TailType, LenProperties
<1>2. DOMAIN Tail(q) = 1 .. Len(q) - 1
  BY <1>1, TailType, LenProperties
<1>3. Tail(q)[i] = q[i + 1]
  BY <1>1, <1>2, HeadTailProperties
<1> QED
  BY <1>1, <1>2, <1>3

LEMMA SeqMonotone ==
  ASSUME NEW S, NEW T, S \subseteq T
  PROVE  Seq(S) \subseteq Seq(T)
  OBVIOUS

(* One more entry in a table with an entry for every message. *)
LEMMA AppendTable ==
  ASSUME NEW S, NEW n \in Nat, NEW f \in [1 .. n -> S], NEW e \in S
  PROVE  /\ Append(f, e) \in [1 .. n + 1 -> S]
         /\ \A i \in 1 .. n : Append(f, e)[i] = f[i]
         /\ Append(f, e)[n + 1] = e
<1>1. f \in Seq(S) /\ Len(f) = n
  BY LenProperties
<1>2. /\ Append(f, e) \in Seq(S) /\ DOMAIN Append(f, e) = 1 .. n + 1 /\ DOMAIN f = 1 .. n
      /\ \A i \in DOMAIN f : Append(f, e)[i] = f[i]
      /\ Append(f, e)[n + 1] = e
  BY <1>1, AppendType
<1>3. Append(f, e) \in [1 .. n + 1 -> S]
  BY <1>1, <1>2, AppendProperties, LenProperties
<1> QED
  BY <1>2, <1>3

-----------------------------------------------------------------------------
(* Steps of a handler.                                                     *)

LEMMA UnchangedEvents ==
  ASSUME UNCHANGED <<kind, events>>
  PROVE  /\ Numbers' = Numbers /\ Threads' = Threads /\ HandlerStates' = HandlerStates
         /\ EventType => EventType'
         /\ \A i : ChatOf(i)' = ChatOf(i) /\ Allowed(i)' = Allowed(i)
  BY DEF Numbers, Threads, HandlerStates, EventType, ChatOf, Allowed

LEMMA HandlerFacts ==
  ASSUME TypeInv, NEW t \in Threads
  PROVE  /\ handler \in [Threads -> HandlerStates] /\ handler[t] \in HandlerStates
         /\ handler[t].at # "idle" => handler[t].id \in Numbers
         /\ handler[t].at = "idle" => handler[t].id = 0
         /\ handler[t].at \in PlacesOf(kind)
  BY DEF TypeInv, HandlerType, HandlerStates, HandlerOK

LEMMA HandlerUpdate ==
  ASSUME TypeInv, NEW t \in Threads, NEW h \in HandlerStates, HandlerOK(h),
         handler' = [handler EXCEPT ![t] = h], UNCHANGED <<kind, events>>
  PROVE  /\ HandlerType' /\ handler'[t] = h
         /\ \A u \in Threads \ {t} : handler'[u] = handler[u]
<1>1. handler \in [Threads -> HandlerStates]
  BY HandlerFacts
<1>2. /\ handler' \in [Threads -> HandlerStates] /\ handler'[t] = h
      /\ \A u \in Threads \ {t} : handler'[u] = handler[u]
  BY <1>1
<1>3. \A u \in Threads : /\ handler'[u].at = "idle" <=> handler'[u].id = 0
                         /\ handler'[u].at \in PlacesOf(kind)
  BY <1>2 DEF TypeInv, HandlerType, HandlerOK
<1>4. Threads' = Threads /\ HandlerStates' = HandlerStates /\ kind' = kind
  BY UnchangedEvents
<1> QED
  BY <1>2, <1>3, <1>4 DEF HandlerType, HandlerOK

LEMMA ReturnEffect ==
  ASSUME TypeInv, NEW t \in Threads, Return(t), UNCHANGED <<kind, events>>
  PROVE  /\ HandlerType' /\ handler'[t].at = "idle" /\ handler'[t].id = 0
         /\ \A u \in Threads \ {t} : handler'[u] = handler[u]
<1>1. Idle \in HandlerStates /\ Idle.at = "idle" /\ Idle.id = 0
  BY DEF Idle, HandlerStates, HandlerPlaces
<1>2. HandlerOK(Idle)
  BY <1>1 DEF HandlerOK, PlacesOf
<1>3. handler' = [handler EXCEPT ![t] = Idle]
  BY DEF Return
<1> QED
  BY <1>1, <1>2, <1>3, HandlerUpdate

LEMMA GotoEffect ==
  ASSUME TypeInv, NEW t \in Threads, handler[t].at # "idle",
         NEW place \in HandlerPlaces \ {"idle"}, place \in PlacesOf(kind),
         Goto(t, place), UNCHANGED <<kind, events>>
  PROVE  /\ HandlerType' /\ handler'[t].at = place /\ handler'[t].id = handler[t].id
         /\ \A u \in Threads \ {t} : handler'[u] = handler[u]
<1> DEFINE h == [handler[t] EXCEPT !.at = place]
<1>1. handler' = [handler EXCEPT ![t] = h]
  BY DEF Goto
<1>2. h \in HandlerStates /\ h.at = place /\ h.id = handler[t].id /\ h.id # 0
  <2>1. handler[t] \in HandlerStates /\ handler[t].id \in Numbers /\ 0 \notin Numbers
    BY HandlerFacts, EventFacts DEF TypeInv
  <2> QED
    BY <2>1 DEF HandlerStates
<1> HIDE DEF h
<1>3. HandlerOK(h)
  BY <1>2 DEF HandlerOK
<1> QED
  BY <1>1, <1>2, <1>3, HandlerUpdate

(* The SDK hands over a message; a handler that takes it is at the first   *)
(* place of its channel.                                                   *)
LEMMA ReceiveEffect ==
  ASSUME TypeInv, NEW t \in Threads, Receive(t)
  PROVE  \E i \in Numbers :
           /\ undelivered[i] > 0 /\ undelivered' = [undelivered EXCEPT ![i] = undelivered[i] - 1]
           /\ HandlerType'
           /\ \A u \in Threads \ {t} : handler'[u] = handler[u]
           /\ \/ handler' = handler
              \/ /\ handler'[t].id = i /\ handler'[t].at # "idle"
                 /\ handler'[t].at \notin {"placing", "keeping"}
                 /\ handler'[t].at = "filtering" <=> kind = "qq"
                 /\ handler'[t].at = "publishing" => kind \notin {"dingtalk", "telegram"}
                 /\ kind # "qq" => ~Dropped(kind, events[i])
<1>1. PICK i \in Numbers :
        /\ undelivered[i] > 0 /\ undelivered' = [undelivered EXCEPT ![i] = @ - 1]
        /\ handler' =
              IF kind # "qq" /\ Dropped(kind, events[i]) THEN handler
              ELSE [handler EXCEPT ![t] =
                       [id |-> i, at |-> CASE kind = "telegram" -> "thinking"
                                           [] kind = "qq"       -> "filtering"
                                           [] kind = "dingtalk" -> "storing"
                                           [] OTHER             -> "publishing"]]
  BY DEF Receive
<1>2. UNCHANGED <<kind, events>>
  BY DEF Receive, HandlerStep
<1> DEFINE first == CASE kind = "telegram" -> "thinking"
                      [] kind = "qq"       -> "filtering"
                      [] kind = "dingtalk" -> "storing"
                      [] OTHER             -> "publishing"
           h == [id |-> i, at |-> first]
<1>3. /\ first \in HandlerPlaces \ {"idle", "placing", "keeping"} /\ first \in PlacesOf(kind)
      /\ first = "filtering" <=> kind = "qq"
      /\ first = "publishing" => kind \notin {"dingtalk", "telegram"}
  BY DEF HandlerPlaces, PlacesOf
<1> HIDE DEF first
<1>4. h \in HandlerStates /\ HandlerOK(h) /\ h.id = i /\ h.at = first
  <2>1. i # 0
    BY EventFacts DEF TypeInv
  <2>2. h \in HandlerStates /\ h.id = i /\ h.at = first
    BY <1>3 DEF HandlerStates
  <2> HIDE DEF h
  <2> QED
    BY <1>3, <2>1, <2>2 DEF HandlerOK
<1>5. CASE kind # "qq" /\ Dropped(kind, events[i])
  <2>1. handler' = handler
    BY <1>1, <1>5
  <2>2. HandlerType'
    BY <1>2, <2>1 DEF TypeInv, HandlerType, HandlerOK, HandlerStates, Threads, Numbers
  <2> QED
    BY <1>1, <2>1, <2>2
<1>6. CASE ~(kind # "qq" /\ Dropped(kind, events[i]))
  <2>1. handler' = [handler EXCEPT ![t] = h]
    BY <1>1, <1>6 DEF first
  <2> HIDE DEF h
  <2>2. /\ HandlerType' /\ handler'[t] = h
        /\ \A u \in Threads \ {t} : handler'[u] = handler[u]
    BY <1>2, <1>4, <2>1, HandlerUpdate
  <2> QED
    BY <1>1, <1>3, <1>4, <1>6, <2>2
<1> QED
  BY <1>5, <1>6

(* A set that goes over the limit is cut to at most the limit. *)
LEMMA RememberEffect ==
  ASSUME EventType, FilterType, NEW i \in Numbers, i \notin processed,
         Remember(processed \cup {i}), UNCHANGED events
  PROVE  /\ FilterType'
         /\ processed' \cup forgotten' = processed \cup forgotten \cup {i}
         /\ forgotten \subseteq forgotten'
<1> DEFINE seen == processed \cup {i}
<1>1. IsFiniteSet(processed)
  <2>1. IsFiniteSet(Numbers)
    BY EventFacts, FS_Interval DEF Numbers
  <2> QED
    BY <2>1, FS_Subset DEF FilterType
<1>2. /\ IsFiniteSet(seen) /\ Cardinality(seen) = Cardinality(processed) + 1
      /\ Cardinality(processed) \in Nat /\ Cardinality(processed) <= Limit
  BY <1>1, FS_AddElement, FS_CardinalityType DEF FilterType
<1>3. PICK evicted \in IF Cardinality(seen) > Limit THEN kSubset(Half, seen) ELSE {{}} :
        processed' = seen \ evicted /\ forgotten' = forgotten \cup evicted
  BY DEF Remember
<1>4. evicted \subseteq seen /\ Cardinality(processed') <= Limit
  <2>1. CASE Cardinality(seen) > Limit
    <3>1. evicted \in SUBSET seen /\ Cardinality(evicted) = Half
      BY <1>3, <2>1 DEF kSubset
    <3>2. PICK e \in evicted : TRUE
      <4>1. evicted # {}
        BY <3>1, FS_EmptySet, Constants
      <4> QED
        BY <4>1
    <3>3. processed' \in SUBSET (seen \ {e}) /\ e \in seen
      BY <1>3, <3>1, <3>2
    <3>4. IsFiniteSet(seen \ {e}) /\ Cardinality(seen \ {e}) = Cardinality(seen) - 1
      BY <1>2, <3>3, FS_RemoveElement
    <3>5. Cardinality(processed') <= Cardinality(seen \ {e})
      BY <3>3, <3>4, FS_Subset
    <3>6. Cardinality(processed') \in Nat
      BY <3>3, <3>4, FS_Subset, FS_CardinalityType
    <3> HIDE DEF seen
    <3> QED
      BY <1>2, <3>1, <3>4, <3>5, <3>6, Constants
  <2>2. CASE ~(Cardinality(seen) > Limit)
    <3>1. evicted = {} /\ processed' = seen
      BY <1>3, <2>2
    <3> HIDE DEF seen
    <3> QED
      BY <1>2, <2>2, <3>1, Constants
  <2> QED
    BY <2>1, <2>2
<1>5. Numbers' = Numbers /\ seen \subseteq Numbers
  BY DEF Numbers, FilterType
<1>6. FilterType'
  BY <1>3, <1>4, <1>5 DEF FilterType
<1> QED
  BY <1>3, <1>4, <1>6

LEMMA FilterEffect ==
  ASSUME TypeInv, NEW t \in Threads, Filter(t)
  PROVE  LET i == handler[t].id
         IN  /\ i \in Numbers /\ kind = "qq"
             /\ FilterType' /\ HandlerType'
             /\ \A u \in Threads \ {t} : handler'[u] = handler[u]
             /\ forgotten \subseteq forgotten'
             /\ processed \cup forgotten \subseteq processed' \cup forgotten'
             /\ \/ handler'[t].at = "idle"
                \/ /\ handler'[t].at = "publishing" /\ handler'[t].id = i
                   /\ i \notin processed /\ i \in processed' \cup forgotten'
                   /\ ~Dropped(kind, events[i])
<1> DEFINE i == handler[t].id
<1>1. handler[t].at = "filtering" /\ UNCHANGED <<kind, events>>
  BY DEF Filter, HandlerStep
<1>2. i \in Numbers /\ kind = "qq"
  <2>1. "filtering" \in PlacesOf(kind)
    BY <1>1, HandlerFacts
  <2> QED
    BY <1>1, <2>1, HandlerFacts DEF PlacesOf
<1>3. CASE i \in processed
  <2>1. Return(t) /\ UNCHANGED <<processed, forgotten>>
    BY <1>3 DEF Filter
  <2>2. FilterType'
    BY <1>1, <2>1, UnchangedEvents DEF TypeInv, FilterType
  <2> QED
    BY <1>1, <1>2, <2>1, <2>2, ReturnEffect
<1>4. CASE i \notin processed
  <2>1. /\ Remember(processed \cup {i})
        /\ IF Dropped(kind, events[i]) THEN Return(t) ELSE Goto(t, "publishing")
    BY <1>4 DEF Filter
  <2>2. /\ FilterType'
        /\ processed' \cup forgotten' = processed \cup forgotten \cup {i}
        /\ forgotten \subseteq forgotten'
    BY <1>1, <1>2, <1>4, <2>1, RememberEffect DEF TypeInv
  <2>3. CASE Return(t)
    BY <1>1, <1>2, <2>2, <2>3, ReturnEffect
  <2>4. CASE Goto(t, "publishing") /\ ~Dropped(kind, events[i])
    <3>1. "publishing" \in PlacesOf(kind) /\ "publishing" \in HandlerPlaces \ {"idle"}
      BY <1>2 DEF PlacesOf, HandlerPlaces
    <3>2. /\ HandlerType' /\ handler'[t].at = "publishing" /\ handler'[t].id = i
          /\ \A u \in Threads \ {t} : handler'[u] = handler[u]
      BY <1>1, <2>4, <3>1, GotoEffect
    <3> HIDE DEF i
    <3> QED
      BY <1>2, <1>4, <2>2, <2>4, <3>2 DEF i
  <2> QED
    BY <2>1, <2>3, <2>4
<1> QED
  BY <1>3, <1>4

LEMMA SameTypes ==
  ASSUME TypeInv, UNCHANGED <<kind, events>>
  PROVE  /\ EventType'
         /\ UNCHANGED undelivered => DeliveryType'
         /\ UNCHANGED handler => HandlerType'
         /\ UNCHANGED <<inbox, published>> => InboxType'
         /\ UNCHANGED <<outbox, notices, sender, settled>> => OutType'
         /\ UNCHANGED <<processed, forgotten>> => FilterType'
         /\ UNCHANGED <<webhooks, thinking, placeholders, closed, crowded, midStop, display, animation>>
              => MapType'
<1>1. EventType' /\ (UNCHANGED undelivered => DeliveryType')
  BY UnchangedEvents DEF TypeInv, DeliveryType
<1>2. UNCHANGED handler => HandlerType'
  BY DEF TypeInv, HandlerType, HandlerOK, HandlerStates, Threads, Numbers
<1>3. UNCHANGED <<inbox, published>> => InboxType'
  BY UnchangedEvents DEF TypeInv, InboxType
<1>4. UNCHANGED <<outbox, notices, sender, settled>> => OutType'
  BY DEF TypeInv, OutType, Texts, SettledTexts, SenderStates, SenderOK, Numbers
<1>5. UNCHANGED <<processed, forgotten>> => FilterType'
  BY UnchangedEvents DEF TypeInv, FilterType
<1>6. UNCHANGED <<webhooks, thinking, placeholders, closed, crowded, midStop, display, animation>>
        => MapType'
  BY UnchangedEvents DEF TypeInv, MapType
<1> QED
  BY <1>1, <1>2, <1>3, <1>4, <1>5, <1>6

LEMMA PlaceKinds ==
  ASSUME TypeInv, NEW t \in Threads
  PROVE  /\ handler[t].at \in {"thinking", "placing", "keeping"} => kind = "telegram"
         /\ handler[t].at = "storing" => kind = "dingtalk"
         /\ handler[t].at = "filtering" => kind = "qq"
  BY HandlerFacts DEF PlacesOf

(* The other steps of a handler go on to a place of its channel or return. *)
LEMMA StoreWebhookEffect ==
  ASSUME TypeInv, NEW t \in Threads, StoreWebhook(t)
  PROVE  /\ kind = "dingtalk" /\ handler[t].id \in Numbers
         /\ HandlerType' /\ handler'[t].at = "publishing" /\ handler'[t].id = handler[t].id
         /\ \A u \in Threads \ {t} : handler'[u] = handler[u]
         /\ webhooks' = [webhooks EXCEPT ![ChatOf(handler[t].id)] = events[handler[t].id].in]
<1>1. handler[t].at = "storing" /\ UNCHANGED <<kind, events>> /\ Goto(t, "publishing")
  BY DEF StoreWebhook, HandlerStep
<1>2. kind = "dingtalk" /\ handler[t].id \in Numbers
  BY <1>1, PlaceKinds, HandlerFacts
<1>3. "publishing" \in PlacesOf(kind) /\ "publishing" \in HandlerPlaces \ {"idle"}
  BY <1>2 DEF PlacesOf, HandlerPlaces
<1>4. webhooks' = [webhooks EXCEPT ![ChatOf(handler[t].id)] = events[handler[t].id].in]
  BY DEF StoreWebhook
<1> QED
  BY <1>1, <1>2, <1>3, <1>4, GotoEffect

LEMMA TelegramEffect ==
  ASSUME TypeInv, NEW t \in Threads,
         StartThinking(t) \/ SendPlaceholder(t) \/ KeepPlaceholder(t)
  PROVE  /\ kind = "telegram" /\ handler[t].id \in Numbers
         /\ handler[t].at \in {"thinking", "placing", "keeping"}
         /\ HandlerType' /\ handler'[t].id = handler[t].id
         /\ handler'[t].at \in {"placing", "keeping", "publishing"}
         /\ StartThinking(t) => handler'[t].at = "placing"
         /\ KeepPlaceholder(t) => handler'[t].at = "publishing"
         /\ \A u \in Threads \ {t} : handler'[u] = handler[u]
<1>1. UNCHANGED <<kind, events>> /\ handler[t].at \in {"thinking", "placing", "keeping"}
  BY DEF StartThinking, SendPlaceholder, KeepPlaceholder, HandlerStep
<1>2. kind = "telegram" /\ handler[t].id \in Numbers
  BY <1>1, PlaceKinds, HandlerFacts
<1>3. /\ {"placing", "keeping", "publishing"} \subseteq PlacesOf(kind)
      /\ {"placing", "keeping", "publishing"} \subseteq HandlerPlaces \ {"idle"}
  BY <1>2 DEF PlacesOf, HandlerPlaces
<1>4. PICK place \in {"placing", "keeping", "publishing"} :
        /\ Goto(t, place)
        /\ StartThinking(t) => place = "placing"
        /\ KeepPlaceholder(t) => place = "publishing"
  BY DEF StartThinking, SendPlaceholder, KeepPlaceholder, HandlerStep
<1>5. /\ HandlerType' /\ handler'[t].at = place /\ handler'[t].id = handler[t].id
      /\ \A u \in Threads \ {t} : handler'[u] = handler[u]
  BY <1>1, <1>3, <1>4, GotoEffect
<1> QED
  BY <1>1, <1>2, <1>4, <1>5

LEMMA HandleMessageEffect ==
  ASSUME TypeInv, NEW t \in Threads, HandleMessage(t)
  PROVE  /\ handler[t].at = "publishing" /\ handler[t].id \in Numbers
         /\ HandlerType' /\ handler'[t].at = "idle" /\ handler'[t].id = 0
         /\ \A u \in Threads \ {t} : handler'[u] = handler[u]
         /\ \/ /\ Allowed(handler[t].id) /\ Len(inbox) < InCap
               /\ inbox' = Append(inbox, handler[t].id)
               /\ published' = Append(published, handler[t].id)
            \/ ~Allowed(handler[t].id) /\ UNCHANGED <<inbox, published>>
<1>1. handler[t].at = "publishing" /\ UNCHANGED <<kind, events>> /\ Return(t)
  BY DEF HandleMessage, HandlerStep
<1>2. \/ /\ Allowed(handler[t].id) /\ Len(inbox) < InCap
         /\ inbox' = Append(inbox, handler[t].id)
         /\ published' = Append(published, handler[t].id)
      \/ ~Allowed(handler[t].id) /\ UNCHANGED <<inbox, published>>
  BY DEF HandleMessage, Allowed
<1> QED
  BY <1>1, <1>2, ReturnEffect, HandlerFacts

-----------------------------------------------------------------------------
(* Types.                                                                  *)

LEMMA HandlerKeepsTypes ==
  ASSUME TypeInv, NEW t \in Threads, Handler(t)
  PROVE  TypeInv'
<1>1. UNCHANGED <<kind, events, outVars>>
  BY DEF Handler, Receive, Filter, StoreWebhook, StartThinking, SendPlaceholder, KeepPlaceholder,
         HandleMessage, HandlerStep
<1>2. UNCHANGED <<kind, events>> /\ UNCHANGED <<outbox, notices, sender, settled>>
  BY <1>1 DEF outVars
<1>3. EventType' /\ OutType' /\ Numbers' = Numbers
  BY <1>2, SameTypes, UnchangedEvents
<1>4. CASE Receive(t)
  <2>1. UNCHANGED <<inbox, published, processed, forgotten, webhooks, thinking, placeholders,
                    closed, display, animation, crowded, midStop>>
    BY <1>4 DEF Receive, telegramVars
  <2>2. PICK i \in Numbers :
          /\ undelivered[i] > 0 /\ undelivered' = [undelivered EXCEPT ![i] = undelivered[i] - 1]
          /\ HandlerType'
    BY <1>4, ReceiveEffect
  <2>3. DeliveryType'
    <3> DEFINE most == IF kind = "qq" THEN Copies ELSE 1
    <3>1. undelivered \in [Numbers -> 0 .. most] /\ most \in Nat
      BY Constants DEF TypeInv, DeliveryType
    <3> HIDE DEF most
    <3>2. undelivered[i] - 1 \in 0 .. most
      BY <2>2, <3>1
    <3>3. undelivered' \in [Numbers -> 0 .. most]
      BY <2>2, <3>1, <3>2
    <3> QED
      BY <1>2, <1>3, <3>3 DEF DeliveryType, most
  <2> QED
    BY <1>2, <1>3, <2>1, <2>2, <2>3, SameTypes DEF TypeInv
<1>5. CASE Filter(t)
  <2>1. UNCHANGED <<undelivered, inbox, published, webhooks, thinking, placeholders,
                    closed, display, animation, crowded, midStop>>
    BY <1>5 DEF Filter, telegramVars
  <2>2. FilterType' /\ HandlerType'
    BY <1>5, FilterEffect
  <2> QED
    BY <1>2, <1>3, <2>1, <2>2, SameTypes DEF TypeInv
<1>6. CASE StoreWebhook(t)
  <2>1. UNCHANGED <<undelivered, inbox, published, processed, forgotten, thinking, placeholders,
                    closed, display, animation, crowded, midStop>>
    BY <1>6 DEF StoreWebhook, telegramVars
  <2>2. MapType'
    BY <1>3, <1>6, <2>1, StoreWebhookEffect, EventFacts DEF TypeInv, MapType
  <2> QED
    BY <1>2, <1>3, <1>6, <2>1, <2>2, SameTypes, StoreWebhookEffect DEF TypeInv
<1>7. CASE StartThinking(t) \/ SendPlaceholder(t) \/ KeepPlaceholder(t)
  <2>1. UNCHANGED <<undelivered, inbox, published, processed, forgotten, webhooks>>
    BY <1>7 DEF StartThinking, SendPlaceholder, KeepPlaceholder
  <2> DEFINE i == handler[t].id
  <2>2. HandlerType' /\ i \in Numbers
    BY <1>7, TelegramEffect
  <2>3. CASE StartThinking(t)
    <3>1. UNCHANGED <<placeholders, closed, display, animation>>
      BY <2>3 DEF StartThinking
    <3>2. /\ thinking' = [thinking EXCEPT ![ChatOf(i)] = i]
          /\ crowded' \subseteq Numbers /\ midStop' \subseteq Numbers
      BY <2>2, <2>3 DEF StartThinking, TypeInv, MapType, Waiting
    <3>3. MapType'
      BY <1>3, <2>1, <2>2, <3>1, <3>2 DEF TypeInv, MapType
    <3> QED
      BY <1>2, <1>3, <2>1, <2>2, <3>3, SameTypes DEF TypeInv
  <2>4. CASE SendPlaceholder(t)
    <3>1. UNCHANGED <<thinking, placeholders, closed, animation, crowded, midStop>>
      BY <2>4 DEF SendPlaceholder
    <3>2. display' = [display EXCEPT ![i] = "thinking"] \/ display' = display
      BY <2>4 DEF SendPlaceholder
    <3>3. MapType'
      BY <1>3, <2>1, <2>2, <3>1, <3>2 DEF TypeInv, MapType
    <3> QED
      BY <1>2, <1>3, <2>1, <2>2, <3>3, SameTypes DEF TypeInv
  <2>5. CASE KeepPlaceholder(t)
    <3>1. UNCHANGED <<thinking, closed, display, crowded, midStop>>
      BY <2>5 DEF KeepPlaceholder
    <3>2. /\ placeholders' = [placeholders EXCEPT ![ChatOf(i)] = i]
          /\ animation' = [animation EXCEPT ![i] = "waiting"]
      BY <2>5 DEF KeepPlaceholder
    <3>3. MapType'
      BY <1>3, <2>1, <2>2, <3>1, <3>2 DEF TypeInv, MapType
    <3> QED
      BY <1>2, <1>3, <2>1, <2>2, <3>3, SameTypes DEF TypeInv
  <2> QED
    BY <1>7, <2>3, <2>4, <2>5
<1>8. CASE HandleMessage(t)
  <2>1. UNCHANGED <<undelivered, processed, forgotten, webhooks, thinking, placeholders,
                    closed, display, animation, crowded, midStop>>
    BY <1>8 DEF HandleMessage, telegramVars
  <2>2. InboxType'
    <3> DEFINE i == handler[t].id
    <3>1. inbox \in Seq(Numbers) /\ Len(inbox) <= InCap /\ published \in Seq(Numbers) /\ i \in Numbers
      BY <1>8, HandleMessageEffect DEF TypeInv, InboxType
    <3>2. CASE Len(inbox) < InCap /\ inbox' = Append(inbox, i) /\ published' = Append(published, i)
      <4>1. /\ inbox' \in Seq(Numbers) /\ Len(inbox') = Len(inbox) + 1 /\ Len(inbox) \in Nat
            /\ published' \in Seq(Numbers)
        BY <3>1, <3>2, AppendType
      <4> QED
        BY <1>3, <3>2, <4>1, Constants DEF InboxType
    <3>3. CASE UNCHANGED <<inbox, published>>
      BY <1>2, <3>3, SameTypes
    <3> QED
      BY <1>8, <3>2, <3>3, HandleMessageEffect
  <2> QED
    BY <1>2, <1>3, <1>8, <2>1, <2>2, SameTypes, HandleMessageEffect DEF TypeInv
<1> QED
  BY <1>4, <1>5, <1>6, <1>7, <1>8 DEF Handler

(* The agent and the other publishers append to the outbound queue. *)
LEMMA AnswerEffect ==
  ASSUME TypeInv, Answer
  PROVE  LET i == Head(inbox)
             m == [about |-> i, to |-> ChatOf(i)]
         IN  /\ inbox # <<>> /\ i \in Numbers /\ inbox' = Tail(inbox)
             /\ m \in Texts /\ Len(outbox) < OutCap /\ outbox' = Append(outbox, m)
<1>1. inbox # <<>> /\ inbox' = Tail(inbox) /\ Len(outbox) < OutCap
  BY DEF Answer
<1>2. Head(inbox) \in Numbers
  BY <1>1, TailType DEF TypeInv, InboxType
<1>3. ChatOf(Head(inbox)) \in Chats
  BY <1>2, EventFacts DEF TypeInv
<1> QED
  BY <1>1, <1>2, <1>3 DEF Answer, Texts

LEMMA NotifyEffect ==
  ASSUME TypeInv, Notify
  PROVE  /\ \E m \in Texts : m.about = 0 /\ Len(outbox) < OutCap /\ outbox' = Append(outbox, m)
         /\ notices' \in 0 .. MaxNotices
<1>1. PICK k \in DOMAIN published : outbox' = Append(outbox, [about |-> 0, to |-> ChatOf(published[k])])
  BY DEF Notify
<1>2. published[k] \in Numbers
  BY LenProperties, ElementOfSeq DEF TypeInv, InboxType
<1>3. [about |-> 0, to |-> ChatOf(published[k])] \in Texts
  BY <1>2, EventFacts DEF TypeInv, Texts
<1>4. notices' \in 0 .. MaxNotices
  BY Constants DEF Notify, TypeInv, OutType
<1> QED
  BY <1>1, <1>3, <1>4 DEF Notify

LEMMA SenderFacts ==
  ASSUME TypeInv
  PROVE  /\ sender \in SenderStates /\ sender.at \in SendPlaces
         /\ sender.at # "idle" => sender.to \in Chats
         /\ sender.at \in {"taking", "editing"} => sender.held \in Numbers
         /\ sender.at \notin {"idle", "sending"} => kind = "telegram"
         /\ sender.at = "idle" => sender.about = 0
  BY Constants DEF TypeInv, OutType, SenderStates, SenderOK

(* The dispatcher takes a message to its channel's Send. *)
LEMMA TakeEffect ==
  ASSUME TypeInv, Take
  PROVE  /\ outbox # <<>> /\ Head(outbox) \in Texts /\ outbox' = Tail(outbox)
         /\ sender.at = "idle" /\ sender.about = 0
         /\ sender' \in SenderStates /\ SenderOK(sender')
         /\ sender'.at \in {"stopping", "sending"}
         /\ kind = "telegram" => sender'.at = "stopping"
         /\ sender'.about = Head(outbox).about /\ sender'.to = Head(outbox).to
<1>1. outbox # <<>> /\ outbox' = Tail(outbox) /\ sender.at = "idle"
  BY DEF Take, SendStep
<1>2. Head(outbox) \in Texts /\ sender.about = 0
  BY <1>1, TailType, SenderFacts DEF TypeInv, OutType
<1>3. Head(outbox).about \in Numbers \cup {0} /\ Head(outbox).to \in Chats
  BY <1>2 DEF Texts
<1> DEFINE place == IF kind = "telegram" THEN "stopping" ELSE "sending"
           s == [NotSending EXCEPT !.at = place, !.about = Head(outbox).about,
                                   !.to = Head(outbox).to]
<1>4. sender' = s
  BY DEF Take
<1>5. place \in {"stopping", "sending"} /\ (kind = "telegram" <=> place = "stopping")
  OBVIOUS
<1> HIDE DEF place
<1>6. /\ s \in SenderStates /\ s.at = place /\ s.about = Head(outbox).about
      /\ s.to = Head(outbox).to
  BY <1>3, <1>5 DEF NotSending, SenderStates, SendPlaces
<1> HIDE DEF s
<1>7. SenderOK(s)
  BY <1>3, <1>5, <1>6, Constants DEF SenderOK
<1> QED
  BY <1>1, <1>2, <1>4, <1>5, <1>6, <1>7

(* A step of Telegram's Send before the edit. *)
LEMMA PrepareEffect ==
  ASSUME TypeInv, StopThinking \/ ForgetStop \/ LoadPlaceholder \/ TakePlaceholder
  PROVE  /\ kind = "telegram" /\ sender.to \in Chats
         /\ sender' \in SenderStates /\ SenderOK(sender')
         /\ sender'.about = sender.about /\ sender'.to = sender.to
         /\ UNCHANGED <<outbox, settled>>
         /\ sender'.at \in {"taking", "sending"}
              => LoadPlaceholder /\ sender'.held = placeholders[sender.to]
         /\ sender'.at = "sending" => placeholders[sender.to] = None
         /\ sender'.at = "editing"
              => TakePlaceholder /\ sender'.held = sender.held /\ sender.at = "taking"
<1>1. sender \in SenderStates
  BY SenderFacts
<1>2. UNCHANGED <<outbox, settled>>
  BY DEF StopThinking, ForgetStop, LoadPlaceholder, TakePlaceholder
<1>3. sender.at \notin {"idle", "sending"}
  BY DEF StopThinking, ForgetStop, LoadPlaceholder, TakePlaceholder, SendStep
<1>4. kind = "telegram" /\ sender.to \in Chats
  BY <1>3, SenderFacts
<1>5. ASSUME NEW s \in SenderStates, s.about = sender.about, s.to = sender.to,
             s.at # "idle", s.at \in {"taking", "editing"} => s.held # None
      PROVE  SenderOK(s)
  BY <1>4, <1>5, Constants DEF SenderOK
<1>6. CASE StopThinking \/ ForgetStop
  <2>1. PICK place \in {"loading", "forgetting"} : sender' = [sender EXCEPT !.at = place]
    BY <1>6 DEF StopThinking, ForgetStop
  <2> DEFINE s == [sender EXCEPT !.at = place]
  <2>2. s \in SenderStates /\ s.about = sender.about /\ s.to = sender.to /\ s.at = place
    BY <1>1 DEF SenderStates, SendPlaces
  <2> HIDE DEF s
  <2>3. SenderOK(s)
    BY <1>5, <2>2
  <2> QED
    BY <1>2, <1>4, <2>1, <2>2, <2>3 DEF s
<1>7. CASE LoadPlaceholder
  <2> DEFINE p == placeholders[sender.to]
             place == IF p = None THEN "sending" ELSE "taking"
             s == [sender EXCEPT !.held = p, !.at = place]
  <2>1. sender' = s
    BY <1>7 DEF LoadPlaceholder
  <2>2. p \in Numbers \cup {None}
    BY <1>4 DEF TypeInv, MapType
  <2>3. place \in SendPlaces /\ (place = "sending" <=> p = None) /\ place \in {"sending", "taking"}
    BY DEF SendPlaces
  <2> HIDE DEF p, place
  <2>4. /\ s \in SenderStates /\ s.about = sender.about /\ s.to = sender.to /\ s.at = place
        /\ s.held = p
    BY <1>1, <2>2, <2>3 DEF SenderStates
  <2> HIDE DEF s
  <2>5. SenderOK(s)
    BY <1>5, <2>3, <2>4
  <2> QED
    BY <1>2, <1>4, <1>7, <2>1, <2>3, <2>4, <2>5 DEF p
<1>8. CASE TakePlaceholder
  <2> DEFINE s == [sender EXCEPT !.at = "editing"]
  <2>1. sender' = s /\ sender.at = "taking"
    BY <1>8 DEF TakePlaceholder, SendStep
  <2>2. /\ s \in SenderStates /\ s.about = sender.about /\ s.to = sender.to /\ s.at = "editing"
        /\ s.held = sender.held
    BY <1>1 DEF SenderStates, SendPlaces
  <2>3. s.held # None
    BY <2>1, <2>2, SenderFacts, EventFacts DEF TypeInv
  <2> HIDE DEF s
  <2>4. SenderOK(s)
    BY <1>5, <2>2, <2>3
  <2> QED
    BY <1>2, <1>4, <1>8, <2>1, <2>2, <2>4
<1> QED
  BY <1>6, <1>7, <1>8

(* What a Send ends with: the edit of the placeholder, or a new message,   *)
(* either of which may fail.                                               *)
SettlesAs(m) ==
    /\ m \in SettledTexts /\ m.about = sender.about
    /\ settled' = Append(settled, m) /\ sender' = NotSending
    /\ \/ sender.at = "editing" /\ m.shown = sender.to /\ m.in = sender.held
       \/ /\ sender.at = "sending" /\ m.in = None
          /\ m.shown \in {"lost", Reached(kind, sender.to, webhooks[sender.to])}

LEMMA SettleEffect ==
  ASSUME TypeInv, EditPlaceholder \/ SendNew
  PROVE  /\ UNCHANGED outbox /\ sender.to \in Chats
         /\ \/ \E m \in SettledTexts : SettlesAs(m)
            \/ /\ sender.at = "editing" /\ sender' = [sender EXCEPT !.at = "sending"]
               /\ UNCHANGED settled
<1>1. CASE EditPlaceholder
  <2>1. sender.at = "editing" /\ UNCHANGED outbox
    BY <1>1 DEF EditPlaceholder, SendStep
  <2>2. sender.to \in Chats /\ sender.held \in Numbers /\ sender.about \in Numbers \cup {0}
    BY <2>1, SenderFacts DEF SenderStates
  <2> DEFINE m == [about |-> sender.about, shown |-> sender.to, in |-> sender.held]
  <2>3. m \in SettledTexts /\ m.about = sender.about /\ m.shown = sender.to /\ m.in = sender.held
    BY <2>2 DEF SettledTexts
  <2>4. \/ settled' = Append(settled, m) /\ sender' = NotSending
        \/ sender' = [sender EXCEPT !.at = "sending"] /\ UNCHANGED settled
    BY <1>1 DEF EditPlaceholder, Settle
  <2> HIDE DEF m
  <2> QED
    BY <2>1, <2>2, <2>3, <2>4 DEF SettlesAs
<1>2. CASE SendNew
  <2>1. sender.at = "sending" /\ UNCHANGED outbox
    BY <1>2 DEF SendNew, SendStep
  <2>2. sender.to \in Chats /\ sender.about \in Numbers \cup {0}
    BY <2>1, SenderFacts DEF SenderStates
  <2>3. PICK where \in {"lost", Reached(kind, sender.to, webhooks[sender.to])} : Settle(where, None)
    BY <1>2 DEF SendNew
  <2> DEFINE m == [about |-> sender.about, shown |-> where, in |-> None]
  <2>4. Reached(kind, sender.to, webhooks[sender.to]) \in Chats \cup {Nowhere, None}
    <3>1. kind \in Kinds /\ webhooks[sender.to] \in Conversations \cup {None}
      BY <2>2, EventFacts DEF TypeInv, MapType
    <3> QED
      BY <2>2, <3>1, Constants DEF Reached, Chats
  <2>5. m \in SettledTexts /\ m.about = sender.about /\ m.shown = where /\ m.in = None
    BY <2>2, <2>4 DEF SettledTexts
  <2>6. settled' = Append(settled, m) /\ sender' = NotSending
    BY <2>3 DEF Settle
  <2> HIDE DEF m
  <2> QED
    BY <2>1, <2>2, <2>5, <2>6 DEF SettlesAs
<1> QED
  BY <1>1, <1>2

LEMMA OutKeepsTypes ==
  ASSUME TypeInv, Answer \/ Notify \/ Send
  PROVE  TypeInv'
<1>1. UNCHANGED <<kind, events, undelivered, handler, published, processed, forgotten, webhooks>>
  BY DEF Answer, Notify, Send, Take, StopThinking, ForgetStop, LoadPlaceholder, TakePlaceholder,
         EditPlaceholder, SendNew, SendStep, inVars
<1>2. UNCHANGED <<kind, events>> /\ Numbers' = Numbers
  BY <1>1, UnchangedEvents
<1>3. EventType' /\ DeliveryType' /\ HandlerType' /\ FilterType'
  BY <1>1, <1>2, SameTypes
<1>4. OutType <=> /\ outbox \in Seq(Texts) /\ Len(outbox) <= OutCap
                  /\ notices \in 0 .. MaxNotices
                  /\ sender \in SenderStates /\ SenderOK(sender)
                  /\ settled \in Seq(SettledTexts)
  BY DEF OutType
<1>5. ASSUME /\ outbox' \in Seq(Texts) /\ Len(outbox') <= OutCap
             /\ notices' \in 0 .. MaxNotices
             /\ sender' \in SenderStates /\ SenderOK(sender')
             /\ settled' \in Seq(SettledTexts)
      PROVE  OutType'
  <2>1. Texts' = Texts /\ SenderStates' = SenderStates /\ SettledTexts' = SettledTexts
    BY <1>2 DEF Texts, SenderStates, SettledTexts
  <2>2. SenderOK(sender)'
    BY <1>2, <1>5 DEF SenderOK
  <2> QED
    BY <1>5, <2>1, <2>2 DEF OutType
<1>6. /\ outbox \in Seq(Texts) /\ Len(outbox) <= OutCap /\ notices \in 0 .. MaxNotices
      /\ sender \in SenderStates /\ SenderOK(sender) /\ settled \in Seq(SettledTexts)
  BY <1>4 DEF TypeInv
<1>7. ASSUME NEW m \in Texts, Len(outbox) < OutCap, outbox' = Append(outbox, m)
      PROVE  outbox' \in Seq(Texts) /\ Len(outbox') <= OutCap
  <2>1. outbox' \in Seq(Texts) /\ Len(outbox') = Len(outbox) + 1 /\ Len(outbox) \in Nat
    BY <1>6, <1>7, AppendType
  <2> QED
    BY <1>7, <2>1, Constants
<1>8. CASE Answer
  <2>1. UNCHANGED <<notices, sender, settled, thinking, placeholders, closed, display, animation,
                    crowded, midStop>>
    BY <1>8 DEF Answer, telegramVars
  <2>2. OutType'
    BY <1>5, <1>6, <1>7, <1>8, <2>1, AnswerEffect
  <2>3. InboxType'
    <3>1. inbox # <<>> /\ inbox' = Tail(inbox) /\ inbox \in Seq(Numbers) /\ Len(inbox) <= InCap
      BY <1>8 DEF Answer, TypeInv, InboxType
    <3>2. inbox' \in Seq(Numbers) /\ Len(inbox') = Len(inbox) - 1 /\ Len(inbox) \in Nat
      BY <3>1, TailType
    <3> QED
      BY <1>1, <1>2, <3>1, <3>2, Constants DEF TypeInv, InboxType
  <2> QED
    BY <1>1, <1>2, <1>3, <2>1, <2>2, <2>3, SameTypes DEF TypeInv
<1>9. CASE Notify
  <2>1. UNCHANGED <<inbox, sender, settled, thinking, placeholders, closed, display, animation,
                    crowded, midStop>>
    BY <1>9 DEF Notify, inVars, telegramVars
  <2>2. OutType'
    BY <1>5, <1>6, <1>7, <1>9, <2>1, NotifyEffect
  <2> QED
    BY <1>1, <1>2, <1>3, <2>1, <2>2, SameTypes DEF TypeInv
<1>10. CASE Send
  <2>1. UNCHANGED <<inbox, notices>> /\ InboxType'
    <3>1. UNCHANGED <<inbox, notices>>
      BY <1>10 DEF Send, Take, StopThinking, ForgetStop, LoadPlaceholder, TakePlaceholder,
               EditPlaceholder, SendNew, SendStep, inVars
    <3> QED
      BY <1>1, <1>2, <3>1, SameTypes
  <2>2. CASE Take
    <3>1. UNCHANGED <<settled, thinking, placeholders, closed, display, animation, crowded, midStop>>
      BY <2>2 DEF Take, telegramVars
    <3>2. outbox' \in Seq(Texts) /\ Len(outbox') <= OutCap
      <4>1. /\ Tail(outbox) \in Seq(Texts) /\ Len(Tail(outbox)) = Len(outbox) - 1
            /\ Len(outbox) \in Nat /\ outbox' = Tail(outbox)
        BY <1>6, <2>2, TakeEffect, TailType
      <4> QED
        BY <1>6, <4>1, Constants
    <3>3. OutType'
      BY <1>5, <1>6, <2>1, <2>2, <3>1, <3>2, TakeEffect
    <3> QED
      BY <1>1, <1>2, <1>3, <2>1, <3>1, <3>3, SameTypes DEF TypeInv
  <2>3. CASE StopThinking \/ ForgetStop \/ LoadPlaceholder \/ TakePlaceholder
    <3>1. OutType'
      BY <1>5, <1>6, <2>1, <2>3, PrepareEffect
    <3>2. UNCHANGED <<display, animation, crowded, midStop>> /\ sender.to \in Chats
      BY <2>3, PrepareEffect DEF StopThinking, ForgetStop, LoadPlaceholder, TakePlaceholder,
                                 telegramVars
    <3>3. MapType'
      <4>1. thinking' \in {thinking, [thinking EXCEPT ![sender.to] = None]}
        BY <2>3 DEF StopThinking, ForgetStop, LoadPlaceholder, TakePlaceholder, telegramVars
      <4>2. placeholders' \in {placeholders, [placeholders EXCEPT ![sender.to] = None]}
        BY <2>3 DEF StopThinking, ForgetStop, LoadPlaceholder, TakePlaceholder, telegramVars
      <4>3. closed' \subseteq Numbers
        <5>1. CASE StopThinking
          <6>1. thinking[sender.to] \in Numbers \cup {None}
            BY <3>2 DEF TypeInv, MapType
          <6> QED
            BY <5>1, <6>1 DEF StopThinking, TypeInv, MapType
        <5>2. CASE ~StopThinking
          BY <2>3, <5>2 DEF ForgetStop, LoadPlaceholder, TakePlaceholder, telegramVars, TypeInv,
                            MapType
        <5> QED
          BY <5>1, <5>2
      <4> QED
        BY <1>1, <1>2, <3>2, <4>1, <4>2, <4>3 DEF TypeInv, MapType
    <3> QED
      BY <1>3, <2>1, <3>1, <3>3 DEF TypeInv
  <2>4. CASE EditPlaceholder \/ SendNew
    <3>1. /\ UNCHANGED outbox /\ sender.to \in Chats
          /\ \/ \E m \in SettledTexts : SettlesAs(m)
             \/ /\ sender.at = "editing" /\ sender' = [sender EXCEPT !.at = "sending"]
                /\ UNCHANGED settled
      BY <2>4, SettleEffect
    <3>2. ASSUME \E m \in SettledTexts : SettlesAs(m) PROVE OutType'
      <4>1. NotSending \in SenderStates /\ SenderOK(NotSending)
        BY DEF NotSending, SenderStates, SendPlaces, SenderOK
      <4>2. settled' \in Seq(SettledTexts) /\ sender' = NotSending
        BY <1>6, <3>2, AppendType DEF SettlesAs
      <4> QED
        BY <1>5, <1>6, <2>1, <3>1, <4>1, <4>2
    <3>3. ASSUME sender.at = "editing", sender' = [sender EXCEPT !.at = "sending"],
                 UNCHANGED settled
          PROVE  OutType'
      <4> DEFINE s == [sender EXCEPT !.at = "sending"]
      <4>1. s \in SenderStates /\ s.at = "sending" /\ s.to = sender.to
        BY <1>6 DEF SenderStates, SendPlaces
      <4> HIDE DEF s
      <4>2. SenderOK(s)
        BY <3>1, <4>1, Constants DEF SenderOK
      <4> QED
        BY <1>5, <1>6, <2>1, <3>1, <3>3, <4>1, <4>2 DEF s
    <3>4. OutType'
      BY <3>1, <3>2, <3>3
    <3>5. MapType'
      <4>1. UNCHANGED <<thinking, placeholders, closed, animation, crowded, midStop>>
        BY <2>4 DEF EditPlaceholder, SendNew, telegramVars
      <4>2. display' \in [Numbers -> {None, "thinking", "answer"}]
        <5>1. CASE SendNew
          BY <5>1 DEF SendNew, telegramVars, TypeInv, MapType
        <5>2. CASE EditPlaceholder
          <6>1. sender.held \in Numbers
            BY <5>2, SenderFacts DEF EditPlaceholder, SendStep
          <6> QED
            BY <5>2, <6>1 DEF EditPlaceholder, TypeInv, MapType
        <5> QED
          BY <2>4, <5>1, <5>2
      <4> QED
        BY <1>1, <1>2, <4>1, <4>2 DEF TypeInv, MapType
    <3> QED
      BY <1>3, <2>1, <3>4, <3>5 DEF TypeInv
  <2> QED
    BY <1>10, <2>2, <2>3, <2>4 DEF Send
<1> QED
  BY <1>8, <1>9, <1>10

LEMMA AnimationKeepsTypes ==
  ASSUME TypeInv, NEW i \in Numbers, Tick(i) \/ Redraw(i) \/ EndAnimation(i)
  PROVE  TypeInv'
<1>1. AnimationOnly
  BY DEF Tick, Redraw, EndAnimation
<1>2. /\ UNCHANGED <<kind, events>> /\ Numbers' = Numbers
      /\ UNCHANGED <<undelivered, handler, inbox, published, processed, forgotten, webhooks,
                     outbox, notices, sender, settled, thinking, placeholders, closed, crowded, midStop>>
  BY <1>1, UnchangedEvents DEF AnimationOnly, inVars, outVars
<1>3. MapType'
  <2>1. display' \in {display, [display EXCEPT ![i] = "thinking"]}
    BY DEF Tick, Redraw, EndAnimation
  <2>2. \E a \in {"waiting", "editing", "ended"} : animation' = [animation EXCEPT ![i] = a]
    BY DEF Tick, Redraw, EndAnimation
  <2> QED
    BY <1>2, <2>1, <2>2 DEF TypeInv, MapType
<1> QED
  BY <1>2, <1>3, SameTypes DEF TypeInv

(* A new message changes nothing for the messages there are. *)
LEMMA WriteEffect ==
  ASSUME TypeInv, NEW e \in Shapes, Write(e)
  PROVE  /\ UNCHANGED <<kind, handler, inbox, published, processed, forgotten, webhooks, outbox,
                        notices, sender, settled, thinking, placeholders, closed, crowded, midStop>>
         /\ EventType' /\ Threads' = Threads
         /\ Len(events) \in Nat /\ Numbers = 1 .. Len(events)
         /\ Numbers' = 1 .. Len(events) + 1 /\ Numbers \subseteq Numbers'
         /\ \A i \in Numbers : events'[i] = events[i] /\ undelivered'[i] = undelivered[i]
                               /\ (Allowed(i)' <=> Allowed(i))
<1>1. /\ Len(events) < Bound[kind] /\ events' = Append(events, e)
      /\ e.in = Device <=> kind = "maixcam"
      /\ undelivered' = Append(undelivered, IF kind = "qq" THEN Copies ELSE 1)
      /\ UNCHANGED <<kind, handler, inbox, published, processed, forgotten, webhooks, outVars,
                     thinking, placeholders, closed, crowded, midStop>>
  BY DEF Write
<1>2. /\ events \in Seq(Shapes) /\ Len(events) \in Nat /\ Numbers = 1 .. Len(events)
      /\ Bound[kind] \in Nat
  BY EventFacts DEF TypeInv, EventType, Numbers
<1>3. /\ events' \in Seq(Shapes) /\ Len(events') = Len(events) + 1
      /\ \A i \in 1 .. Len(events) : events'[i] = events[i]
      /\ events'[Len(events) + 1] = e
  BY <1>1, <1>2, AppendType
<1>4. Numbers' = 1 .. Len(events) + 1 /\ Numbers \subseteq Numbers'
  BY <1>2, <1>3 DEF Numbers
<1>5. EventType'
  <2>1. ASSUME NEW i \in 1 .. Len(events) + 1
        PROVE  events'[i].in = Device <=> kind = "maixcam"
    <3>1. CASE i = Len(events) + 1
      BY <1>1, <1>3, <3>1
    <3>2. CASE i \in 1 .. Len(events)
      BY <1>2, <1>3, <3>2 DEF TypeInv, EventType
    <3> QED
      BY <1>2, <3>1, <3>2
  <2>2. kind' = kind /\ Len(events') <= Bound[kind] /\ kind \in DOMAIN Bound
    BY <1>1, <1>2, <1>3 DEF TypeInv, EventType
  <2> QED
    BY <1>3, <1>4, <2>1, <2>2 DEF EventType
<1>6. \A i \in Numbers : undelivered'[i] = undelivered[i]
  <2> DEFINE most == IF kind = "qq" THEN Copies ELSE 1
  <2>1. undelivered \in [1 .. Len(events) -> 0 .. most] /\ most \in 0 .. most
    BY <1>2, Constants DEF TypeInv, DeliveryType
  <2>2. undelivered' = Append(undelivered, most)
    BY <1>1
  <2> HIDE DEF most
  <2>3. \A i \in 1 .. Len(events) : undelivered'[i] = undelivered[i]
    BY <1>2, <2>1, <2>2, AppendTable
  <2> QED
    BY <1>2, <2>3
<1>7. \A i \in Numbers : events'[i] = events[i] /\ (Allowed(i)' <=> Allowed(i))
  BY <1>1, <1>2, <1>3 DEF Allowed
<1> QED
  BY <1>1, <1>2, <1>4, <1>5, <1>6, <1>7 DEF outVars, Threads

LEMMA WriteKeepsTypes ==
  ASSUME TypeInv, NEW e \in Shapes, Write(e)
  PROVE  TypeInv'
<1> DEFINE n == Len(events)
<1>1. /\ UNCHANGED <<kind, handler, inbox, published, processed, forgotten, webhooks, outbox,
                     notices, sender, settled, thinking, placeholders, closed, crowded, midStop>>
      /\ EventType' /\ Threads' = Threads
      /\ n \in Nat /\ Numbers = 1 .. n /\ Numbers' = 1 .. n + 1 /\ Numbers \subseteq Numbers'
  BY WriteEffect
<1> HIDE DEF n
<1>2. DeliveryType'
  <2> DEFINE most == IF kind = "qq" THEN Copies ELSE 1
  <2>1. undelivered \in [1 .. n -> 0 .. most] /\ most \in 0 .. most
    BY <1>1, Constants DEF TypeInv, DeliveryType
  <2>2. undelivered' = Append(undelivered, most) /\ most' = most
    BY <1>1 DEF Write
  <2> HIDE DEF most
  <2>3. undelivered' \in [Numbers' -> 0 .. most]
    BY <1>1, <2>1, <2>2, AppendTable
  <2> QED
    BY <1>1, <2>3 DEF DeliveryType, most
<1>3. HandlerType'
  <2>1. HandlerStates \subseteq HandlerStates'
    BY <1>1 DEF HandlerStates
  <2> QED
    BY <1>1, <2>1 DEF TypeInv, HandlerType, HandlerOK
<1>4. InboxType'
  BY <1>1, SeqMonotone DEF TypeInv, InboxType
<1>5. OutType'
  <2>1. Texts \subseteq Texts' /\ SenderStates \subseteq SenderStates'
        /\ SettledTexts \subseteq SettledTexts'
    BY <1>1 DEF Texts, SenderStates, SettledTexts
  <2>2. outbox' \in Seq(Texts') /\ settled' \in Seq(SettledTexts')
    BY <1>1, <2>1, SeqMonotone DEF TypeInv, OutType
  <2> QED
    BY <1>1, <2>1, <2>2 DEF TypeInv, OutType, SenderOK
<1>6. FilterType'
  BY <1>1 DEF TypeInv, FilterType
<1>7. MapType'
  <2>1. display' = Append(display, None) /\ animation' = Append(animation, "none")
    BY DEF Write
  <2>2. display' \in [Numbers' -> {None, "thinking", "answer"}]
    BY <1>1, <2>1, AppendTable DEF TypeInv, MapType
  <2>3. animation' \in [Numbers' -> {"none", "waiting", "editing", "ended"}]
    BY <1>1, <2>1, AppendTable DEF TypeInv, MapType
  <2> QED
    BY <1>1, <2>2, <2>3 DEF TypeInv, MapType
<1> QED
  BY <1>1, <1>2, <1>3, <1>4, <1>5, <1>6, <1>7 DEF TypeInv

LEMMA TypeStep == TypeInv /\ [Next]_vars => TypeInv'
<1> SUFFICES ASSUME TypeInv, [Next]_vars PROVE TypeInv'
  OBVIOUS
<1>1. CASE UNCHANGED vars
  BY <1>1, SameTypes DEF vars, inVars, outVars, telegramVars, TypeInv
<1> QED
  BY <1>1, WriteKeepsTypes, HandlerKeepsTypes, OutKeepsTypes, AnimationKeepsTypes DEF Next

LEMMA InitType == Init => TypeInv
<1> SUFFICES ASSUME Init PROVE TypeInv
  OBVIOUS
<1>1. Numbers = {} /\ Len(events) = 0 /\ kind \in DOMAIN Bound /\ kind \in Kinds
  BY Constants, EmptySeq DEF Init, Numbers
<1>2. EventType
  BY <1>1, Constants, EmptySeq DEF Init, EventType
<1>3. DeliveryType
  BY <1>1 DEF Init, DeliveryType
<1>4. HandlerType
  <2>1. Idle \in HandlerStates /\ Idle.at = "idle" /\ Idle.id = 0
    BY DEF Idle, HandlerStates, HandlerPlaces
  <2>2. HandlerOK(Idle)
    BY <2>1 DEF HandlerOK, PlacesOf
  <2> QED
    BY <2>1, <2>2 DEF Init, HandlerType
<1>5. InboxType
  BY EmptySeq, Constants DEF Init, InboxType
<1>6. OutType
  <2>1. NotSending \in SenderStates /\ SenderOK(NotSending)
    BY DEF NotSending, SenderStates, SendPlaces, SenderOK
  <2> QED
    BY <2>1, EmptySeq, Constants DEF Init, OutType
<1>7. FilterType
  BY FS_EmptySet, Constants DEF Init, FilterType
<1>8. MapType
  BY <1>1 DEF Init, MapType
<1> QED
  BY <1>2, <1>3, <1>4, <1>5, <1>6, <1>7, <1>8 DEF TypeInv

LEMMA TypeInvariance == Spec => []TypeInv
  BY InitType, TypeStep, PTL DEF Spec

LEMMA TypeInvImplies == TypeInv => TypeOK
<1> SUFFICES ASSUME TypeInv PROVE TypeOK
  OBVIOUS
<1>1. kind \in Kinds
  BY EventFacts DEF TypeInv
<1>2. outbox \in Seq([about : Numbers \cup {0}, to : Chats])
  BY DEF TypeInv, OutType, Texts
<1>3. /\ sender \in [at : SendPlaces, about : Numbers \cup {0}, to : Chats \cup {None},
                     held : Numbers \cup {None}]
      /\ sender.at # "idle" <=> sender.to # None
      /\ sender.at \in {"taking", "editing"} => sender.held # None
  BY DEF TypeInv, OutType, SenderStates, SenderOK
<1> QED
  BY <1>1, <1>2, <1>3 DEF TypeInv, TypeOK, EventType, DeliveryType, HandlerType, HandlerStates,
                          HandlerOK, InboxType, OutType, FilterType, MapType

(* Every handler and the dispatcher are where their channel can be, with   *)
(* a message that was written; queues and QQ's set keep to their limits.   *)
THEOREM TypeCorrect == Spec => []TypeOK
  BY TypeInvariance, TypeInvImplies, PTL

-----------------------------------------------------------------------------
(* One publication.                                                        *)

LEMMA PublishedFacts ==
  ASSUME TypeInv
  PROVE  /\ published \in Seq(Numbers) /\ inbox \in Seq(Numbers)
         /\ \A k \in DOMAIN published : published[k] \in Numbers
         /\ \A k \in DOMAIN inbox : inbox[k] \in Numbers
         /\ \A i : IsPublished(i) => i \in Numbers
<1>1. published \in Seq(Numbers) /\ inbox \in Seq(Numbers)
  BY DEF TypeInv, InboxType
<1>2. \A k \in DOMAIN published : published[k] \in Numbers
  BY <1>1, LenProperties, ElementOfSeq
<1>3. \A k \in DOMAIN inbox : inbox[k] \in Numbers
  BY <1>1, LenProperties, ElementOfSeq
<1> QED
  BY <1>1, <1>2, <1>3 DEF IsPublished

LEMMA PassedFacts ==
  ASSUME TypeInv, NEW t \in Threads, Passed(t)
  PROVE  handler[t].id \in Numbers
  BY HandlerFacts DEF Passed

(* A handler may come past the filter with a message that was not known,   *)
(* or was forgotten.                                                       *)
LEMMA PathKept ==
  ASSUME TypeInv, PathInv, UNCHANGED <<kind, published>>, Threads' = Threads,
         forgotten \subseteq forgotten', kind # "qq" => forgotten' = {},
         \A j \in Numbers : Known(j) => Known(j)',
         NEW t \in Threads, NEW i,
         \A u \in Threads \ {t} : Passed(u)' => Passed(u) /\ handler'[u].id = handler[u].id,
         Passed(t)' => \/ Passed(t) /\ handler'[t].id = handler[t].id
                       \/ /\ handler'[t].id = i /\ Known(i)'
                          /\ ~Known(i) \/ i \in forgotten
  PROVE  PathInv'
<1>1. /\ \A u \in Threads : Passed(u) => handler[u].id \in Numbers /\ Known(handler[u].id)
      /\ \A k \in DOMAIN published : published[k] \in Numbers /\ Known(published[k])
  BY PassedFacts, PublishedFacts DEF PathInv, AllKnown
<1>2. /\ ~Known(i) => \A u \in Threads : Passed(u) => handler[u].id # i
      /\ ~Known(i) => ~IsPublished(i)
  BY <1>1 DEF IsPublished
<1>3. \A j : IsPublished(j)' <=> IsPublished(j)
  BY DEF IsPublished
<1>4. OneHandler'
  <2>1. ASSUME NEW u \in Threads, NEW v \in Threads, u # v, Passed(u)', Passed(v)',
               handler'[u].id = handler'[v].id
        PROVE  handler'[u].id \in forgotten'
    BY <1>2, <2>1 DEF PathInv, OneHandler
  <2>2. ASSUME NEW u \in Threads, NEW j, j = handler'[u].id, Passed(u)', IsPublished(j)
        PROVE  j \in forgotten'
    BY <1>2, <2>2 DEF PathInv, OneHandler
  <2>3. \A u \in Threads : Passed(u)' /\ IsPublished(handler[u].id)' => handler'[u].id \in forgotten'
    BY <1>3, <2>2 DEF IsPublished
  <2> QED
    BY <2>1, <2>3 DEF OneHandler
<1>5. AllKnown'
  <2>1. ASSUME NEW u \in Threads, Passed(u)' PROVE Known(handler[u].id)'
    <3> DEFINE j == handler[u].id
    <3>1. CASE handler'[u].id = j /\ Passed(u)
      <4>1. j \in Numbers /\ Known(j)
        BY <1>1, <3>1
      <4>2. Known(j)'
        BY <1>1, <3>1 DEF Known
      <4> QED
        BY <3>1, <4>2 DEF Known
    <3>2. CASE u = t /\ handler'[t].id = i /\ Known(i)'
      BY <3>2 DEF Known
    <3> QED
      BY <2>1, <3>1, <3>2
  <2>2. \A k \in DOMAIN published : Known(published[k])'
    BY <1>1 DEF Known
  <2> QED
    BY <2>1, <2>2 DEF AllKnown
<1>6. PublishedOnce'
  BY DEF PathInv, PublishedOnce
<1> QED
  BY <1>4, <1>5, <1>6 DEF PathInv

LEMMA SomeThread == 1 \in Threads
  BY DEF Threads

(* Steps that leave handlers, publications and what is known alone. *)
LEMMA PathUnchanged ==
  ASSUME TypeInv, PathInv, UNCHANGED <<kind, handler, published, processed, forgotten>>,
         \A j \in Numbers : undelivered'[j] = undelivered[j]
  PROVE  PathInv'
<1>1. Threads' = Threads /\ 1 \in Threads
  BY SomeThread DEF Threads
<1>2. \A j \in Numbers : Known(j) => Known(j)'
  BY DEF Known
<1>3. \A u \in Threads : Passed(u)' => Passed(u) /\ handler'[u].id = handler[u].id
  BY DEF Passed
<1>4. kind # "qq" => forgotten' = {}
  BY DEF PathInv, AllKnown
<1> QED
  BY <1>1, <1>2, <1>3, <1>4, PathKept

LEMMA ReceiveKeepsPath ==
  ASSUME TypeInv, PathInv, NEW t \in Threads, Receive(t)
  PROVE  PathInv'
<1>1. UNCHANGED <<kind, published, processed, forgotten>> /\ Threads' = Threads
  BY DEF Receive, HandlerStep, Threads
<1>2. PICK i \in Numbers :
        /\ undelivered[i] > 0 /\ undelivered' = [undelivered EXCEPT ![i] = undelivered[i] - 1]
        /\ \A u \in Threads \ {t} : handler'[u] = handler[u]
        /\ \/ handler' = handler
           \/ handler'[t].id = i /\ (handler'[t].at = "filtering" <=> kind = "qq")
  BY ReceiveEffect
<1>3. undelivered \in [Numbers -> 0 .. IF kind = "qq" THEN Copies ELSE 1]
  BY DEF TypeInv, DeliveryType
<1>4. \A j \in Numbers : undelivered[j] = 0 => undelivered'[j] = 0
  BY <1>2, <1>3
<1>5. \A j \in Numbers : Known(j) => Known(j)'
  BY <1>1, <1>4 DEF Known
<1>6. kind # "qq" => ~Known(i) /\ Known(i)'
  <2>1. SUFFICES ASSUME kind # "qq" PROVE undelivered[i] # 0 /\ undelivered'[i] = 0
    BY <1>1 DEF Known
  <2>2. undelivered[i] \in 0 .. 1
    BY <1>3, <2>1
  <2> QED
    BY <1>2, <1>3, <2>2
<1>7. Passed(t)' => \/ Passed(t) /\ handler'[t].id = handler[t].id
                    \/ handler'[t].id = i /\ Known(i)' /\ ~Known(i)
  BY <1>2, <1>6 DEF Passed
<1>8. \A u \in Threads \ {t} : Passed(u)' => Passed(u) /\ handler'[u].id = handler[u].id
  BY <1>2 DEF Passed
<1>9. kind # "qq" => forgotten' = {}
  BY <1>1 DEF PathInv, AllKnown
<1> QED
  BY <1>1, <1>5, <1>7, <1>8, <1>9, PathKept

LEMMA FilterKeepsPath ==
  ASSUME TypeInv, PathInv, NEW t \in Threads, Filter(t)
  PROVE  PathInv'
<1>0. PICK i : i = handler[t].id
  OBVIOUS
<1>1. UNCHANGED <<kind, published, undelivered>> /\ Threads' = Threads
  BY DEF Filter, HandlerStep, Threads
<1>2. /\ kind = "qq" /\ forgotten \subseteq forgotten'
      /\ \A u \in Threads \ {t} : handler'[u] = handler[u]
      /\ processed \cup forgotten \subseteq processed' \cup forgotten'
      /\ \/ handler'[t].at = "idle"
         \/ handler'[t].id = i /\ i \notin processed /\ i \in processed' \cup forgotten'
  BY <1>0, FilterEffect
<1>3. \A j \in Numbers : Known(j) => Known(j)'
  BY <1>1, <1>2 DEF Known
<1>4. Passed(t)' => handler'[t].id = i /\ Known(i)' /\ (~Known(i) \/ i \in forgotten)
  BY <1>1, <1>2 DEF Passed, Known
<1>5. \A u \in Threads \ {t} : Passed(u)' => Passed(u) /\ handler'[u].id = handler[u].id
  BY <1>2 DEF Passed
<1> QED
  BY <1>1, <1>2, <1>3, <1>4, <1>5, PathKept

(* The steps between the filter and the publication. *)
LEMMA OnTheWayKeepsPath ==
  ASSUME TypeInv, PathInv, NEW t \in Threads,
         \/ StoreWebhook(t)
         \/ StartThinking(t) \/ SendPlaceholder(t) \/ KeepPlaceholder(t)
  PROVE  PathInv'
<1>1. UNCHANGED <<kind, published, processed, forgotten, undelivered>> /\ Threads' = Threads
  BY DEF StoreWebhook, StartThinking, SendPlaceholder, KeepPlaceholder, HandlerStep, Threads
<1>2. /\ \A u \in Threads \ {t} : handler'[u] = handler[u]
      /\ handler'[t].id = handler[t].id
  BY StoreWebhookEffect, TelegramEffect
<1>3. Passed(t)
  BY DEF Passed, StoreWebhook, StartThinking, SendPlaceholder, KeepPlaceholder, HandlerStep
<1>4. \A j \in Numbers : Known(j) => Known(j)'
  BY <1>1 DEF Known
<1>5. \A u \in Threads \ {t} : Passed(u)' => Passed(u) /\ handler'[u].id = handler[u].id
  BY <1>2 DEF Passed
<1>6. kind # "qq" => forgotten' = {}
  BY <1>1 DEF PathInv, AllKnown
<1> QED
  BY <1>1, <1>2, <1>3, <1>4, <1>5, <1>6, PathKept

(* The message that is published was in one handler only, or was forgotten. *)
LEMMA HandleMessageKeepsPath ==
  ASSUME TypeInv, PathInv, NEW t \in Threads, HandleMessage(t)
  PROVE  PathInv'
<1> DEFINE i == handler[t].id
<1>1. UNCHANGED <<kind, processed, forgotten, undelivered>> /\ Threads' = Threads
  BY DEF HandleMessage, HandlerStep, Threads
<1>2. /\ handler[t].at = "publishing" /\ i \in Numbers
      /\ handler'[t].at = "idle"
      /\ \A u \in Threads \ {t} : handler'[u] = handler[u]
      /\ published' = Append(published, i) \/ UNCHANGED published
  BY HandleMessageEffect
<1>3. Passed(t) /\ ~Passed(t)'
  BY <1>2 DEF Passed
<1>4. \A u \in Threads : Passed(u)' => u # t /\ Passed(u) /\ handler'[u].id = handler[u].id
  BY <1>2, <1>3 DEF Passed
<1>5. CASE UNCHANGED published
  <2>1. \A j \in Numbers : Known(j) => Known(j)'
    BY <1>1 DEF Known
  <2>2. kind # "qq" => forgotten' = {}
    BY <1>1 DEF PathInv, AllKnown
  <2> QED
    BY <1>1, <1>3, <1>4, <1>5, <2>1, <2>2, PathKept
<1>6. CASE published' = Append(published, i)
  <2> HIDE DEF i
  <2>1. published \in Seq(Numbers) /\ Len(published) \in Nat
    BY PublishedFacts, AppendType
  <2>2. \A k \in DOMAIN published' : \/ k \in DOMAIN published /\ published'[k] = published[k]
                                     \/ k = Len(published) + 1 /\ published'[k] = i
    BY <1>2, <1>6, <2>1, AppendEntries
  <2>3. \A j : IsPublished(j)' => IsPublished(j) \/ j = i
    BY <2>2 DEF IsPublished
  <2>4. Known(i) /\ (IsPublished(i) => i \in forgotten)
    BY <1>3 DEF PathInv, OneHandler, AllKnown, i
  <2>5. \A u \in Threads : Passed(u)' /\ handler[u].id = i => i \in forgotten
    BY <1>3, <1>4 DEF PathInv, OneHandler, i
  <2>6. OneHandler'
    <3>1. ASSUME NEW u \in Threads, NEW v \in Threads, u # v, Passed(u)', Passed(v)',
                 handler'[u].id = handler'[v].id
          PROVE  handler'[u].id \in forgotten'
      BY <1>1, <1>4, <3>1 DEF PathInv, OneHandler
    <3>2. ASSUME NEW u \in Threads, Passed(u)', IsPublished(handler[u].id)'
          PROVE  handler'[u].id \in forgotten'
      <4>1. handler'[u].id = handler[u].id /\ Passed(u)
        BY <1>4, <3>2
      <4>2. IsPublished(handler[u].id) \/ handler[u].id = i
        <5>1. \E k \in DOMAIN published' : published'[k] = handler[u].id
          BY <3>2, <4>1 DEF IsPublished
        <5> QED
          BY <2>2, <5>1 DEF IsPublished
      <4>3. handler[u].id \in forgotten
        BY <2>5, <3>2, <4>1, <4>2 DEF PathInv, OneHandler
      <4> QED
        BY <1>1, <4>1, <4>3
    <3> QED
      BY <1>1, <3>1, <3>2 DEF OneHandler
  <2>7. AllKnown'
    <3>1. ASSUME NEW u \in Threads, Passed(u)' PROVE Known(handler[u].id)'
      BY <1>1, <1>4, <3>1 DEF PathInv, AllKnown, Known
    <3>2. ASSUME NEW k \in DOMAIN published' PROVE Known(published[k])'
      <4>1. published'[k] = i \/ (k \in DOMAIN published /\ published'[k] = published[k])
        BY <2>2
      <4>2. Known(published'[k])
        BY <2>4, <4>1 DEF PathInv, AllKnown
      <4> QED
        BY <1>1, <4>2 DEF Known
    <3>3. kind' # "qq" => forgotten' = {}
      BY <1>1 DEF PathInv, AllKnown
    <3> QED
      BY <1>1, <3>1, <3>2, <3>3 DEF AllKnown
  <2>8. PublishedOnce'
    <3>1. ASSUME NEW j \in DOMAIN published', NEW k \in DOMAIN published', j # k,
                 published'[j] = published'[k]
          PROVE  published'[j] \in forgotten
      <4>1. CASE j \in DOMAIN published /\ k \in DOMAIN published
        BY <2>1, <2>2, <3>1, <4>1, LenProperties DEF PathInv, PublishedOnce
      <4>2. CASE j \notin DOMAIN published \/ k \notin DOMAIN published
        <5>1. published'[j] = i /\ IsPublished(i)
          BY <2>2, <3>1, <4>2 DEF IsPublished
        <5> QED
          BY <2>4, <5>1
      <4> QED
        BY <4>1, <4>2
    <3> QED
      BY <1>1, <3>1 DEF PublishedOnce
  <2> QED
    BY <2>6, <2>7, <2>8 DEF PathInv
<1> QED
  BY <1>2, <1>5, <1>6

LEMMA PathStep == TypeInv /\ PathInv /\ [Next]_vars => PathInv'
<1> SUFFICES ASSUME TypeInv, PathInv, [Next]_vars PROVE PathInv'
  OBVIOUS
<1>1. CASE UNCHANGED vars
  BY <1>1, PathUnchanged DEF vars, inVars
<1>2. ASSUME NEW e \in Shapes, Write(e) PROVE PathInv'
  BY <1>2, WriteEffect, PathUnchanged
<1>3. ASSUME NEW t \in Threads, Handler(t) PROVE PathInv'
  BY <1>3, ReceiveKeepsPath, FilterKeepsPath, OnTheWayKeepsPath, HandleMessageKeepsPath
     DEF Handler
<1>4. CASE Answer \/ Notify \/ Send
  <2>1. UNCHANGED <<kind, handler, published, processed, forgotten, undelivered>>
    BY <1>4 DEF Answer, Notify, Send, Take, StopThinking, ForgetStop, LoadPlaceholder,
                TakePlaceholder, EditPlaceholder, SendNew, SendStep, inVars
  <2> QED
    BY <2>1, PathUnchanged
<1>5. ASSUME NEW i \in Numbers, Tick(i) \/ Redraw(i) \/ EndAnimation(i) PROVE PathInv'
  <2>1. UNCHANGED <<kind, handler, published, processed, forgotten, undelivered>>
    BY <1>5 DEF Tick, Redraw, EndAnimation, AnimationOnly, inVars
  <2> QED
    BY <2>1, PathUnchanged
<1> QED
  BY <1>1, <1>2, <1>3, <1>4, <1>5 DEF Next

LEMMA InitPath == Init => PathInv
<1> SUFFICES ASSUME Init PROVE PathInv
  OBVIOUS
<1>1. DOMAIN published = {} /\ forgotten = {} /\ \A t \in Threads : ~Passed(t)
  BY DEF Init, Passed, Idle
<1> QED
  BY <1>1 DEF PathInv, OneHandler, AllKnown, PublishedOnce

LEMMA PathInvariance == Spec => []PathInv
  BY InitPath, PathStep, TypeInvariance, PTL DEF Spec

(* However often a platform delivers a message, and on however many        *)
(* goroutines, it is published to the agent once; on QQ, as long as its    *)
(* identifier has not been evicted from the set of the seen ones.          *)
THEOREM MessagesPublishedOnce == Spec => []PublishedOnce
<1>1. PathInv => PublishedOnce
  BY DEF PathInv
<1> QED
  BY <1>1, PathInvariance, PTL

-----------------------------------------------------------------------------
(* The way back.                                                           *)

GoesBack(about, shown) ==
    about # 0 /\ shown # "lost" =>
        \/ shown = events[about].in
        \/ kind = "qq" /\ events[about].in \in Groups /\ shown = Nowhere
        \/ Unaddressed(about) /\ \E j \in Numbers : Unaddressed(j) /\ shown = events[j].in

HomeInv == WebhookInv /\ RouteInv /\ RepliesGoBack

LEMMA RepliesGoBackParts ==
  RepliesGoBack <=> \A s \in DOMAIN settled : GoesBack(settled[s].about, settled[s].shown)
  BY DEF RepliesGoBack, GoesBack

(* Messages do not change. *)
LEMMA MessagesKept ==
  ASSUME UNCHANGED kind, \A i \in Numbers : i \in Numbers' /\ events'[i] = events[i]
  PROVE  /\ \A i \in Numbers : ChatOf(i)' = ChatOf(i) /\ (Unaddressed(i) => Unaddressed(i)')
         /\ \A c, h : LeadsHome(c, h) => LeadsHome(c, h)'
<1>1. \A i \in Numbers : ChatOf(i)' = ChatOf(i) /\ (Unaddressed(i) => Unaddressed(i)')
  BY DEF ChatOf, Unaddressed
<1> QED
  BY <1>1 DEF LeadsHome

LEMMA WebhookKept ==
  ASSUME TypeInv, WebhookInv, UNCHANGED <<kind, webhooks, published>>, Threads' = Threads,
         \A i \in Numbers : i \in Numbers' /\ events'[i] = events[i],
         \A t \in Threads :
            handler'[t].at = "publishing" =>
               \/ handler'[t] = handler[t]
               \/ kind \notin {"qq", "dingtalk"}
               \/ /\ kind = "qq" /\ handler'[t].id \in Numbers
                  /\ events[handler'[t].id].from # NoUser
  PROVE  WebhookInv'
<1>1. \A t \in Threads : handler[t].at = "publishing" => handler[t].id \in Numbers
  BY HandlerFacts
<1>2. \A k \in DOMAIN published : published[k] \in Numbers
  BY PublishedFacts
<1>3. \A i \in Numbers : Answerable(i) => Answerable(i)'
  BY MessagesKept DEF Answerable
<1>4. ASSUME NEW t \in Threads, handler'[t].at = "publishing"
      PROVE  Answerable(handler[t].id)'
  <2>1. CASE handler'[t] = handler[t]
    <3>1. handler[t].id \in Numbers /\ Answerable(handler[t].id)
      BY <1>1, <1>4, <2>1 DEF WebhookInv
    <3> QED
      BY <1>3, <2>1, <3>1 DEF Answerable
  <2>2. CASE kind \notin {"qq", "dingtalk"}
    BY <2>2 DEF Answerable
  <2>3. CASE /\ kind = "qq" /\ handler'[t].id \in Numbers
             /\ events[handler'[t].id].from # NoUser
    BY <2>3 DEF Answerable
  <2> QED
    BY <1>4, <2>1, <2>2, <2>3
<1>5. ASSUME NEW k \in DOMAIN published PROVE Answerable(published[k])'
  BY <1>2, <1>3 DEF WebhookInv, Answerable
<1>6. ASSUME NEW c \in Chats PROVE LeadsHome(c, webhooks[c])'
  BY MessagesKept DEF WebhookInv, LeadsHome
<1> QED
  BY <1>4, <1>5, <1>6 DEF WebhookInv, Answerable, Chats

(* What is on its way back keeps its address, as no message changes. *)
LEMMA HomewardKept ==
  ASSUME TypeInv, UNCHANGED <<kind, published>>,
         \A i \in Numbers : i \in Numbers' /\ events'[i] = events[i],
         NEW about, NEW to, Homeward(about, to)
  PROVE  about # 0 => IsPublished(about)' /\ to = ChatOf(about)'
<1> SUFFICES ASSUME about # 0 PROVE IsPublished(about)' /\ to = ChatOf(about)'
  OBVIOUS
<1>1. IsPublished(about) /\ to = ChatOf(about) /\ about \in Numbers
  BY PublishedFacts DEF Homeward
<1> QED
  BY <1>1, MessagesKept DEF IsPublished

LEMMA RouteKept ==
  ASSUME TypeInv, RouteInv, RepliesGoBack,
         \A i \in Numbers : i \in Numbers' /\ events'[i] = events[i],
         UNCHANGED <<kind, published, inbox, outbox, settled>>,
         sender'.about = sender.about, sender'.to = sender.to
  PROVE  RouteInv' /\ RepliesGoBack'
<1>1. \A i : IsPublished(i)' <=> IsPublished(i)
  BY DEF IsPublished
<1>2. ASSUME NEW k \in DOMAIN outbox PROVE Homeward(outbox[k].about, outbox[k].to)'
  <2>1. Homeward(outbox[k].about, outbox[k].to)
    BY DEF RouteInv
  <2> QED
    BY <2>1, HomewardKept DEF Homeward, IsPublished, ChatOf
<1>3. Homeward(sender.about, sender.to)'
  <2>1. Homeward(sender.about, sender.to)
    BY DEF RouteInv
  <2> QED
    BY <2>1, HomewardKept DEF Homeward, IsPublished, ChatOf
<1>4. \A k \in DOMAIN inbox : IsPublished(inbox[k])'
  BY DEF RouteInv, IsPublished
<1>5. \A s \in DOMAIN settled : settled[s].about # 0 => IsPublished(settled[s].about)'
  BY DEF RouteInv, IsPublished
<1>6. ASSUME NEW s \in DOMAIN settled PROVE GoesBack(settled[s].about, settled[s].shown)'
  <2>1. GoesBack(settled[s].about, settled[s].shown)
    BY RepliesGoBackParts
  <2>2. settled[s].about # 0 => settled[s].about \in Numbers
    BY PublishedFacts DEF RouteInv
  <2>3. \A j \in Numbers : Unaddressed(j) => j \in Numbers' /\ Unaddressed(j)'
    BY MessagesKept
  <2> QED
    BY <2>1, <2>2, <2>3 DEF GoesBack, Unaddressed
<1>7. RepliesGoBack'
  BY <1>6 DEF RepliesGoBack, GoesBack
<1> QED
  BY <1>2, <1>3, <1>4, <1>5, <1>7 DEF RouteInv

LEMMA HandlerKeepsHome ==
  ASSUME TypeInv, HomeInv, NEW t \in Threads, Handler(t)
  PROVE  HomeInv'
<1>1. UNCHANGED <<kind, events, outbox, sender, settled>> /\ Threads' = Threads
  BY DEF Handler, Receive, Filter, StoreWebhook, StartThinking, SendPlaceholder, KeepPlaceholder,
         HandleMessage, HandlerStep, outVars, Threads
<1>2. CASE Receive(t) \/ Filter(t) \/ StartThinking(t) \/ SendPlaceholder(t) \/ KeepPlaceholder(t)
  <2>1. UNCHANGED <<webhooks, published, inbox>>
    BY <1>2 DEF Receive, Filter, StartThinking, SendPlaceholder, KeepPlaceholder
  <2>2. ASSUME NEW u \in Threads, handler'[u].at = "publishing"
        PROVE  \/ handler'[u] = handler[u]
               \/ kind \notin {"qq", "dingtalk"}
               \/ /\ kind = "qq" /\ handler'[u].id \in Numbers
                  /\ events[handler'[u].id].from # NoUser
    <3>1. CASE Receive(t)
      BY <2>2, <3>1, ReceiveEffect
    <3>2. CASE Filter(t)
      BY <2>2, <3>2, FilterEffect DEF Dropped
    <3>3. CASE StartThinking(t) \/ SendPlaceholder(t) \/ KeepPlaceholder(t)
      BY <2>2, <3>3, TelegramEffect
    <3> QED
      BY <1>2, <3>1, <3>2, <3>3
  <2> QED
    BY <1>1, <2>1, <2>2, WebhookKept, RouteKept DEF HomeInv, Numbers
<1>3. CASE StoreWebhook(t)
  <2> DEFINE i == handler[t].id
             c == ChatOf(i)
             h == events[i].in
  <2>1. /\ kind = "dingtalk" /\ i \in Numbers /\ handler'[t].id = i
        /\ \A u \in Threads \ {t} : handler'[u] = handler[u]
        /\ webhooks' = [webhooks EXCEPT ![c] = h]
    BY <1>3, StoreWebhookEffect
  <2>2. UNCHANGED <<published, inbox>>
    BY <1>3 DEF StoreWebhook
  <2>3. /\ webhooks \in [Chats -> Conversations \cup {None}] /\ c \in Chats /\ h # None
        /\ h = c \/ (c = NoUser /\ Unaddressed(i))
    BY <2>1, EventFacts, Constants DEF TypeInv, MapType, Unaddressed
  <2>4. LeadsHome(c, h)
    BY <2>1, <2>3 DEF LeadsHome
  <2> HIDE DEF c, h
  <2>5. \A x \in Chats : webhooks'[x] = IF x = c THEN h ELSE webhooks[x]
    BY <2>1, <2>3
  <2>6. \A x \in Chats : LeadsHome(x, webhooks'[x])
    BY <2>4, <2>5 DEF HomeInv, WebhookInv
  <2>7. \A j \in Numbers : Answerable(j) \/ j = i => webhooks'[ChatOf(j)] # None
    BY <2>1, <2>3, <2>5, EventFacts DEF TypeInv, Answerable, c
  <2>8. ASSUME NEW u \in Threads, handler'[u].at = "publishing"
        PROVE  webhooks'[ChatOf(handler'[u].id)] # None
    <3>1. CASE u = t
      BY <2>1, <2>7, <3>1
    <3>2. CASE u # t
      <4>1. handler'[u] = handler[u] /\ handler[u].id \in Numbers
        BY <2>1, <2>8, <3>2, HandlerFacts
      <4>2. Answerable(handler[u].id)
        BY <2>8, <4>1 DEF HomeInv, WebhookInv
      <4> QED
        BY <2>7, <4>1, <4>2
    <3> QED
      BY <3>1, <3>2
  <2>9. ASSUME NEW k \in DOMAIN published
        PROVE  webhooks'[ChatOf(published[k])] # None
    BY <2>7, PublishedFacts DEF HomeInv, WebhookInv
  <2>10. WebhookInv'
    <3>1. \A x \in Chats : LeadsHome(x, webhooks[x])'
      BY <1>1, <2>6 DEF LeadsHome, Unaddressed, Numbers
    <3>2. \A j : webhooks'[ChatOf(j)] # None => Answerable(j)'
      BY <1>1, <2>1 DEF Answerable, ChatOf
    <3> QED
      BY <1>1, <2>2, <2>8, <2>9, <3>1, <3>2 DEF WebhookInv
  <2> QED
    BY <1>1, <2>2, <2>10, RouteKept DEF HomeInv, Numbers
<1>4. CASE HandleMessage(t)
  <2> DEFINE i == handler[t].id
  <2>1. /\ handler[t].at = "publishing" /\ i \in Numbers /\ handler'[t].at = "idle"
        /\ \A u \in Threads \ {t} : handler'[u] = handler[u]
        /\ \/ inbox' = Append(inbox, i) /\ published' = Append(published, i)
           \/ UNCHANGED <<inbox, published>>
    BY <1>4, HandleMessageEffect
  <2>2. UNCHANGED webhooks
    BY <1>4 DEF HandleMessage
  <2>3. \A u \in Threads : handler'[u].at = "publishing" => handler'[u] = handler[u]
    BY <2>1
  <2>4. CASE UNCHANGED <<inbox, published>>
    BY <1>1, <2>2, <2>3, <2>4, WebhookKept, RouteKept DEF HomeInv, Numbers
  <2>5. CASE inbox' = Append(inbox, i) /\ published' = Append(published, i)
    <3>1. published \in Seq(Numbers) /\ inbox \in Seq(Numbers)
      BY PublishedFacts
    <3>2. Answerable(i)
      BY <2>1 DEF HomeInv, WebhookInv
    <3> HIDE DEF i
    <3>3. \A k \in DOMAIN published' : \/ k \in DOMAIN published /\ published'[k] = published[k]
                                       \/ k = Len(published) + 1 /\ published'[k] = i
      <4>1. i \in Numbers /\ published' = Append(published, i)
        BY <2>1, <2>5
      <4> QED
        BY <3>1, <4>1, AppendEntries
    <3>4. \A k \in DOMAIN inbox' : \/ k \in DOMAIN inbox /\ inbox'[k] = inbox[k]
                                   \/ k = Len(inbox) + 1 /\ inbox'[k] = i
      <4>1. i \in Numbers /\ inbox' = Append(inbox, i)
        BY <2>1, <2>5
      <4> QED
        BY <3>1, <4>1, AppendEntries
    <3>5. /\ \A k \in DOMAIN published : k \in DOMAIN published' /\ published'[k] = published[k]
          /\ Len(published) + 1 \in DOMAIN published' /\ published'[Len(published) + 1] = i
      BY <2>1, <2>5, <3>1, AppendType
    <3>6. /\ \E k \in DOMAIN published' : published'[k] = i
          /\ \A j : IsPublished(j) => \E k \in DOMAIN published' : published'[k] = j
      BY <3>5 DEF IsPublished
    <3>7. WebhookInv'
      <4>1. \A c \in Chats : LeadsHome(c, webhooks[c])'
        BY <1>1, <2>2 DEF HomeInv, WebhookInv, LeadsHome, Unaddressed, Numbers
      <4>2. \A j : Answerable(j) => Answerable(j)'
        BY <1>1, <2>2 DEF Answerable, ChatOf
      <4>3. \A u \in Threads : handler'[u].at = "publishing" => Answerable(handler'[u].id)
        BY <2>3 DEF HomeInv, WebhookInv
      <4>4. \A k \in DOMAIN published' : Answerable(published'[k])
        BY <3>2, <3>3 DEF HomeInv, WebhookInv
      <4> QED
        BY <1>1, <4>1, <4>2, <4>3, <4>4 DEF WebhookInv
    <3>8. RouteInv'
      <4>1. \A k \in DOMAIN inbox' : \E j \in DOMAIN published' : published'[j] = inbox'[k]
        BY <3>4, <3>6 DEF HomeInv, RouteInv
      <4>2. \A k \in DOMAIN outbox : outbox[k].about # 0 =>
                 /\ \E j \in DOMAIN published' : published'[j] = outbox[k].about
                 /\ outbox[k].to = ChatOf(outbox[k].about)
        BY <3>6 DEF HomeInv, RouteInv, Homeward
      <4>3. sender.about # 0 => /\ \E j \in DOMAIN published' : published'[j] = sender.about
                                /\ sender.to = ChatOf(sender.about)
        BY <3>6 DEF HomeInv, RouteInv, Homeward
      <4>4. \A s \in DOMAIN settled : settled[s].about # 0 =>
                 \E j \in DOMAIN published' : published'[j] = settled[s].about
        BY <3>6 DEF HomeInv, RouteInv
      <4> QED
        BY <1>1, <4>1, <4>2, <4>3, <4>4 DEF RouteInv, Homeward, IsPublished, ChatOf
    <3>9. RepliesGoBack'
      BY <1>1 DEF HomeInv, RepliesGoBack, Unaddressed, Numbers
    <3> QED
      BY <3>7, <3>8, <3>9 DEF HomeInv
  <2> QED
    BY <2>1, <2>4, <2>5
<1> QED
  BY <1>2, <1>3, <1>4 DEF Handler

(* The agent's answers and the other messages, which answer nothing. *)
LEMMA QueueKeepsHome ==
  ASSUME TypeInv, HomeInv, Answer \/ Notify
  PROVE  HomeInv'
<1>1. UNCHANGED <<kind, events, handler, published, webhooks, sender, settled>> /\ Threads' = Threads
  BY DEF Answer, Notify, inVars, Threads
<1>2. WebhookInv'
  BY <1>1, WebhookKept DEF HomeInv, Numbers
<1>3. PICK m \in Texts : outbox' = Append(outbox, m) /\ Homeward(m.about, m.to)
  <2>1. CASE Answer
    <3> DEFINE i == Head(inbox)
    <3>1. /\ inbox # <<>> /\ [about |-> i, to |-> ChatOf(i)] \in Texts
          /\ outbox' = Append(outbox, [about |-> i, to |-> ChatOf(i)])
      BY <2>1, AnswerEffect
    <3>2. i = inbox[1] /\ 1 \in DOMAIN inbox
      BY <3>1, PublishedFacts, TailType
    <3>3. IsPublished(i)
      BY <3>2 DEF HomeInv, RouteInv
    <3> QED
      BY <3>1, <3>3 DEF Homeward
  <2>2. CASE Notify
    BY <2>2, NotifyEffect DEF Homeward
  <2> QED
    BY <2>1, <2>2
<1>4. outbox \in Seq(Texts)
  BY DEF TypeInv, OutType
<1>5. \A k \in DOMAIN outbox' : \/ k \in DOMAIN outbox /\ outbox'[k] = outbox[k]
                                \/ k = Len(outbox) + 1 /\ outbox'[k] = m
  BY <1>3, <1>4, AppendEntries
<1>6. \A k \in DOMAIN outbox' : Homeward(outbox'[k].about, outbox'[k].to)
  BY <1>3, <1>5 DEF HomeInv, RouteInv
<1>7. \A k \in DOMAIN inbox' : IsPublished(inbox'[k])
  <2>1. CASE Answer
    <3>1. inbox # <<>> /\ inbox' = Tail(inbox) /\ inbox \in Seq(Numbers)
      BY <2>1, PublishedFacts DEF Answer
    <3>2. \A k \in DOMAIN inbox' : k + 1 \in DOMAIN inbox /\ inbox'[k] = inbox[k + 1]
      BY <3>1, TailEntries
    <3> QED
      BY <3>2 DEF HomeInv, RouteInv
  <2>2. CASE Notify
    BY <2>2 DEF Notify, inVars, HomeInv, RouteInv
  <2> QED
    BY <2>1, <2>2
<1>8. RouteInv'
  BY <1>1, <1>6, <1>7 DEF HomeInv, RouteInv, Homeward, IsPublished, ChatOf
<1>9. RepliesGoBack'
  BY <1>1 DEF HomeInv, RepliesGoBack, Unaddressed, Numbers
<1> QED
  BY <1>2, <1>8, <1>9 DEF HomeInv

(* A text sent to its message's chat comes out in the conversation; on QQ, *)
(* if that is a group, nowhere; and if the message is unaddressed, in that *)
(* of an unaddressed message.                                              *)
LEMMA ReachedGoesBack ==
  ASSUME TypeInv, WebhookInv, NEW about, NEW to, Homeward(about, to)
  PROVE  GoesBack(about, Reached(kind, to, webhooks[to]))
<1> SUFFICES ASSUME about # 0 PROVE GoesBack(about, Reached(kind, to, webhooks[to]))
  BY DEF GoesBack
<1> DEFINE c == events[about].in
<1>1. IsPublished(about) /\ to = ChatOf(about) /\ about \in Numbers /\ Answerable(about)
  BY PublishedFacts DEF Homeward, WebhookInv, IsPublished
<1>2. /\ c \in Conversations /\ c \in Chats /\ to \in Chats /\ (c = Device <=> kind = "maixcam")
      /\ \/ to = c
         \/ /\ kind \in {"qq", "dingtalk"} /\ c \in Users
            /\ events[about].from = NoUser /\ to = NoUser
  BY <1>1, EventFacts DEF TypeInv, EventType
<1> HIDE DEF c
<1>3. CASE kind = "qq"
  <2>1. to = c
    BY <1>1, <1>2, <1>3 DEF Answerable
  <2>2. c \in Users \/ c \in Groups
    BY <1>2, <1>3 DEF Conversations
  <2> QED
    BY <1>3, <2>1, <2>2 DEF Reached, GoesBack, c
<1>4. CASE kind = "dingtalk"
  <2>1. Reached(kind, to, webhooks[to]) = webhooks[to]
    BY <1>4 DEF Reached
  <2>2. /\ webhooks[to] \in Conversations
        /\ LeadsHome(to, webhooks[to])
    BY <1>1, <1>2, <1>4 DEF WebhookInv, Answerable, TypeInv, MapType
  <2>3. CASE to = c
    BY <1>2, <2>1, <2>2, <2>3, Constants DEF LeadsHome, GoesBack, c
  <2>4. CASE to = NoUser /\ Unaddressed(about)
    BY <2>1, <2>2, <2>4, Constants DEF LeadsHome, GoesBack
  <2> QED
    BY <1>2, <1>4, <2>3, <2>4 DEF Unaddressed, c
<1>5. CASE kind \notin {"qq", "dingtalk"}
  BY <1>2, <1>5 DEF Reached, GoesBack, c
<1> QED
  BY <1>3, <1>4, <1>5

LEMMA SendKeepsHome ==
  ASSUME TypeInv, HomeInv, Send
  PROVE  HomeInv'
<1>1. UNCHANGED <<kind, events, handler, inbox, published, webhooks>> /\ Threads' = Threads
  BY DEF Send, Take, StopThinking, ForgetStop, LoadPlaceholder, TakePlaceholder,
         EditPlaceholder, SendNew, SendStep, inVars, Threads
<1>2. WebhookInv'
  BY <1>1, WebhookKept DEF HomeInv, Numbers
<1>3. CASE StopThinking \/ ForgetStop \/ LoadPlaceholder \/ TakePlaceholder
  <2>1. UNCHANGED <<outbox, settled>> /\ sender'.about = sender.about /\ sender'.to = sender.to
    BY <1>3, PrepareEffect
  <2> QED
    BY <1>1, <1>2, <2>1, RouteKept DEF HomeInv, Numbers
<1>4. CASE Take
  <2>1. /\ outbox # <<>> /\ outbox' = Tail(outbox) /\ UNCHANGED settled
        /\ sender'.about = Head(outbox).about /\ sender'.to = Head(outbox).to
    BY <1>4, TakeEffect DEF Take
  <2>2. outbox \in Seq(Texts)
    BY DEF TypeInv, OutType
  <2>3. Head(outbox) = outbox[1] /\ 1 \in DOMAIN outbox
    BY <2>1, <2>2, TailType
  <2>4. \A k \in DOMAIN outbox' : k + 1 \in DOMAIN outbox /\ outbox'[k] = outbox[k + 1]
    BY <2>1, <2>2, TailEntries
  <2>5. Homeward(sender'.about, sender'.to)
    BY <2>1, <2>3 DEF HomeInv, RouteInv
  <2>6. \A k \in DOMAIN outbox' : Homeward(outbox'[k].about, outbox'[k].to)
    BY <2>4 DEF HomeInv, RouteInv
  <2>7. RouteInv'
    BY <1>1, <2>1, <2>5, <2>6 DEF HomeInv, RouteInv, Homeward, IsPublished, ChatOf
  <2>8. RepliesGoBack'
    BY <1>1, <2>1 DEF HomeInv, RepliesGoBack, Unaddressed, Numbers
  <2> QED
    BY <1>2, <2>7, <2>8 DEF HomeInv
<1>5. CASE EditPlaceholder \/ SendNew
  <2>1. UNCHANGED outbox
    BY <1>5, SettleEffect
  <2>2. CASE sender' = [sender EXCEPT !.at = "sending"] /\ UNCHANGED settled
    <3>1. sender'.about = sender.about /\ sender'.to = sender.to
      BY <2>2, SenderFacts DEF SenderStates
    <3> QED
      BY <1>1, <1>2, <2>1, <2>2, <3>1, RouteKept DEF HomeInv, Numbers
  <2>3. CASE \E m \in SettledTexts : SettlesAs(m)
    <3>1. PICK m \in SettledTexts : SettlesAs(m)
      BY <2>3
    <3>2. /\ m.about = sender.about /\ settled' = Append(settled, m) /\ sender' = NotSending
          /\ \/ m.shown \in {"lost", Reached(kind, sender.to, webhooks[sender.to])}
             \/ m.shown = sender.to /\ sender.at = "editing"
      BY <3>1 DEF SettlesAs
    <3>3. Homeward(sender.about, sender.to)
      BY DEF HomeInv, RouteInv
    <3>4. GoesBack(m.about, m.shown)
      <4>1. GoesBack(sender.about, Reached(kind, sender.to, webhooks[sender.to]))
        BY <3>3, ReachedGoesBack DEF HomeInv
      <4>2. GoesBack(sender.about, "lost")
        BY DEF GoesBack
      <4>3. sender.at = "editing" => Reached(kind, sender.to, webhooks[sender.to]) = sender.to
        BY SenderFacts DEF Reached
      <4> QED
        BY <3>2, <4>1, <4>2, <4>3
    <3>5. settled \in Seq(SettledTexts)
      BY DEF TypeInv, OutType
    <3>6. \A s \in DOMAIN settled' : \/ s \in DOMAIN settled /\ settled'[s] = settled[s]
                                     \/ s = Len(settled) + 1 /\ settled'[s] = m
      BY <3>2, <3>5, AppendEntries
    <3>7. \A s \in DOMAIN settled' : GoesBack(settled'[s].about, settled'[s].shown)
      BY <3>4, <3>6, RepliesGoBackParts DEF HomeInv
    <3>8. RepliesGoBack'
      BY <1>1, <3>7 DEF RepliesGoBack, GoesBack, Unaddressed, Numbers
    <3>9. \A s \in DOMAIN settled' : settled'[s].about # 0 => IsPublished(settled'[s].about)
      BY <3>2, <3>3, <3>6 DEF HomeInv, RouteInv, Homeward
    <3>10. sender'.about = 0
      BY <3>2 DEF NotSending
    <3>11. RouteInv'
      BY <1>1, <2>1, <3>9, <3>10 DEF HomeInv, RouteInv, Homeward, IsPublished, ChatOf
    <3> QED
      BY <1>2, <3>8, <3>11 DEF HomeInv
  <2> QED
    BY <1>5, <2>2, <2>3, SettleEffect
<1> QED
  BY <1>3, <1>4, <1>5 DEF Send

LEMMA HomeStep == TypeInv /\ HomeInv /\ [Next]_vars => HomeInv'
<1> SUFFICES ASSUME TypeInv, HomeInv, [Next]_vars PROVE HomeInv'
  OBVIOUS
<1>1. ASSUME UNCHANGED <<kind, events, handler, inbox, published, webhooks, outbox, sender, settled>>
      PROVE  HomeInv'
  BY <1>1, WebhookKept, RouteKept DEF HomeInv, Threads, Numbers
<1>2. CASE UNCHANGED vars
  BY <1>1, <1>2 DEF vars, inVars, outVars
<1>3. ASSUME NEW e \in Shapes, Write(e) PROVE HomeInv'
  <2>1. /\ UNCHANGED <<kind, handler, inbox, published, webhooks, outbox, sender, settled>>
        /\ Threads' = Threads /\ \A i \in Numbers : i \in Numbers' /\ events'[i] = events[i]
    BY <1>3, WriteEffect
  <2> QED
    BY <2>1, WebhookKept, RouteKept DEF HomeInv
<1>4. ASSUME NEW i \in Numbers, Tick(i) \/ Redraw(i) \/ EndAnimation(i) PROVE HomeInv'
  BY <1>1, <1>4 DEF Tick, Redraw, EndAnimation, AnimationOnly, inVars, outVars
<1> QED
  BY <1>2, <1>3, <1>4, HandlerKeepsHome, QueueKeepsHome, SendKeepsHome DEF Next

LEMMA InitHome == Init => HomeInv
<1> SUFFICES ASSUME Init PROVE HomeInv
  OBVIOUS
<1>1. /\ DOMAIN published = {} /\ DOMAIN inbox = {} /\ DOMAIN outbox = {} /\ DOMAIN settled = {}
      /\ sender.about = 0 /\ \A t \in Threads : handler[t].at = "idle"
      /\ \A c \in Chats : webhooks[c] = None
  BY DEF Init, Idle, NotSending
<1> QED
  BY <1>1 DEF HomeInv, WebhookInv, LeadsHome, RouteInv, RepliesGoBack, Homeward

LEMMA HomeInvariance == Spec => []HomeInv
  BY InitHome, HomeStep, TypeInvariance, PTL DEF Spec

(* An answer that is not lost comes out in the conversation its message    *)
(* was written in, although only a chat identifier travels with it and the *)
(* webhooks of DingTalk are replaced meanwhile; QQ's answers to a group    *)
(* come out nowhere; and that to a private message on DingTalk without the *)
(* author's staff id in the conversation of such a message, perhaps of     *)
(* another one.                                                            *)
THEOREM AnswersGoHome == Spec => []RepliesGoBack
<1>1. HomeInv => RepliesGoBack
  BY DEF HomeInv
<1> QED
  BY <1>1, HomeInvariance, PTL

-----------------------------------------------------------------------------
(* One answer.  The message moves from the inbound queue to the outbound   *)
(* one, to the dispatcher and to what is settled.                          *)

LEMMA SettledAppend ==
  ASSUME NEW S, NEW rep \in Seq(S), NEW m \in S
  PROVE  Settled(Append(rep, m)) = Settled(rep) \cup {m.about}
<1> DEFINE r == Append(rep, m)
<1>1. /\ DOMAIN rep = 1 .. Len(rep) /\ DOMAIN r = 1 .. Len(rep) + 1 /\ Len(rep) \in Nat
      /\ \A s \in DOMAIN rep : r[s] = rep[s]
      /\ r[Len(rep) + 1] = m
  BY AppendType
<1> HIDE DEF r
<1>2. Settled(r) = {r[s].about : s \in 1 .. Len(rep) + 1}
  BY <1>1 DEF Settled
<1>3. \A a : a \in Settled(r) <=> a \in Settled(rep) \/ a = m.about
  BY <1>1 DEF Settled
<1>4. Settled(r) = Settled(rep) \cup {m.about}
  BY <1>3
<1> QED
  BY <1>4 DEF r

LEMMA PublishPlace ==
  ASSUME NEW N, NEW in \in Seq(N), NEW i \in N, NEW out, NEW cur, NEW rep,
         InOnePlace(in, out, cur, rep),
         \A j \in DOMAIN in : in[j] # i, \A k \in DOMAIN out : out[k].about # i,
         cur # i, i \notin Settled(rep)
  PROVE  InOnePlace(Append(in, i), out, cur, rep)
<1> DEFINE q == Append(in, i)
<1>1. \A j \in DOMAIN q : \/ j \in DOMAIN in /\ j # Len(in) + 1 /\ q[j] = in[j]
                          \/ j = Len(in) + 1 /\ q[j] = i
  BY AppendEntries
<1> HIDE DEF q
<1>2. \A j, k \in DOMAIN q : j # k => q[j] # q[k]
  BY <1>1 DEF InOnePlace
<1>3. \A j \in DOMAIN q : \A k \in DOMAIN out : q[j] # out[k].about
  BY <1>1 DEF InOnePlace
<1>4. \A j \in DOMAIN q : q[j] # cur /\ q[j] \notin Settled(rep)
  BY <1>1 DEF InOnePlace
<1>5. InOnePlace(q, out, cur, rep)
  BY <1>2, <1>3, <1>4 DEF InOnePlace
<1> QED
  BY <1>5 DEF q

LEMMA AnswerPlace ==
  ASSUME NEW N, NEW in \in Seq(N), in # <<>>, NEW T, NEW out \in Seq(T), NEW m \in T,
         m.about = Head(in), NEW cur, NEW rep, InOnePlace(in, out, cur, rep)
  PROVE  InOnePlace(Tail(in), Append(out, m), cur, rep)
<1> DEFINE p == Tail(in)
           q == Append(out, m)
<1>1. \A j \in DOMAIN p : j + 1 \in DOMAIN in /\ j + 1 # 1 /\ p[j] = in[j + 1]
  BY TailEntries
<1>2. m.about = in[1] /\ 1 \in DOMAIN in /\ \A j \in DOMAIN p : j \in Nat
  BY TailType, TailEntries
<1>3. \A k \in DOMAIN q : \/ k \in DOMAIN out /\ k # Len(out) + 1 /\ q[k] = out[k]
                          \/ k = Len(out) + 1 /\ q[k] = m
  BY AppendEntries
<1> HIDE DEF p, q
<1>4. \A j, k \in DOMAIN p : j # k => p[j] # p[k]
  <2>1. SUFFICES ASSUME NEW j \in DOMAIN p, NEW k \in DOMAIN p, j # k PROVE p[j] # p[k]
    OBVIOUS
  <2>2. j + 1 # k + 1
    BY <1>2, <2>1
  <2>3. in[j + 1] # in[k + 1]
    BY <1>1, <2>2 DEF InOnePlace
  <2> QED
    BY <1>1, <2>3
<1>5. \A j, k \in DOMAIN q : j # k /\ q[j].about # 0 => q[j].about # q[k].about
  BY <1>2, <1>3 DEF InOnePlace
<1>6. \A j \in DOMAIN p : \A k \in DOMAIN q : p[j] # q[k].about
  BY <1>1, <1>2, <1>3 DEF InOnePlace
<1>7. \A j \in DOMAIN p : p[j] # cur /\ p[j] \notin Settled(rep)
  BY <1>1 DEF InOnePlace
<1>8. \A k \in DOMAIN q :
         q[k].about # 0 => q[k].about # cur /\ q[k].about \notin Settled(rep)
  BY <1>2, <1>3 DEF InOnePlace
<1>9. InOnePlace(p, q, cur, rep)
  BY <1>4, <1>5, <1>6, <1>7, <1>8 DEF InOnePlace
<1> QED
  BY <1>9 DEF p, q

LEMMA NoticePlace ==
  ASSUME NEW in, \A j \in DOMAIN in : in[j] # 0, NEW T, NEW out \in Seq(T), NEW m \in T,
         m.about = 0, NEW cur, NEW rep, InOnePlace(in, out, cur, rep)
  PROVE  InOnePlace(in, Append(out, m), cur, rep)
<1> DEFINE q == Append(out, m)
<1>1. \A k \in DOMAIN q : \/ k \in DOMAIN out /\ k # Len(out) + 1 /\ q[k] = out[k]
                          \/ k = Len(out) + 1 /\ q[k] = m
  BY AppendEntries
<1> HIDE DEF q
<1>2. \A j, k \in DOMAIN q : j # k /\ q[j].about # 0 => q[j].about # q[k].about
  BY <1>1 DEF InOnePlace
<1>3. \A j \in DOMAIN in : \A k \in DOMAIN q : in[j] # q[k].about
  BY <1>1 DEF InOnePlace
<1>4. \A k \in DOMAIN q :
         q[k].about # 0 => q[k].about # cur /\ q[k].about \notin Settled(rep)
  BY <1>1 DEF InOnePlace
<1>5. InOnePlace(in, q, cur, rep)
  BY <1>2, <1>3, <1>4 DEF InOnePlace
<1> QED
  BY <1>5 DEF q

LEMMA TakePlace ==
  ASSUME NEW in, NEW T, NEW out \in Seq(T), out # <<>>, NEW rep, InOnePlace(in, out, 0, rep)
  PROVE  InOnePlace(in, Tail(out), Head(out).about, rep)
<1> DEFINE q == Tail(out)
<1>1. \A k \in DOMAIN q : k + 1 \in DOMAIN out /\ k + 1 # 1 /\ q[k] = out[k + 1]
  BY TailEntries
<1>2. Head(out) = out[1] /\ 1 \in DOMAIN out /\ \A k \in DOMAIN q : k \in Nat
  BY TailType, TailEntries
<1> HIDE DEF q
<1>3. \A j, k \in DOMAIN q : j # k /\ q[j].about # 0 => q[j].about # q[k].about
  <2>1. SUFFICES ASSUME NEW j \in DOMAIN q, NEW k \in DOMAIN q, j # k, q[j].about # 0
                 PROVE  q[j].about # q[k].about
    OBVIOUS
  <2>2. j + 1 # k + 1
    BY <1>2, <2>1
  <2>3. out[j + 1].about # out[k + 1].about
    BY <1>1, <2>1, <2>2 DEF InOnePlace
  <2> QED
    BY <1>1, <2>3
<1>4. \A j \in DOMAIN in : \A k \in DOMAIN q : in[j] # q[k].about
  BY <1>1 DEF InOnePlace
<1>5. \A j \in DOMAIN in : in[j] # out[1].about /\ in[j] \notin Settled(rep)
  BY <1>2 DEF InOnePlace
<1>6. \A k \in DOMAIN q :
         q[k].about # 0 => q[k].about # out[1].about /\ q[k].about \notin Settled(rep)
  BY <1>1, <1>2 DEF InOnePlace
<1>7. out[1].about # 0 => out[1].about \notin Settled(rep)
  BY <1>2 DEF InOnePlace
<1>8. InOnePlace(in, q, out[1].about, rep)
  BY <1>3, <1>4, <1>5, <1>6, <1>7 DEF InOnePlace
<1> QED
  BY <1>2, <1>8 DEF q

LEMMA SettlePlace ==
  ASSUME NEW in, \A j \in DOMAIN in : in[j] # 0, NEW out, NEW cur,
         NEW S, NEW rep \in Seq(S), NEW m \in S, m.about = cur, InOnePlace(in, out, cur, rep)
  PROVE  InOnePlace(in, out, 0, Append(rep, m))
<1>1. Settled(Append(rep, m)) = Settled(rep) \cup {cur}
  BY SettledAppend
<1> QED
  BY <1>1 DEF InOnePlace

LEMMA InboxFacts ==
  ASSUME TypeInv
  PROVE  /\ inbox \in Seq(Numbers) /\ \A k \in DOMAIN inbox : inbox[k] # 0
         /\ outbox \in Seq(Texts) /\ settled \in Seq(SettledTexts)
<1>1. 0 \notin Numbers
  BY EventFacts DEF TypeInv
<1> QED
  BY <1>1, PublishedFacts DEF TypeInv, OutType

(* What a Telegram handler is about to publish has not been published, and *)
(* so is nowhere on its way back.                                          *)
LEMMA NotYetPublished ==
  ASSUME TypeInv, PathInv, HomeInv, kind = "telegram", NEW t \in Threads,
         handler[t].at # "idle"
  PROVE  LET i == handler[t].id
         IN  /\ i \in Numbers /\ i # 0 /\ ~IsPublished(i)
             /\ \A k \in DOMAIN inbox : inbox[k] # i
             /\ \A k \in DOMAIN outbox : outbox[k].about # i
             /\ sender.about # i /\ i \notin Settled(settled) /\ ~Answered(i)
<1> DEFINE i == handler[t].id
<1>1. i \in Numbers /\ i # 0
  BY HandlerFacts, EventFacts DEF TypeInv
<1>2. Passed(t)
  BY PlaceKinds DEF Passed
<1>3. ~IsPublished(i)
  BY <1>2 DEF PathInv, OneHandler, AllKnown
<1> HIDE DEF i
<1>4. \A k \in DOMAIN inbox : inbox[k] # i
  BY <1>3 DEF HomeInv, RouteInv
<1>5. \A k \in DOMAIN outbox : outbox[k].about # i
  BY <1>1, <1>3 DEF HomeInv, RouteInv, Homeward
<1>6. sender.about # i
  BY <1>1, <1>3 DEF HomeInv, RouteInv, Homeward
<1>7. \A s \in DOMAIN settled : settled[s].about # i
  BY <1>1, <1>3 DEF HomeInv, RouteInv
<1>8. i \notin Settled(settled) /\ ~Answered(i)
  BY <1>7 DEF Settled, Answered
<1> QED
  BY <1>1, <1>3, <1>4, <1>5, <1>6, <1>8 DEF i

LEMMA AnswerStep ==
  TypeInv /\ PathInv /\ HomeInv /\ AnswerInv /\ [Next]_vars => AnswerInv'
<1> SUFFICES ASSUME TypeInv, PathInv, HomeInv, AnswerInv, [Next]_vars, kind' = "telegram"
             PROVE  InOnePlace(inbox', outbox', sender'.about, settled')
  BY DEF AnswerInv
<1>1. ASSUME UNCHANGED <<kind, inbox, outbox, sender, settled>>
      PROVE  InOnePlace(inbox', outbox', sender'.about, settled')
  BY <1>1 DEF AnswerInv
<1>2. CASE UNCHANGED vars
  BY <1>1, <1>2 DEF vars, inVars, outVars
<1>3. ASSUME NEW e \in Shapes, Write(e)
      PROVE  InOnePlace(inbox', outbox', sender'.about, settled')
  BY <1>1, <1>3, WriteEffect
<1>4. ASSUME NEW t \in Threads, Handler(t)
      PROVE  InOnePlace(inbox', outbox', sender'.about, settled')
  <2>1. UNCHANGED <<kind, outbox, sender, settled>>
    BY <1>4 DEF Handler, Receive, Filter, StoreWebhook, StartThinking, SendPlaceholder,
                KeepPlaceholder, HandleMessage, HandlerStep, outVars
  <2>2. CASE ~HandleMessage(t)
    <3>1. UNCHANGED inbox
      BY <1>4, <2>2 DEF Handler, Receive, Filter, StoreWebhook, StartThinking, SendPlaceholder,
                        KeepPlaceholder
    <3> QED
      BY <1>1, <2>1, <3>1
  <2>3. CASE HandleMessage(t)
    <3>1. handler[t].at = "publishing" /\ inbox' \in {inbox, Append(inbox, handler[t].id)}
      BY <2>3, HandleMessageEffect
    <3>2. CASE inbox' = Append(inbox, handler[t].id)
      <4>1. InOnePlace(inbox, outbox, sender.about, settled)
        BY <2>1 DEF AnswerInv
      <4>2. InOnePlace(Append(inbox, handler[t].id), outbox, sender.about, settled)
        <5> DEFINE i == handler[t].id
        <5>1. /\ i \in Numbers
              /\ \A k \in DOMAIN inbox : inbox[k] # i
              /\ \A k \in DOMAIN outbox : outbox[k].about # i
              /\ sender.about # i /\ i \notin Settled(settled)
          BY <2>1, <3>1, NotYetPublished
        <5> HIDE DEF i
        <5>2. InOnePlace(Append(inbox, i), outbox, sender.about, settled)
          BY <4>1, <5>1, InboxFacts, PublishPlace
        <5> QED
          BY <5>2 DEF i
      <4> QED
        BY <2>1, <3>2, <4>2
    <3> QED
      BY <1>1, <2>1, <3>1, <3>2
  <2> QED
    BY <2>2, <2>3
<1>5. CASE Answer
  <2>1. UNCHANGED <<kind, sender, settled>>
    BY <1>5 DEF Answer
  <2>2. PICK m \in Texts : /\ inbox # <<>> /\ inbox' = Tail(inbox)
                           /\ m.about = Head(inbox) /\ outbox' = Append(outbox, m)
    BY <1>5, AnswerEffect
  <2>3. InOnePlace(inbox, outbox, sender.about, settled)
    BY <2>1 DEF AnswerInv
  <2>4. InOnePlace(Tail(inbox), Append(outbox, m), sender.about, settled)
    BY <2>2, <2>3, InboxFacts, AnswerPlace
  <2> QED
    BY <2>1, <2>2, <2>4
<1>6. CASE Notify
  <2>1. UNCHANGED <<kind, inbox, sender, settled>>
    BY <1>6 DEF Notify, inVars
  <2>2. PICK m \in Texts : m.about = 0 /\ outbox' = Append(outbox, m)
    BY <1>6, NotifyEffect
  <2>3. InOnePlace(inbox, outbox, sender.about, settled)
    BY <2>1 DEF AnswerInv
  <2>4. InOnePlace(inbox, Append(outbox, m), sender.about, settled)
    BY <2>2, <2>3, InboxFacts, NoticePlace
  <2> QED
    BY <2>1, <2>2, <2>4
<1>7. CASE Send
  <2>1. UNCHANGED <<kind, inbox>>
    BY <1>7 DEF Send, Take, StopThinking, ForgetStop, LoadPlaceholder, TakePlaceholder,
                EditPlaceholder, SendNew, SendStep, inVars
  <2>2. InOnePlace(inbox, outbox, sender.about, settled)
    BY <2>1 DEF AnswerInv
  <2>3. CASE StopThinking \/ ForgetStop \/ LoadPlaceholder \/ TakePlaceholder
    BY <2>1, <2>2, <2>3, PrepareEffect
  <2>4. CASE Take
    <3>1. /\ outbox # <<>> /\ outbox' = Tail(outbox) /\ sender.about = 0
          /\ sender'.about = Head(outbox).about /\ UNCHANGED settled
      BY <2>4, TakeEffect DEF Take
    <3>2. InOnePlace(inbox, Tail(outbox), Head(outbox).about, settled)
      BY <2>2, <3>1, InboxFacts, TakePlace
    <3> QED
      BY <2>1, <3>1, <3>2
  <2>5. CASE EditPlaceholder \/ SendNew
    <3>1. UNCHANGED outbox
      BY <2>5, SettleEffect
    <3>2. CASE sender' = [sender EXCEPT !.at = "sending"] /\ UNCHANGED settled
      <4>1. sender'.about = sender.about
        BY <3>2, SenderFacts DEF SenderStates
      <4> QED
        BY <2>1, <2>2, <3>1, <3>2, <4>1
    <3>3. CASE \E m \in SettledTexts : SettlesAs(m)
      <4>1. PICK m \in SettledTexts : SettlesAs(m)
        BY <3>3
      <4>2. m.about = sender.about /\ settled' = Append(settled, m) /\ sender' = NotSending
        BY <4>1 DEF SettlesAs
      <4>3. InOnePlace(inbox, outbox, 0, Append(settled, m))
        BY <2>2, <4>2, InboxFacts, SettlePlace
      <4>4. sender'.about = 0
        BY <4>2 DEF NotSending
      <4> QED
        BY <2>1, <3>1, <4>2, <4>3, <4>4
    <3> QED
      BY <2>5, <3>2, <3>3, SettleEffect
  <2> QED
    BY <1>7, <2>3, <2>4, <2>5 DEF Send
<1>8. ASSUME NEW i \in Numbers, Tick(i) \/ Redraw(i) \/ EndAnimation(i)
      PROVE  InOnePlace(inbox', outbox', sender'.about, settled')
  BY <1>1, <1>8 DEF Tick, Redraw, EndAnimation, AnimationOnly, inVars, outVars
<1> QED
  BY <1>2, <1>3, <1>4, <1>5, <1>6, <1>7, <1>8 DEF Next

-----------------------------------------------------------------------------
(* Messages under way.                                                     *)

LEMMA TelegramThread == kind = "telegram" => Threads = {1}
  BY DEF Threads

LEMMA StartedFacts ==
  ASSUME TypeInv, NEW i, Started(i)
  PROVE  i \in Numbers
<1>1. CASE IsPublished(i)
  BY <1>1, PublishedFacts
<1>2. CASE \E t \in Threads :
             handler[t].id = i /\ handler[t].at \in {"placing", "keeping", "publishing"}
  BY <1>2, HandlerFacts
<1> QED
  BY <1>1, <1>2 DEF Started

(* Steps that start no message. *)
LEMMA CrowdKept ==
  ASSUME TypeInv, CrowdInv, kind = "telegram", UNCHANGED <<kind, published>>, Threads' = Threads,
         crowded \subseteq crowded', \A i \in Numbers : events'[i] = events[i],
         \A t \in Threads : handler'[t].at # "idle" =>
            handler'[t].id \in Numbers /\ ~Dropped(kind, events[handler'[t].id]),
         \A t \in Threads : handler'[t].at \in {"placing", "keeping", "publishing"} =>
            /\ handler[t].at \in {"placing", "keeping", "publishing"}
            /\ handler'[t].id = handler[t].id,
         \A i : Answered(i) => Answered(i)'
  PROVE  CrowdInv'
<1>1. \A t \in Threads : handler'[t].at # "idle" => ~Dropped(kind', events'[handler'[t].id])
  OBVIOUS
<1>2. \A k \in DOMAIN published : published[k] \in Numbers
  BY PublishedFacts
<1>3. \A k \in DOMAIN published : IsAllowed(kind', events'[published[k]])
                                  /\ ~Dropped(kind', events'[published[k]])
  BY <1>2 DEF CrowdInv, Allowed
<1>4. ASSUME NEW i, UnderWay(i)' PROVE i \in Numbers /\ UnderWay(i)
  <2>1. Started(i)
    BY <1>4 DEF UnderWay, Started, IsPublished
  <2>2. i \in Numbers
    BY <2>1, StartedFacts
  <2>3. Allowed(i) /\ ~Answered(i)
    BY <1>4, <2>2 DEF UnderWay, Allowed
  <2> QED
    BY <2>1, <2>2, <2>3 DEF UnderWay
<1>5. ASSUME NEW i \in Numbers', NEW j \in Numbers', i # j, events'[i].in = events'[j].in,
             UnderWay(i)', UnderWay(j)'
      PROVE  i \in crowded'
  BY <1>4, <1>5 DEF CrowdInv
<1> QED
  BY <1>1, <1>3, <1>5 DEF CrowdInv, Allowed

(* Of a message that starts while another one of its chat waits for its    *)
(* answer, and of that one, the channel takes note.                        *)
LEMMA StartNotesWaiting ==
  ASSUME TypeInv, PathInv, CrowdInv, NEW t \in Threads, StartThinking(t),
         NEW j \in Numbers, j # handler[t].id, IsPublished(j), ~Answered(j),
         events[j].in = events[handler[t].id].in
  PROVE  handler[t].id \in crowded' /\ j \in crowded'
<1>0. PICK i : i = handler[t].id
  OBVIOUS
<1>1. kind = "telegram" /\ i \in Numbers
  BY <1>0, TelegramEffect
<1>2. ChatOf(i) = events[i].in /\ ChatOf(j) = events[i].in
  BY <1>0, <1>1, EventFacts DEF TypeInv
<1>3. undelivered[j] = 0
  BY <1>1 DEF PathInv, AllKnown, IsPublished, Known
<1>4. ~Dropped(kind, events[j]) /\ IsAllowed(kind, events[j])
  BY <1>1 DEF CrowdInv, IsPublished, Allowed
<1>5. j \in Waiting(ChatOf(i))
  BY <1>2, <1>3, <1>4 DEF Waiting
<1>6. crowded' = crowded \cup Waiting(ChatOf(i)) \cup {i}
  BY <1>0, <1>5 DEF StartThinking
<1> QED
  BY <1>0, <1>5, <1>6

LEMMA StartKeepsCrowd ==
  ASSUME TypeInv, PathInv, CrowdInv, NEW t \in Threads, StartThinking(t)
  PROVE  CrowdInv'
<1>0. PICK i : i = handler[t].id
  OBVIOUS
<1>1. /\ kind = "telegram" /\ i \in Numbers /\ handler'[t].id = i /\ handler'[t].at = "placing"
      /\ handler[t].at # "idle"
  BY <1>0, TelegramEffect
<1>2. UNCHANGED <<kind, events, published, settled, undelivered>> /\ Threads = {1} /\ t = 1
  BY <1>1, TelegramThread DEF StartThinking, HandlerStep, outVars
<1>3. /\ kind' = kind /\ events' = events /\ Threads' = Threads /\ Numbers' = Numbers
      /\ \A j : IsPublished(j)' <=> IsPublished(j)
      /\ \A j : (Answered(j)' <=> Answered(j)) /\ (Allowed(j)' <=> Allowed(j))
  BY <1>2, UnchangedEvents DEF IsPublished, Answered, Threads, Allowed
<1>4. ~Dropped(kind, events[i])
  BY <1>0, <1>1, <1>2 DEF CrowdInv
<1>5. \A j : Started(j)' => IsPublished(j) \/ j = i
  BY <1>1, <1>2, <1>3 DEF Started
<1>6. \A j : UnderWay(j)' => ~Answered(j)
  BY <1>3 DEF UnderWay
<1>7. ASSUME NEW j \in Numbers, j # i, IsPublished(j), UnderWay(j)', events[j].in = events[i].in
      PROVE  i \in crowded' /\ j \in crowded'
  BY <1>0, <1>6, <1>7, StartNotesWaiting
<1>8. ASSUME NEW j \in Numbers, NEW k \in Numbers, j # k, events[j].in = events[k].in,
             UnderWay(j)', UnderWay(k)'
      PROVE  j \in crowded'
  <2>1. (IsPublished(j) \/ j = i) /\ (IsPublished(k) \/ k = i)
    BY <1>5, <1>8 DEF UnderWay
  <2>2. CASE j # i /\ k # i
    <3>1. UnderWay(j) /\ UnderWay(k)
      BY <1>3, <1>8, <2>1, <2>2 DEF UnderWay, Started
    <3>2. j \in crowded
      BY <1>1, <1>8, <3>1 DEF CrowdInv
    <3>3. crowded \subseteq crowded'
      BY DEF StartThinking
    <3> QED
      BY <3>2, <3>3
  <2>3. CASE j = i
    BY <1>7, <1>8, <2>1, <2>3
  <2>4. CASE k = i
    BY <1>7, <1>8, <2>1, <2>4
  <2> QED
    BY <2>2, <2>3, <2>4
<1>9. \A u \in Threads : ~Dropped(kind, events[handler'[u].id])
  BY <1>1, <1>2, <1>4
<1>10. \A k \in DOMAIN published :
          IsAllowed(kind, events[published[k]]) /\ ~Dropped(kind, events[published[k]])
  BY <1>1 DEF CrowdInv, Allowed
<1> QED
  BY <1>2, <1>3, <1>8, <1>9, <1>10 DEF CrowdInv, Allowed

LEMMA HandleMessageKeepsCrowd ==
  ASSUME TypeInv, CrowdInv, kind = "telegram", NEW t \in Threads, HandleMessage(t)
  PROVE  CrowdInv' /\ \A j : Started(j) /\ Allowed(j) => Started(j)'
<1>0. PICK i : i = handler[t].id
  OBVIOUS
<1>1. /\ UNCHANGED <<kind, events, settled, crowded>> /\ Threads' = Threads /\ Numbers' = Numbers
      /\ Threads = {1} /\ t = 1
  BY TelegramThread, UnchangedEvents DEF HandleMessage, HandlerStep, outVars, telegramVars, Threads
<1>2. /\ handler[t].at = "publishing" /\ i \in Numbers /\ handler'[t].at = "idle"
      /\ \/ Allowed(i) /\ published' = Append(published, i)
         \/ ~Allowed(i) /\ UNCHANGED published
  BY <1>0, HandleMessageEffect
<1>3. \A j : (Answered(j)' <=> Answered(j)) /\ (Allowed(j)' <=> Allowed(j))
  BY <1>1 DEF Answered, Allowed
<1>4. ~Dropped(kind, events[i])
  BY <1>0, <1>2 DEF CrowdInv
<1>5. published \in Seq(Numbers)
  BY PublishedFacts
<1>6. \A k \in DOMAIN published' : \/ k \in DOMAIN published /\ published'[k] = published[k]
                                   \/ published'[k] = i /\ Allowed(i)
  BY <1>2, <1>5, AppendEntries
<1>7. \A k \in DOMAIN published : k \in DOMAIN published' /\ published'[k] = published[k]
  BY <1>2, <1>5, AppendType
<1>8. Allowed(i) => \E k \in DOMAIN published' : published'[k] = i
  BY <1>2, <1>5, AppendType
<1>9. Started(i)
  BY <1>0, <1>2 DEF Started
<1>10. \A j : UnderWay(j)' => UnderWay(j)
  <2>1. ASSUME NEW j, UnderWay(j)' PROVE UnderWay(j)
    <3>1. \E k \in DOMAIN published' : published'[k] = j
      BY <1>1, <1>2, <2>1 DEF UnderWay, Started, IsPublished
    <3>2. IsPublished(j) \/ j = i
      BY <1>6, <3>1 DEF IsPublished
    <3> QED
      BY <1>3, <1>9, <2>1, <3>2 DEF UnderWay, Started
  <2> QED
    BY <2>1
<1>11. ASSUME NEW j, Started(j), Allowed(j) PROVE Started(j)'
  <2>1. IsPublished(j) \/ j = i
    BY <1>0, <1>1, <1>11 DEF Started
  <2>2. \E k \in DOMAIN published' : published'[k] = j
    BY <1>7, <1>8, <1>11, <2>1 DEF IsPublished
  <2> QED
    BY <2>2 DEF Started, IsPublished
<1>12. CrowdInv'
  <2>1. \A u \in Threads : handler'[u].at = "idle"
    BY <1>1, <1>2
  <2>2. \A k \in DOMAIN published' :
          Allowed(published'[k]) /\ ~Dropped(kind, events[published'[k]])
    BY <1>4, <1>6 DEF CrowdInv
  <2>3. \A j, k \in Numbers :
          j # k /\ events[j].in = events[k].in /\ UnderWay(j)' /\ UnderWay(k)' => j \in crowded
    BY <1>10 DEF CrowdInv
  <2> QED
    BY <1>1, <2>1, <2>2, <2>3 DEF CrowdInv, Allowed
<1> QED
  BY <1>11, <1>12

-----------------------------------------------------------------------------
(* Placeholders.                                                           *)

PlaceInv == AnswerInv /\ CrowdInv /\ PlaceholderInv /\ AnswersInTheirPlace

LEMMA PlaceholderFacts ==
  ASSUME TypeInv
  PROVE  /\ placeholders \in [Chats -> Numbers \cup {None}]
         /\ \A c \in Chats : placeholders[c] # None => placeholders[c] \in Numbers
         /\ \A s \in DOMAIN settled : settled[s].in # None => settled[s].in \in Numbers
<1>1. placeholders \in [Chats -> Numbers \cup {None}]
  BY DEF TypeInv, MapType
<1>2. \A s \in DOMAIN settled : settled[s] \in SettledTexts
  BY LenProperties, ElementOfSeq DEF TypeInv, OutType
<1> QED
  BY <1>1, <1>2 DEF SettledTexts

(* Steps that leave placeholders and Send alone. *)
LEMMA PlaceholderKept ==
  ASSUME TypeInv, PlaceholderInv, UNCHANGED <<kind, placeholders, sender, settled>>,
         crowded \subseteq crowded', \A i \in Numbers : events'[i] = events[i],
         kind = "telegram" => \A i : Started(i) /\ Allowed(i) => Started(i)'
  PROVE  PlaceholderInv'
<1> SUFFICES ASSUME kind = "telegram" PROVE PlaceholderInv'
  BY DEF PlaceholderInv
<1>1. ASSUME NEW c \in Chats, placeholders[c] # None
      PROVE  /\ events'[placeholders[c]].in = c
             /\ ~Answered(placeholders[c])'
             /\ Allowed(placeholders[c])' => Started(placeholders[c])'
  <2>1. PICK p \in Numbers : p = placeholders[c]
    BY <1>1, PlaceholderFacts
  <2>2. events[p].in = c /\ ~Answered(p) /\ (Allowed(p) => Started(p))
    BY <1>1, <2>1 DEF PlaceholderInv
  <2>3. Allowed(p)' => Started(p)'
    BY <2>1, <2>2 DEF Allowed
  <2>4. events'[p].in = c /\ ~Answered(p)'
    BY <2>2 DEF Answered
  <2>5. (p = placeholders[c])'
    BY <2>1
  <2> QED
    BY <2>1, <2>3, <2>4 DEF Allowed, Started, Answered, IsPublished
<1>2. sender.about # 0 /\ sender.at \in {"editing", "sending"}
        => placeholders[sender.to] # sender.about
  BY DEF PlaceholderInv
<1>3. sender.about # 0 /\ sender.at \in {"taking", "editing"}
        => \/ sender.held = sender.about
           \/ sender.about \in crowded'
           \/ ~Allowed(sender.held)'
  <2>1. sender.at \in {"taking", "editing"} => sender.held \in Numbers
    BY SenderFacts
  <2> QED
    BY <2>1 DEF PlaceholderInv, Allowed
<1> QED
  BY <1>1, <1>2, <1>3 DEF PlaceholderInv

(* What is settled stays in its place. *)
LEMMA SettledKept ==
  ASSUME TypeInv, AnswersInTheirPlace, UNCHANGED <<kind, settled>>,
         crowded \subseteq crowded', \A i \in Numbers : events'[i] = events[i]
  PROVE  AnswersInTheirPlace'
<1>1. SUFFICES ASSUME NEW s \in DOMAIN settled, settled[s].about # 0,
                      settled[s].in \notin {None, settled[s].about}
               PROVE  \/ settled[s].about \in crowded'
                      \/ ~IsAllowed(kind, events'[settled[s].in])
  BY DEF AnswersInTheirPlace
<1>2. settled[s].in \in Numbers
  BY <1>1, PlaceholderFacts
<1> QED
  BY <1>1, <1>2 DEF AnswersInTheirPlace

(* The placeholder of a message is kept before the message is published,   *)
(* and so before anything is sent about it.                                *)
LEMMA KeepKeepsPlaceholder ==
  ASSUME TypeInv, PathInv, HomeInv, PlaceholderInv, NEW t \in Threads, KeepPlaceholder(t)
  PROVE  PlaceholderInv'
<1>0. PICK i : i = handler[t].id
  OBVIOUS
<1>1. /\ kind = "telegram" /\ i \in Numbers /\ handler'[t].id = i /\ handler'[t].at = "publishing"
      /\ handler[t].at \in {"thinking", "placing", "keeping"}
      /\ \A u \in Threads \ {t} : handler'[u] = handler[u]
  BY <1>0, TelegramEffect
<1>2. UNCHANGED <<kind, events, published, sender, settled, crowded>> /\ Threads' = Threads
  BY DEF KeepPlaceholder, HandlerStep, outVars, Threads
<1>3. PICK d \in Chats : d = events[i].in /\ placeholders' = [placeholders EXCEPT ![d] = i]
  BY <1>0, <1>1, EventFacts DEF KeepPlaceholder, TypeInv
<1>4. i # None /\ sender.about # i /\ ~Answered(i)
  BY <1>0, <1>1, NotYetPublished, EventFacts DEF TypeInv
<1>5. \A c \in Chats : placeholders'[c] = IF c = d THEN i ELSE placeholders[c]
  BY <1>3, PlaceholderFacts
<1>6. \A j : (Answered(j)' <=> Answered(j)) /\ (Allowed(j)' <=> Allowed(j))
  BY <1>2 DEF Answered, Allowed
<1>7. \A j : (Started(j) => Started(j)') /\ Started(i)'
  <2>1. \A j : IsPublished(j)' <=> IsPublished(j)
    BY <1>2 DEF IsPublished
  <2>2. Started(i)'
    BY <1>1, <1>2 DEF Started
  <2>3. ASSUME NEW j, Started(j) PROVE Started(j)'
    BY <1>0, <1>1, <1>2, <2>1, <2>2, <2>3 DEF Started
  <2> QED
    BY <2>2, <2>3
<1>8. ASSUME NEW c \in Chats, NEW p, p = placeholders'[c], p # None
      PROVE  events[p].in = c /\ ~Answered(p) /\ (Allowed(p) => Started(p)')
  BY <1>1, <1>3, <1>4, <1>5, <1>7, <1>8 DEF PlaceholderInv
<1>9. ASSUME NEW c \in Chats, placeholders'[c] # None
      PROVE  /\ events'[placeholders'[c]].in = c
             /\ ~Answered(placeholders[c])'
             /\ Allowed(placeholders[c])' => Started(placeholders[c])'
  <2>1. PICK p : p = placeholders'[c]
    OBVIOUS
  <2>2. events[p].in = c /\ ~Answered(p)' /\ (Allowed(p)' => Started(p)')
    BY <1>6, <1>8, <1>9, <2>1
  <2> QED
    BY <1>2, <2>1, <2>2 DEF Answered, Allowed, Started, IsPublished
<1>10. sender.about # 0 /\ sender.at \in {"editing", "sending"}
         => placeholders'[sender.to] # sender.about
  <2>1. sender.at \in {"editing", "sending"} => sender.to \in Chats
    BY SenderFacts
  <2> QED
    BY <1>1, <1>4, <1>5, <2>1 DEF PlaceholderInv
<1>11. sender.about # 0 /\ sender.at \in {"taking", "editing"}
         => \/ sender.held = sender.about
            \/ sender.about \in crowded
            \/ ~Allowed(sender.held)'
  BY <1>1, <1>2 DEF PlaceholderInv, Allowed
<1> QED
  BY <1>2, <1>9, <1>10, <1>11 DEF PlaceholderInv

(* On Telegram an answer goes to the conversation of its message. *)
LEMMA SentHome ==
  ASSUME TypeInv, HomeInv, kind = "telegram", sender.about # 0
  PROVE  /\ IsPublished(sender.about) /\ sender.about \in Numbers
         /\ sender.to = events[sender.about].in
<1>1. IsPublished(sender.about) /\ sender.to = ChatOf(sender.about)
  BY DEF HomeInv, RouteInv, Homeward
<1> QED
  BY <1>1, PublishedFacts, EventFacts DEF TypeInv

(* What Send finds is the placeholder of its own message, unless another   *)
(* message of the chat is under way too.                                   *)
LEMMA LoadFindsOwn ==
  ASSUME TypeInv, HomeInv, AnswerInv, CrowdInv, PlaceholderInv, kind = "telegram",
         sender.at # "idle", sender.about # 0, placeholders[sender.to] # None
  PROVE  LET p == placeholders[sender.to]
         IN  p = sender.about \/ sender.about \in crowded \/ ~Allowed(p)
<1>1. PICK p \in Numbers : p = placeholders[sender.to]
  BY SenderFacts, PlaceholderFacts
<1>2. SUFFICES ASSUME p # sender.about, Allowed(p) PROVE sender.about \in crowded
  BY <1>1
<1>3. PICK i : i = sender.about
  OBVIOUS
<1>4. IsPublished(i) /\ sender.to = events[i].in /\ i \in Numbers
  BY <1>3, SentHome
<1>5. events[p].in = sender.to /\ ~Answered(p) /\ Started(p)
  BY <1>1, <1>2, SenderFacts DEF PlaceholderInv
<1>6. Allowed(i)
  BY <1>4 DEF CrowdInv, IsPublished
<1>7. ~Answered(i)
  BY <1>3 DEF AnswerInv, InOnePlace, Settled, Answered
<1>8. UnderWay(i) /\ UnderWay(p)
  BY <1>2, <1>4, <1>5, <1>6, <1>7 DEF UnderWay, Started
<1> QED
  BY <1>2, <1>3, <1>4, <1>5, <1>8 DEF CrowdInv

LEMMA SendKeepsPlaceholder ==
  ASSUME TypeInv, HomeInv, AnswerInv, CrowdInv, PlaceholderInv, kind = "telegram", Send
  PROVE  PlaceholderInv'
<1>1. UNCHANGED <<kind, events, handler, published, crowded>> /\ Threads' = Threads
  BY DEF Send, Take, StopThinking, ForgetStop, LoadPlaceholder, TakePlaceholder,
         EditPlaceholder, SendNew, SendStep, inVars, telegramVars, Threads
<1>2. \A j : (Started(j)' <=> Started(j)) /\ (Allowed(j)' <=> Allowed(j))
  BY <1>1 DEF Started, IsPublished, Allowed
<1>3. placeholders' = placeholders \/ TakePlaceholder
  BY DEF Send, Take, StopThinking, ForgetStop, LoadPlaceholder, TakePlaceholder,
         EditPlaceholder, SendNew, telegramVars
<1>4. TakePlaceholder => placeholders' = [placeholders EXCEPT ![sender.to] = None]
  BY DEF TakePlaceholder
<1>5. \A c \in Chats : placeholders'[c] # None => placeholders'[c] = placeholders[c]
  BY <1>3, <1>4, PlaceholderFacts
<1>6. ASSUME \A c \in Chats : placeholders'[c] # None => placeholders'[c] \notin Settled(settled'),
             NEW c \in Chats, placeholders'[c] # None
      PROVE  /\ events'[placeholders'[c]].in = c
             /\ ~Answered(placeholders[c])'
             /\ Allowed(placeholders[c])' => Started(placeholders[c])'
  <2>1. PICK p : p = placeholders'[c] /\ p = placeholders[c]
    BY <1>5, <1>6
  <2>2. events[p].in = c /\ (Allowed(p) => Started(p))
    BY <1>6, <2>1 DEF PlaceholderInv
  <2>3. ~Answered(p)'
    BY <1>6, <2>1 DEF Answered, Settled
  <2>4. Allowed(p)' => Started(p)'
    BY <1>2, <2>2
  <2> QED
    BY <1>1, <2>1, <2>2, <2>3, <2>4 DEF Answered, Allowed, Started, IsPublished
<1>7. ASSUME UNCHANGED settled
      PROVE  \A c \in Chats : placeholders'[c] # None => placeholders'[c] \notin Settled(settled')
  BY <1>5, <1>7 DEF PlaceholderInv, Answered, Settled
<1>8. ASSUME sender'.about = 0 \/ sender'.at \notin {"taking", "editing", "sending"}, UNCHANGED settled
      PROVE  PlaceholderInv'
  BY <1>6, <1>7, <1>8 DEF PlaceholderInv
<1>9. CASE StopThinking \/ ForgetStop
  <2>1. sender'.at \in {"loading", "forgetting"} /\ UNCHANGED settled
    BY <1>9, SenderFacts DEF StopThinking, ForgetStop, SenderStates
  <2> QED
    BY <1>8, <2>1
<1>10. CASE Take
  <2>1. sender'.at = "stopping" /\ UNCHANGED settled
    BY <1>10, TakeEffect DEF Take
  <2> QED
    BY <1>8, <2>1
<1>11. CASE LoadPlaceholder
  <2>1. /\ UNCHANGED <<settled, placeholders>> /\ sender.at # "idle"
        /\ sender'.about = sender.about /\ sender'.to = sender.to
    BY <1>11, PrepareEffect DEF LoadPlaceholder, SendStep, telegramVars
  <2>2. /\ sender'.held = placeholders[sender.to]
        /\ sender'.at = IF placeholders[sender.to] = None THEN "sending" ELSE "taking"
    BY <1>11, SenderFacts DEF LoadPlaceholder, SenderStates
  <2>3. sender'.about # 0 /\ sender'.at \in {"editing", "sending"}
          => placeholders'[sender'.to] # sender'.about
    <3>1. sender.about # None
      BY SenderFacts, EventFacts, Constants DEF TypeInv, SenderStates
    <3> QED
      BY <2>1, <2>2, <3>1
  <2>4. sender'.about # 0 /\ sender'.at \in {"taking", "editing"}
          => \/ sender'.held = sender'.about
             \/ sender'.about \in crowded
             \/ ~Allowed(sender'.held)
    BY <2>1, <2>2, LoadFindsOwn
  <2>5. Allowed(sender.held)' <=> Allowed(sender'.held)
    BY <1>1 DEF Allowed
  <2> QED
    BY <1>1, <1>6, <1>7, <2>1, <2>3, <2>4, <2>5 DEF PlaceholderInv
<1>12. CASE TakePlaceholder
  <2>1. /\ UNCHANGED settled /\ sender.at = "taking" /\ sender'.held = sender.held
        /\ sender'.about = sender.about /\ sender'.to = sender.to /\ sender'.at = "editing"
    BY <1>12, PrepareEffect, SenderFacts DEF TakePlaceholder, SendStep, SenderStates
  <2>2. placeholders'[sender'.to] = None
    BY <1>4, <1>12, <2>1, SenderFacts, PlaceholderFacts
  <2>3. sender.about # None
    BY SenderFacts, EventFacts, Constants DEF TypeInv, SenderStates
  <2>4. sender.about # 0 => \/ sender.held = sender.about
                            \/ sender.about \in crowded
                            \/ ~Allowed(sender.held)
    BY <2>1 DEF PlaceholderInv
  <2>5. Allowed(sender.held)' <=> Allowed(sender.held)
    BY <1>1, <2>1 DEF Allowed
  <2> QED
    BY <1>1, <1>6, <1>7, <2>1, <2>2, <2>3, <2>4, <2>5 DEF PlaceholderInv
<1>13. CASE EditPlaceholder \/ SendNew
  <2>1. UNCHANGED placeholders
    BY <1>13 DEF EditPlaceholder, SendNew, telegramVars
  <2>2. CASE /\ sender.at = "editing" /\ sender' = [sender EXCEPT !.at = "sending"]
             /\ UNCHANGED settled
    <3>1. sender'.about = sender.about /\ sender'.to = sender.to /\ sender'.at = "sending"
      BY <2>2, SenderFacts DEF SenderStates
    <3>2. sender.about # 0 => placeholders[sender.to] # sender.about
      BY <2>2 DEF PlaceholderInv
    <3> QED
      BY <1>1, <1>6, <1>7, <2>1, <2>2, <3>1, <3>2 DEF PlaceholderInv
  <2>3. CASE \E m \in SettledTexts : SettlesAs(m)
    <3>1. PICK m \in SettledTexts : SettlesAs(m)
      BY <2>3
    <3>2. /\ m.about = sender.about /\ settled' = Append(settled, m) /\ sender' = NotSending
          /\ sender.at \in {"editing", "sending"}
      BY <3>1 DEF SettlesAs
    <3>3. \A s \in DOMAIN settled' : \/ s \in DOMAIN settled /\ settled'[s] = settled[s]
                                     \/ s = Len(settled) + 1 /\ settled'[s] = m
      BY <3>2, InboxFacts, AppendEntries
    <3>4. ASSUME NEW c \in Chats, placeholders[c] # None
          PROVE  placeholders[c] # sender.about
      <4>1. CASE sender.about = 0
        BY <3>4, <4>1, PlaceholderFacts, EventFacts DEF TypeInv
      <4>2. CASE sender.about # 0
        <5>1. events[placeholders[c]].in = c
          BY <3>4 DEF PlaceholderInv
        <5>2. kind = "telegram" => sender.to = events[sender.about].in
          BY <4>2, SentHome
        <5>3. placeholders[sender.to] # sender.about
          BY <3>2, <4>2 DEF PlaceholderInv
        <5> QED
          BY <5>1, <5>2, <5>3
      <4> QED
        BY <4>1, <4>2
    <3>5. ASSUME NEW c \in Chats, placeholders[c] # None
          PROVE  placeholders[c] \notin Settled(settled')
      <4>1. ~Answered(placeholders[c]) /\ placeholders[c] # sender.about
        BY <3>4, <3>5 DEF PlaceholderInv
      <4> QED
        BY <3>2, <3>3, <4>1 DEF Answered, Settled
    <3>6. \A c \in Chats : placeholders'[c] # None => placeholders'[c] \notin Settled(settled')
      BY <2>1, <3>5
    <3>7. sender'.about = 0
      BY <3>2 DEF NotSending
    <3> QED
      BY <1>6, <3>6, <3>7 DEF PlaceholderInv
  <2> QED
    BY <1>13, <2>2, <2>3, SettleEffect
<1> QED
  BY <1>9, <1>10, <1>11, <1>12, <1>13 DEF Send

LEMMA SendKeepsSettled ==
  ASSUME TypeInv, PlaceholderInv, AnswersInTheirPlace, Send
  PROVE  AnswersInTheirPlace'
<1>1. UNCHANGED <<kind, events, crowded>>
  BY DEF Send, Take, StopThinking, ForgetStop, LoadPlaceholder, TakePlaceholder,
         EditPlaceholder, SendNew, SendStep, inVars, telegramVars
<1>2. CASE UNCHANGED settled
  BY <1>1, <1>2, SettledKept
<1>3. CASE \E m \in SettledTexts : SettlesAs(m)
  <2>1. PICK m \in SettledTexts : SettlesAs(m)
    BY <1>3
  <2>2. /\ m.about = sender.about /\ settled' = Append(settled, m)
        /\ (sender.at = "editing" /\ m.in = sender.held) \/ m.in = None
    BY <2>1 DEF SettlesAs
  <2>3. m.about # 0 => \/ m.in \in {None, m.about}
                       \/ m.about \in crowded
                       \/ ~IsAllowed(kind, events[m.in])
    BY <2>2, SenderFacts DEF PlaceholderInv, Allowed
  <2>4. \A s \in DOMAIN settled' : \/ s \in DOMAIN settled /\ settled'[s] = settled[s]
                                   \/ s = Len(settled) + 1 /\ settled'[s] = m
    BY <2>2, InboxFacts, AppendEntries
  <2> QED
    BY <1>1, <2>3, <2>4 DEF AnswersInTheirPlace
<1> QED
  BY <1>2, <1>3, SettleEffect DEF Send, Take, StopThinking, ForgetStop, LoadPlaceholder,
                                   TakePlaceholder

LEMMA SettledStep ==
  TypeInv /\ PlaceholderInv /\ AnswersInTheirPlace /\ [Next]_vars => AnswersInTheirPlace'
<1> SUFFICES ASSUME TypeInv, PlaceholderInv, AnswersInTheirPlace, [Next]_vars
             PROVE  AnswersInTheirPlace'
  OBVIOUS
<1>1. CASE UNCHANGED vars
  BY <1>1, SettledKept DEF vars, inVars, outVars, telegramVars
<1>2. ASSUME NEW e \in Shapes, Write(e) PROVE AnswersInTheirPlace'
  BY <1>2, WriteEffect, SettledKept
<1>3. ASSUME NEW t \in Threads, Handler(t) PROVE AnswersInTheirPlace'
  <2>1. UNCHANGED <<kind, events, settled>>
    BY <1>3 DEF Handler, Receive, Filter, StoreWebhook, StartThinking, SendPlaceholder,
                KeepPlaceholder, HandleMessage, HandlerStep, outVars
  <2>2. crowded \subseteq crowded'
    BY <1>3 DEF Handler, Receive, Filter, StoreWebhook, StartThinking, SendPlaceholder,
                KeepPlaceholder, HandleMessage, telegramVars
  <2> QED
    BY <2>1, <2>2, SettledKept
<1>4. CASE Answer \/ Notify
  BY <1>4, SettledKept DEF Answer, Notify, inVars, telegramVars
<1>5. ASSUME NEW i \in Numbers, Tick(i) \/ Redraw(i) \/ EndAnimation(i) PROVE AnswersInTheirPlace'
  BY <1>5, SettledKept DEF Tick, Redraw, EndAnimation, AnimationOnly, inVars, outVars
<1> QED
  BY <1>1, <1>2, <1>3, <1>4, <1>5, SendKeepsSettled DEF Next

LEMMA TelegramStep ==
  ASSUME TypeInv, PathInv, HomeInv, AnswerInv, CrowdInv, PlaceholderInv, kind = "telegram",
         [Next]_vars
  PROVE  CrowdInv' /\ PlaceholderInv'
<1>1. ASSUME UNCHANGED <<kind, events, handler, published, placeholders, sender, settled, crowded>>
      PROVE  CrowdInv' /\ PlaceholderInv'
  <2>1. Threads' = Threads /\ \A i : Answered(i) => Answered(i)'
    BY <1>1 DEF Threads, Answered
  <2>2. \A i : Started(i) => Started(i)'
    BY <1>1, <2>1 DEF Started, IsPublished
  <2>3. \A t \in Threads : handler[t].at # "idle" =>
          handler[t].id \in Numbers /\ ~Dropped(kind, events[handler[t].id])
    BY HandlerFacts DEF CrowdInv
  <2> QED
    BY <1>1, <2>1, <2>2, <2>3, CrowdKept, PlaceholderKept
<1>2. CASE UNCHANGED vars
  BY <1>1, <1>2 DEF vars, inVars, outVars, telegramVars
<1>3. ASSUME NEW e \in Shapes, Write(e) PROVE CrowdInv' /\ PlaceholderInv'
  <2>1. /\ UNCHANGED <<kind, handler, published, placeholders, sender, settled, crowded>>
        /\ Threads' = Threads /\ \A i \in Numbers : events'[i] = events[i]
    BY <1>3, WriteEffect
  <2>2. \A i : Answered(i) => Answered(i)'
    BY <2>1 DEF Answered
  <2>3. \A i : Started(i) => Started(i)'
    BY <2>1 DEF Started, IsPublished
  <2>4. \A t \in Threads : handler[t].at # "idle" =>
          handler[t].id \in Numbers /\ ~Dropped(kind, events[handler[t].id])
    BY HandlerFacts DEF CrowdInv
  <2> QED
    BY <2>1, <2>2, <2>3, <2>4, CrowdKept, PlaceholderKept
<1>4. ASSUME NEW t \in Threads, Handler(t) PROVE CrowdInv' /\ PlaceholderInv'
  <2>1. /\ UNCHANGED <<kind, events, sender, settled>> /\ Threads' = Threads
        /\ Threads = {1} /\ t = 1
    BY <1>4, TelegramThread DEF Handler, Receive, Filter, StoreWebhook, StartThinking,
       SendPlaceholder, KeepPlaceholder, HandleMessage, HandlerStep, outVars, Threads
  <2>2. \A i : Answered(i) => Answered(i)'
    BY <2>1 DEF Answered
  <2>3. CASE Receive(t)
    <3>1. UNCHANGED <<published, placeholders, crowded>> /\ handler[t].at = "idle"
      BY <2>3 DEF Receive, telegramVars, HandlerStep
    <3>2. PICK i \in Numbers :
            \/ handler' = handler
            \/ /\ handler'[t].id = i /\ ~Dropped(kind, events[i])
               /\ handler'[t].at \notin {"placing", "keeping", "publishing"}
      BY <2>3, ReceiveEffect
    <3>3. \A u \in Threads : /\ handler'[u].at \notin {"placing", "keeping", "publishing"}
                             /\ handler[u].at = "idle"
                             /\ handler'[u].at # "idle" =>
                                  handler'[u].id \in Numbers /\ ~Dropped(kind, events[handler'[u].id])
      BY <2>1, <3>1, <3>2
    <3>4. \A j : Started(j) => Started(j)'
      BY <3>1, <3>3 DEF Started, IsPublished
    <3> QED
      BY <2>1, <2>2, <3>1, <3>3, <3>4, CrowdKept, PlaceholderKept
  <2>4. CASE StartThinking(t)
    <3>1. UNCHANGED <<published, placeholders>> /\ crowded \subseteq crowded'
      BY <2>4 DEF StartThinking
    <3>2. handler[t].at = "thinking"
      BY <2>4 DEF StartThinking, HandlerStep
    <3>3. \A i : Started(i) => Started(i)'
      BY <2>1, <3>1, <3>2 DEF Started, IsPublished
    <3> QED
      BY <2>1, <2>4, <3>1, <3>3, StartKeepsCrowd, PlaceholderKept
  <2>5. CASE SendPlaceholder(t) \/ KeepPlaceholder(t)
    <3>1. UNCHANGED <<published, crowded>> /\ handler[t].at \in {"placing", "keeping"}
      BY <2>5 DEF SendPlaceholder, KeepPlaceholder, HandlerStep
    <3>2. /\ handler[t].id \in Numbers /\ handler'[t].id = handler[t].id
          /\ handler'[t].at \in {"placing", "keeping", "publishing"}
          /\ ~Dropped(kind, events[handler[t].id])
      BY <2>5, <3>1, TelegramEffect DEF CrowdInv
    <3>3. \A i : Started(i) => Started(i)'
      BY <2>1, <3>1, <3>2 DEF Started, IsPublished
    <3>4. CrowdInv'
      BY <2>1, <2>2, <3>1, <3>2, CrowdKept
    <3>5. SendPlaceholder(t) => PlaceholderInv'
      BY <2>1, <3>1, <3>3, PlaceholderKept DEF SendPlaceholder
    <3> QED
      BY <2>5, <3>4, <3>5, KeepKeepsPlaceholder
  <2>6. CASE HandleMessage(t)
    <3>1. UNCHANGED <<placeholders, crowded>>
      BY <2>6 DEF HandleMessage, telegramVars
    <3> QED
      BY <2>1, <2>6, <3>1, HandleMessageKeepsCrowd, PlaceholderKept
  <2>7. ~Filter(t) /\ ~StoreWebhook(t)
    BY FilterEffect, StoreWebhookEffect
  <2> QED
    BY <1>4, <2>3, <2>4, <2>5, <2>6, <2>7 DEF Handler
<1>5. CASE Answer \/ Notify
  BY <1>1, <1>5 DEF Answer, Notify, inVars, telegramVars
<1>6. CASE Send
  <2>1. UNCHANGED <<kind, events, handler, published, crowded>> /\ Threads' = Threads
    BY <1>6 DEF Send, Take, StopThinking, ForgetStop, LoadPlaceholder, TakePlaceholder,
                EditPlaceholder, SendNew, SendStep, inVars, telegramVars, Threads
  <2>2. UNCHANGED settled \/ \E m \in SettledTexts : SettlesAs(m)
    BY <1>6, SettleEffect DEF Send, Take, StopThinking, ForgetStop, LoadPlaceholder, TakePlaceholder
  <2>3. \A i : Answered(i) => Answered(i)'
    <3>1. CASE UNCHANGED settled
      BY <3>1 DEF Answered
    <3>2. CASE \E m \in SettledTexts : SettlesAs(m)
      <4>1. PICK m \in SettledTexts : settled' = Append(settled, m)
        BY <3>2 DEF SettlesAs
      <4>2. \A s \in DOMAIN settled : s \in DOMAIN settled' /\ settled'[s] = settled[s]
        BY <4>1, InboxFacts, AppendType
      <4> QED
        BY <4>2 DEF Answered
    <3> QED
      BY <2>2, <3>1, <3>2
  <2>4. \A t \in Threads : handler[t].at # "idle" =>
          handler[t].id \in Numbers /\ ~Dropped(kind, events[handler[t].id])
    BY HandlerFacts DEF CrowdInv
  <2>5. CrowdInv'
    BY <2>1, <2>3, <2>4, CrowdKept
  <2> QED
    BY <1>6, <2>5, SendKeepsPlaceholder
<1>7. ASSUME NEW i \in Numbers, Tick(i) \/ Redraw(i) \/ EndAnimation(i)
      PROVE  CrowdInv' /\ PlaceholderInv'
  BY <1>1, <1>7 DEF Tick, Redraw, EndAnimation, AnimationOnly, inVars, outVars
<1> QED
  BY <1>2, <1>3, <1>4, <1>5, <1>6, <1>7 DEF Next

LEMMA PlaceStep ==
  TypeInv /\ PathInv /\ HomeInv /\ PlaceInv /\ [Next]_vars => PlaceInv'
<1> SUFFICES ASSUME TypeInv, PathInv, HomeInv, PlaceInv, [Next]_vars PROVE PlaceInv'
  OBVIOUS
<1>1. AnswerInv' /\ AnswersInTheirPlace'
  BY AnswerStep, SettledStep DEF PlaceInv
<1>2. CASE kind = "telegram"
  BY <1>1, <1>2, TelegramStep DEF PlaceInv
<1>3. CASE kind # "telegram"
  <2>1. kind' = kind
    BY DEF Next, vars, Write, Handler, Receive, Filter, StoreWebhook, StartThinking,
       SendPlaceholder, KeepPlaceholder, HandleMessage, HandlerStep, Answer, Notify, Send, Take,
       StopThinking, ForgetStop, LoadPlaceholder, TakePlaceholder, EditPlaceholder, SendNew,
       SendStep, Tick, Redraw, EndAnimation, AnimationOnly
  <2> QED
    BY <1>1, <1>3, <2>1 DEF PlaceInv, CrowdInv, PlaceholderInv
<1> QED
  BY <1>2, <1>3

LEMMA InitPlace == Init => PlaceInv
<1> SUFFICES ASSUME Init PROVE PlaceInv
  OBVIOUS
<1>1. /\ DOMAIN published = {} /\ DOMAIN inbox = {} /\ DOMAIN outbox = {} /\ DOMAIN settled = {}
      /\ sender.about = 0 /\ \A t \in Threads : handler[t].at = "idle"
      /\ \A c \in Chats : placeholders[c] = None
  BY DEF Init, Idle, NotSending
<1>2. \A i : ~Started(i)
  BY <1>1 DEF Started, IsPublished
<1>3. AnswerInv
  BY <1>1 DEF AnswerInv, InOnePlace
<1>4. CrowdInv
  BY <1>1, <1>2 DEF CrowdInv, UnderWay
<1>5. PlaceholderInv
  BY <1>1 DEF PlaceholderInv
<1>6. AnswersInTheirPlace
  BY <1>1 DEF AnswersInTheirPlace
<1> QED
  BY <1>3, <1>4, <1>5, <1>6 DEF PlaceInv

LEMMA PlaceInvariance == Spec => []PlaceInv
  BY InitPlace, PlaceStep, TypeInvariance, PathInvariance, HomeInvariance, PTL DEF Spec

(* On Telegram an answer takes the place of its own message's placeholder  *)
(* or is a new message, unless another message of the chat was waiting     *)
(* when one of the two came, or what it replaces was left over from a      *)
(* sender who is not allowed.                                              *)
THEOREM AnswersTakeTheirPlace == Spec => []AnswersInTheirPlace
<1>1. PlaceInv => AnswersInTheirPlace
  BY DEF PlaceInv
<1> QED
  BY <1>1, PlaceInvariance, PTL
-----------------------------------------------------------------------------
(* Stop channels.                                                          *)

(***************************************************************************)
(* A message of Telegram that has been answered is released: its stop      *)
(* channel is closed, or it is one of those whose stop channel was lost.   *)
(* Until then the chat's entry is the message's own, so that the Send of   *)
(* its answer finds it; a Send about to delete an entry has closed it.     *)
(***************************************************************************)
Released(i) == i \in closed \cup crowded \cup midStop

AnsweredAreReleased == kind = "telegram" => \A i \in Numbers : Answered(i) => Released(i)

StopInv ==
    kind = "telegram" =>
        /\ \A i \in Numbers :
             Started(i) /\ Allowed(i) => Released(i) \/ thinking[events[i].in] = i
        /\ sender.about # 0 /\ sender.at \notin {"idle", "stopping"} => Released(sender.about)
        /\ \A i \in Settled(settled) : i # 0 => Released(i)
        /\ sender.at = "forgetting" => thinking[sender.to] \in closed \cup midStop \cup {None}

LEMMA AnsweredIsSettled == \A i : Answered(i) <=> i \in Settled(settled)
  BY DEF Answered, Settled

(* Steps that start no message and leave Send and the entries alone. *)
LEMMA StopKept ==
  ASSUME StopInv, kind = "telegram", UNCHANGED <<kind, thinking, sender, settled>>,
         closed \subseteq closed', crowded \subseteq crowded', midStop \subseteq midStop',
         \A i \in Numbers : events'[i] = events[i],
         \A i : Started(i)' => i \in Numbers /\ Started(i)
  PROVE  StopInv'
<1>1. \A i : Released(i) => Released(i)'
  BY DEF Released
<1>2. ASSUME NEW i, Started(i)', Allowed(i)'
      PROVE  Released(i)' \/ thinking'[events'[i].in] = i
  <2>1. i \in Numbers /\ Started(i) /\ events'[i] = events[i]
    BY <1>2
  <2>2. Allowed(i)
    BY <1>2, <2>1 DEF Allowed
  <2>3. Released(i) \/ thinking[events[i].in] = i
    BY <2>1, <2>2 DEF StopInv
  <2> QED
    BY <1>1, <2>1, <2>3
<1>3. sender'.about # 0 /\ sender'.at \notin {"idle", "stopping"} => Released(sender.about)'
  BY <1>1 DEF StopInv
<1>4. \A i \in Settled(settled') : i # 0 => Released(i)'
  BY <1>1 DEF StopInv
<1>5. sender'.at = "forgetting" => thinking'[sender'.to] \in closed' \cup midStop' \cup {None}
  BY DEF StopInv
<1> QED
  BY <1>2, <1>3, <1>4, <1>5 DEF StopInv, Released

(* A new entry is the message's own; over whose entry it is stored, that   *)
(* message is crowded; a Send about to delete it makes it an exception.    *)
LEMMA StartKeepsStop ==
  ASSUME TypeInv, PathInv, CrowdInv, StopInv, NEW t \in Threads, StartThinking(t)
  PROVE  StopInv'
<1>0. PICK i : i = handler[t].id
  OBVIOUS
<1>1. /\ kind = "telegram" /\ i \in Numbers /\ handler'[t].id = i /\ handler'[t].at = "placing"
  BY <1>0, TelegramEffect
<1>2. /\ UNCHANGED <<kind, events, published, settled, sender, closed>>
      /\ Threads = {1} /\ t = 1 /\ Numbers' = Numbers /\ Threads' = Threads
  BY <1>1, TelegramThread, UnchangedEvents DEF StartThinking, HandlerStep, outVars, Threads
<1>3. /\ thinking' = [thinking EXCEPT ![events[i].in] = i] /\ crowded \subseteq crowded'
      /\ midStop \subseteq midStop'
      /\ sender.at = "forgetting" /\ sender.to = events[i].in => i \in midStop'
  BY <1>0, <1>1, EventFacts DEF StartThinking, TypeInv
<1>4. thinking \in [Chats -> Numbers \cup {None}] /\ \A j \in Numbers : events[j].in \in Chats
  BY EventFacts DEF TypeInv, MapType
<1>5. \A j : Released(j) => Released(j)'
  BY <1>2, <1>3 DEF Released
<1>6. ASSUME NEW j \in Numbers, Started(j)', Allowed(j)
      PROVE  Released(j)' \/ thinking'[events[j].in] = j
  <2>1. CASE j = i
    BY <1>1, <1>3, <1>4, <2>1
  <2>2. CASE j # i
    <3>1. IsPublished(j)
      BY <1>1, <1>2, <1>6, <2>2 DEF Started, IsPublished
    <3>2. Released(j) \/ thinking[events[j].in] = j
      BY <1>1, <1>6, <3>1 DEF StopInv, Started
    <3>3. CASE events[j].in # events[i].in
      BY <1>3, <1>4, <1>5, <3>2, <3>3
    <3>4. CASE events[j].in = events[i].in
      <4>1. CASE Answered(j)
        <5>1. j # 0
          BY EventFacts DEF TypeInv
        <5>2. Released(j)
          BY <1>1, <4>1, <5>1, AnsweredIsSettled DEF StopInv
        <5> QED
          BY <1>5, <5>2
      <4>2. CASE ~Answered(j)
        <5>1. j \in crowded'
          BY <1>0, <2>2, <3>1, <3>4, <4>2, StartNotesWaiting
        <5> QED
          BY <5>1 DEF Released
      <4> QED
        BY <4>1, <4>2
    <3> QED
      BY <3>3, <3>4
  <2> QED
    BY <2>1, <2>2
<1>7. Released(sender.about)' \/ sender.about = 0 \/ sender.at \in {"idle", "stopping"}
  BY <1>1, <1>2, <1>3 DEF StopInv, Released
<1>8. \A j \in Settled(settled) : j # 0 => Released(j)'
  BY <1>1, <1>5 DEF StopInv
<1>9. ASSUME sender.at = "forgetting"
      PROVE  thinking'[sender.to] \in closed' \cup midStop' \cup {None}
  <2>1. sender.to \in Chats /\ thinking[sender.to] \in closed \cup midStop \cup {None}
    BY <1>1, <1>9, SenderFacts DEF StopInv
  <2>2. thinking'[sender.to] = IF sender.to = events[i].in THEN i ELSE thinking[sender.to]
    BY <1>3, <1>4, <2>1
  <2> QED
    BY <1>2, <1>3, <1>9, <2>1, <2>2
<1>10. \A j \in Numbers : Allowed(j)' <=> Allowed(j)
  BY <1>2 DEF Allowed
<1> QED
  BY <1>2, <1>6, <1>7, <1>8, <1>9, <1>10 DEF StopInv, Released, Allowed

LEMMA SendKeepsStop ==
  ASSUME TypeInv, HomeInv, CrowdInv, StopInv, kind = "telegram", Send
  PROVE  StopInv'
<1>1. /\ UNCHANGED <<kind, events, handler, published, crowded, midStop>> /\ Threads' = Threads
      /\ Numbers' = Numbers
  BY DEF Send, Take, StopThinking, ForgetStop, LoadPlaceholder, TakePlaceholder,
         EditPlaceholder, SendNew, SendStep, inVars, telegramVars, Threads, Numbers
<1>2. closed \subseteq closed'
  BY DEF Send, Take, StopThinking, ForgetStop, LoadPlaceholder, TakePlaceholder,
         EditPlaceholder, SendNew, telegramVars
<1>3. \A j : Released(j) => Released(j)'
  BY <1>1, <1>2 DEF Released
<1>4. \A j : (Started(j)' <=> Started(j)) /\ (Allowed(j)' <=> Allowed(j))
  BY <1>1 DEF Started, IsPublished, Allowed
<1>5. ASSUME UNCHANGED thinking
      PROVE  \A j \in Numbers :
               Started(j)' /\ Allowed(j)' => Released(j)' \/ thinking'[events'[j].in] = j
  BY <1>1, <1>3, <1>4, <1>5 DEF StopInv
<1>6. ASSUME UNCHANGED settled
      PROVE  \A j \in Settled(settled') : j # 0 => Released(j)'
  BY <1>3, <1>6 DEF StopInv
<1>7. CASE Take
  <2>1. UNCHANGED <<thinking, settled>> /\ sender'.at = "stopping"
    BY <1>7, TakeEffect DEF Take, telegramVars
  <2> QED
    BY <1>1, <1>5, <1>6, <2>1 DEF StopInv
<1>8. CASE StopThinking
  <2>1. /\ UNCHANGED <<thinking, settled>> /\ sender.at = "stopping"
        /\ sender'.about = sender.about /\ sender'.to = sender.to
    BY <1>8, PrepareEffect DEF StopThinking, SendStep
  <2>2. thinking[sender.to] # None => closed' = closed \cup {thinking[sender.to]}
    BY <1>8 DEF StopThinking
  <2>3. sender.about # 0 => Released(sender.about)'
    <3>1. SUFFICES ASSUME sender.about # 0 PROVE Released(sender.about)'
      OBVIOUS
    <3>2. PICK i : i = sender.about
      OBVIOUS
    <3>3. IsPublished(i) /\ sender.to = events[i].in /\ i \in Numbers
      BY <2>1, <3>1, <3>2, SenderFacts, SentHome
    <3>4. Released(i) \/ thinking[sender.to] = i
      BY <3>3 DEF StopInv, CrowdInv, IsPublished, Started
    <3>5. i # None
      BY <3>3, EventFacts DEF TypeInv
    <3>6. Released(i)'
      BY <1>3, <2>2, <3>4, <3>5 DEF Released
    <3> QED
      BY <2>1, <3>2, <3>6 DEF Released
  <2>4. thinking'[sender'.to] \in closed' \cup midStop' \cup {None}
    BY <2>1, <2>2
  <2> QED
    BY <1>1, <1>5, <1>6, <2>1, <2>3, <2>4 DEF StopInv, Released
<1>9. CASE ForgetStop
  <2>1. /\ UNCHANGED settled /\ sender.at = "forgetting" /\ sender'.at = "loading"
        /\ sender'.about = sender.about /\ sender.to \in Chats
        /\ thinking' = [thinking EXCEPT ![sender.to] = None]
    BY <1>9, PrepareEffect, SenderFacts DEF ForgetStop, SendStep, SenderStates
  <2>2. /\ thinking \in [Chats -> Numbers \cup {None}]
        /\ \A j \in Numbers : j # None /\ events[j].in \in Chats
    BY EventFacts DEF TypeInv, MapType
  <2>3. ASSUME NEW j \in Numbers, Started(j)', Allowed(j)'
        PROVE  Released(j)' \/ thinking'[events'[j].in] = j
    <3>1. Released(j) \/ thinking[events[j].in] = j
      BY <1>4, <2>3 DEF StopInv
    <3>2. CASE events[j].in = sender.to
      <4>1. thinking[events[j].in] = j => j \in closed \cup midStop
        BY <2>1, <2>2, <3>2 DEF StopInv
      <4> QED
        BY <1>3, <3>1, <4>1 DEF Released
    <3>3. CASE events[j].in # sender.to
      BY <1>1, <1>3, <2>1, <2>2, <3>1, <3>3
    <3> QED
      BY <3>2, <3>3
  <2>4. sender.about # 0 => Released(sender.about)
    BY <2>1 DEF StopInv
  <2>5. sender'.about # 0 => Released(sender.about)'
    BY <1>1, <1>2, <2>1, <2>4 DEF Released
  <2> QED
    BY <1>1, <1>6, <2>1, <2>3, <2>5 DEF StopInv
<1>10. CASE LoadPlaceholder \/ TakePlaceholder
  <2>1. /\ UNCHANGED <<thinking, settled>> /\ sender'.about = sender.about
        /\ sender.at \in {"loading", "taking"} /\ sender'.at # "forgetting"
    BY <1>10, PrepareEffect, SenderFacts
       DEF LoadPlaceholder, TakePlaceholder, SendStep, telegramVars, SenderStates
  <2>2. sender'.about # 0 => Released(sender.about)'
    BY <1>1, <1>2, <2>1 DEF StopInv, Released
  <2> QED
    BY <1>1, <1>5, <1>6, <2>1, <2>2 DEF StopInv
<1>11. CASE EditPlaceholder \/ SendNew
  <2>1. UNCHANGED thinking /\ sender.at \in {"editing", "sending"}
    BY <1>11 DEF EditPlaceholder, SendNew, SendStep, telegramVars
  <2>2. sender.about # 0 => Released(sender.about)
    BY <2>1 DEF StopInv
  <2>3. CASE sender' = [sender EXCEPT !.at = "sending"] /\ UNCHANGED settled
    <3>1. sender'.about = sender.about /\ sender'.at = "sending"
      BY <2>3, SenderFacts DEF SenderStates
    <3>2. sender'.about # 0 => Released(sender.about)'
      BY <1>1, <1>2, <2>2, <3>1 DEF Released
    <3> QED
      BY <1>1, <1>5, <1>6, <2>1, <2>3, <3>1, <3>2 DEF StopInv
  <2>4. CASE \E m \in SettledTexts : SettlesAs(m)
    <3>1. PICK m \in SettledTexts : SettlesAs(m)
      BY <2>4
    <3>2. m.about = sender.about /\ settled' = Append(settled, m) /\ sender' = NotSending
      BY <3>1 DEF SettlesAs
    <3>3. \A s \in DOMAIN settled' : \/ s \in DOMAIN settled /\ settled'[s] = settled[s]
                                     \/ settled'[s] = m
      BY <3>2, InboxFacts, AppendEntries
    <3>4. Settled(settled') \subseteq Settled(settled) \cup {sender.about}
      BY <3>2, <3>3 DEF Settled
    <3>5. \A j \in Settled(settled') : j # 0 => Released(j)'
      BY <1>3, <2>2, <3>4 DEF StopInv
    <3>6. sender'.about = 0 /\ sender'.at = "idle"
      BY <3>2 DEF NotSending
    <3> QED
      BY <1>1, <1>5, <2>1, <3>5, <3>6 DEF StopInv
  <2> QED
    BY <1>11, <2>3, <2>4, SettleEffect
<1> QED
  BY <1>7, <1>8, <1>9, <1>10, <1>11 DEF Send

LEMMA StopStep ==
  TypeInv /\ PathInv /\ HomeInv /\ PlaceInv /\ StopInv /\ [Next]_vars => StopInv'
<1> SUFFICES ASSUME TypeInv, PathInv, HomeInv, CrowdInv, StopInv, [Next]_vars PROVE StopInv'
  BY DEF PlaceInv
<1>0. kind' = kind
  BY DEF Next, vars, Write, Handler, Receive, Filter, StoreWebhook, StartThinking,
     SendPlaceholder, KeepPlaceholder, HandleMessage, HandlerStep, Answer, Notify, Send, Take,
     StopThinking, ForgetStop, LoadPlaceholder, TakePlaceholder, EditPlaceholder, SendNew,
     SendStep, Tick, Redraw, EndAnimation, AnimationOnly
<1>1. SUFFICES ASSUME kind = "telegram" PROVE StopInv'
  BY <1>0 DEF StopInv
<1>2. ASSUME UNCHANGED <<kind, events, handler, published, thinking, sender, settled, closed,
                         crowded, midStop>>
      PROVE  StopInv'
  <2>1. \A i : Started(i)' => Started(i)
    BY <1>2 DEF Started, IsPublished, Threads
  <2> QED
    BY <1>1, <1>2, <2>1, StopKept, StartedFacts
<1>3. CASE UNCHANGED vars
  BY <1>2, <1>3 DEF vars, inVars, outVars, telegramVars
<1>4. ASSUME NEW e \in Shapes, Write(e) PROVE StopInv'
  <2>1. /\ UNCHANGED <<kind, handler, published, thinking, sender, settled, closed, crowded,
                       midStop>>
        /\ Threads' = Threads /\ \A i \in Numbers : events'[i] = events[i]
    BY <1>4, WriteEffect
  <2>2. \A i : Started(i)' => Started(i)
    BY <2>1 DEF Started, IsPublished
  <2> QED
    BY <1>1, <2>1, <2>2, StopKept, StartedFacts
<1>5. ASSUME NEW t \in Threads, Handler(t) PROVE StopInv'
  <2>1. /\ UNCHANGED <<kind, events, sender, settled>> /\ Threads' = Threads
        /\ Threads = {1} /\ t = 1
    BY <1>1, <1>5, TelegramThread DEF Handler, Receive, Filter, StoreWebhook, StartThinking,
       SendPlaceholder, KeepPlaceholder, HandleMessage, HandlerStep, outVars, Threads
  <2>2. ASSUME ~StartThinking(t) PROVE StopInv'
    <3>1. UNCHANGED <<thinking, closed, crowded, midStop>>
      BY <1>5, <2>2 DEF Handler, Receive, Filter, StoreWebhook, SendPlaceholder,
         KeepPlaceholder, HandleMessage, telegramVars
    <3>2. CASE Receive(t)
      <4>1. UNCHANGED published
        BY <3>2 DEF Receive
      <4>2. handler'[t] = handler[t] \/ handler'[t].at \notin {"placing", "keeping", "publishing"}
        BY <1>1, <3>2, ReceiveEffect
      <4>3. \A i : Started(i)' => Started(i)
        BY <2>1, <4>1, <4>2 DEF Started, IsPublished
      <4> QED
        BY <1>1, <2>1, <3>1, <4>3, StopKept, StartedFacts
    <3>3. CASE SendPlaceholder(t) \/ KeepPlaceholder(t)
      <4>1. UNCHANGED published /\ handler[t].at \in {"placing", "keeping"}
        BY <3>3 DEF SendPlaceholder, KeepPlaceholder, HandlerStep
      <4>2. handler'[t].id = handler[t].id
        BY <3>3, TelegramEffect
      <4>3. \A i : Started(i)' => Started(i)
        BY <2>1, <4>1, <4>2 DEF Started, IsPublished
      <4> QED
        BY <1>1, <2>1, <3>1, <4>3, StopKept, StartedFacts
    <3>4. CASE HandleMessage(t)
      <4>1. PICK i : i = handler[t].id
        OBVIOUS
      <4>2. /\ handler[t].at = "publishing" /\ handler'[t].at = "idle" /\ i \in Numbers
            /\ published' = Append(published, i) \/ UNCHANGED published
        BY <3>4, <4>1, HandleMessageEffect
      <4>3. \A k \in DOMAIN published' : \/ k \in DOMAIN published /\ published'[k] = published[k]
                                         \/ published'[k] = i
        BY <4>2, PublishedFacts, AppendEntries
      <4>4. Started(i)
        BY <4>1, <4>2 DEF Started
      <4>5. \A j : Started(j)' => Started(j)
        <5>1. ASSUME NEW j, Started(j)' PROVE Started(j)
          <6>1. \E k \in DOMAIN published' : published'[k] = j
            BY <2>1, <4>2, <5>1 DEF Started, IsPublished
          <6>2. IsPublished(j) \/ j = i
            BY <4>3, <6>1 DEF IsPublished
          <6> QED
            BY <4>4, <6>2 DEF Started
        <5> QED
          BY <5>1
      <4> QED
        BY <1>1, <2>1, <3>1, <4>5, StopKept, StartedFacts
    <3>5. ~Filter(t) /\ ~StoreWebhook(t)
      BY <1>1, FilterEffect, StoreWebhookEffect
    <3> QED
      BY <1>5, <2>2, <3>2, <3>3, <3>4, <3>5 DEF Handler
  <2> QED
    BY <2>2, StartKeepsStop
<1>6. CASE Answer \/ Notify
  BY <1>2, <1>6 DEF Answer, Notify, inVars, telegramVars
<1>7. CASE Send
  BY <1>1, <1>7, SendKeepsStop
<1>8. ASSUME NEW i \in Numbers, Tick(i) \/ Redraw(i) \/ EndAnimation(i) PROVE StopInv'
  BY <1>2, <1>8 DEF Tick, Redraw, EndAnimation, AnimationOnly, inVars, outVars
<1> QED
  BY <1>3, <1>4, <1>5, <1>6, <1>7, <1>8 DEF Next

LEMMA InitStop == Init => StopInv
<1> SUFFICES ASSUME Init PROVE StopInv
  OBVIOUS
<1>1. /\ DOMAIN published = {} /\ DOMAIN settled = {} /\ sender.at = "idle"
      /\ \A t \in Threads : handler[t].at = "idle"
  BY DEF Init, Idle, NotSending
<1>2. \A i : ~Started(i)
  BY <1>1 DEF Started, IsPublished
<1>3. Settled(settled) = {}
  BY <1>1 DEF Settled
<1> QED
  BY <1>1, <1>2, <1>3 DEF StopInv

(* What AnimationsEnd rests on, for every number of messages: on Telegram, *)
(* once a message has been answered its stop channel is closed, unless     *)
(* another message of the chat was waiting when one of the two came, or it *)
(* came while a Send was between the close and the delete of the chat's    *)
(* entry (telegram.go:116-119, 255-256).                                   *)
THEOREM AnsweredMessagesAreReleased == Spec => []AnsweredAreReleased
<1>1. TypeInv /\ StopInv => AnsweredAreReleased
  <2> SUFFICES ASSUME TypeInv, StopInv, kind = "telegram", NEW i \in Numbers, Answered(i)
               PROVE  Released(i)
    BY DEF AnsweredAreReleased
  <2>1. i # 0 /\ i \in Settled(settled)
    BY EventFacts, AnsweredIsSettled DEF TypeInv
  <2> QED
    BY <2>1 DEF StopInv
<1> QED
  BY <1>1, InitStop, StopStep, TypeInvariance, PathInvariance, HomeInvariance, PlaceInvariance,
     PTL DEF Spec

=============================================================================
