----------------------------- MODULE ChatChannels -----------------------------
(***************************************************************************)
(* A conversation through one chat channel, of any of the seven kinds      *)
(* (pkg/channels/telegram.go, discord.go, whatsapp.go, qq.go, dingtalk.go, *)
(* feishu.go, maixcam.go, base.go): events come in on the goroutines of    *)
(* the SDK, become inbound messages, are answered by the agent, and the    *)
(* dispatcher sends the answers back.                                      *)
(*                                                                         *)
(* Three channels keep state of their own between an event and its answer. *)
(*   - Telegram shows "Thinking..." at once, animates it in a goroutine of *)
(*     its own and lets Send stop the animation and replace the text.      *)
(*     Both are looked up by chat, in maps whose operations are atomic     *)
(*     one by one.                                                         *)
(*   - QQ repeats deliveries; a set of the identifiers seen filters them,  *)
(*     and forgets half of them when it is full.                           *)
(*   - DingTalk's answers need the webhook of a message from the chat.     *)
(*                                                                         *)
(* Messages are numbered in the order they were written, and a number also *)
(* names the stop channel, the placeholder and the animation that a        *)
(* message got on Telegram.  The agent's side is MessagePipeline; starting *)
(* and stopping is Gateway.                                                *)
(***************************************************************************)
EXTENDS Adapters, Sequences, FiniteSets, FiniteSetsExt

CONSTANTS
    Shapes,        \* the events that occur
    Bound,         \* bound: messages written, for each kind that occurs
    Copies,        \* bound: deliveries of one QQ message
    MaxNotices,    \* bound: messages that answer nothing (message tool, cron)
    Limit, Half,   \* QQ: identifiers kept, forgotten at once (10000, 5000)
    InCap, OutCap, \* capacity of the two queues (100 in bus.go)
    None           \* no entry in a map

(* Nobody but its user writes in a private conversation, but the event     *)
(* need not say who it was.                                                *)
ASSUME ChatAssumption ==
    /\ Shapes \subseteq Events
    /\ \A e \in Shapes : e.in \in Users => e.from \in {e.in, NoUser}
    /\ DOMAIN Bound \subseteq Kinds /\ \A k \in DOMAIN Bound : Bound[k] \in Nat
    /\ Copies \in Nat /\ MaxNotices \in Nat
    /\ Limit \in Nat \ {0} /\ Half \in 1 .. Limit
    /\ InCap \in Nat \ {0} /\ OutCap \in Nat \ {0}
    /\ None \notin Nat /\ None \notin Conversations \cup {NoUser, Nowhere}

VARIABLES
    kind,         \* which channel it is
    events,       \* the messages written, in order
    undelivered,  \* how many more times the platform may deliver each
    handler,      \* where each goroutine of the SDK is, with which message
    inbox,        \* inbound messages, by number
    published,    \* every message that was published to the agent, in order
    outbox,       \* answers (about a message) and notices (about 0)
    notices,      \* notices so far
    sender,       \* where the dispatcher is in Send
    settled,      \* what became of what was sent
    processed,    \* QQ: processedIDs
    forgotten,    \* QQ: identifiers that were evicted (history)
    webhooks,     \* DingTalk: sessionWebhooks
    thinking,     \* Telegram: stopThinking, by chat
    placeholders, \* Telegram: placeholders, by chat
    closed,       \* Telegram: stop channels that are closed
    display,      \* Telegram: what each placeholder shows
    animation,    \* Telegram: the goroutine of each placeholder
    crowded,      \* Telegram: messages whose chat had another one waiting (history)
    midStop       \* Telegram: messages that came between a Send's close and its delete (history)

telegramVars == <<thinking, placeholders, closed, display, animation, crowded, midStop>>
inVars == <<events, undelivered, handler, inbox, published, processed, forgotten, webhooks>>
outVars == <<outbox, notices, sender, settled>>
vars == <<kind, inVars, outVars, telegramVars>>

Numbers == 1 .. Len(events)

AllNumbers == 1 .. Max({0} \cup {Bound[k] : k \in DOMAIN Bound})

(* The chat identifier of a message. *)
ChatOf(i) == Address(kind, events[i])

(* The SDKs of Telegram and WhatsApp deliver one event at a time. *)
Threads == IF kind \in {"telegram", "whatsapp"} THEN {1} ELSE {1, 2}

Idle == [at |-> "idle", id |-> 0]

(* What is sent: the message it answers, or 0, and the address. *)
NotSending == [at |-> "idle", about |-> 0, to |-> None, held |-> None]

Chats == Conversations \cup {NoUser}

Init ==
    /\ kind \in DOMAIN Bound
    /\ events = <<>> /\ undelivered = <<>>
    /\ handler = [t \in Threads |-> Idle]
    /\ inbox = <<>> /\ published = <<>>
    /\ outbox = <<>> /\ notices = 0
    /\ sender = NotSending /\ settled = <<>>
    /\ processed = {} /\ forgotten = {}
    /\ webhooks = [c \in Chats |-> None]
    /\ thinking = [c \in Chats |-> None]
    /\ placeholders = [c \in Chats |-> None]
    /\ closed = {}
    /\ display = <<>> /\ animation = <<>>
    /\ crowded = {} /\ midStop = {}

-----------------------------------------------------------------------------
(* Events.                                                                 *)

(* Somebody writes to the bot. *)
Write(e) ==
    /\ Len(events) < Bound[kind]
    /\ e.in = Device <=> kind = "maixcam"
    /\ events' = Append(events, e)
    /\ undelivered' = Append(undelivered, IF kind = "qq" THEN Copies ELSE 1)
    /\ display' = Append(display, None)
    /\ animation' = Append(animation, "none")
    /\ UNCHANGED <<kind, handler, inbox, published, processed, forgotten, webhooks, outVars,
                   thinking, placeholders, closed, crowded, midStop>>

HandlerStep(t, place) ==
    /\ handler[t].at = place
    /\ UNCHANGED <<kind, events, outVars>>

Goto(t, place) == handler' = [handler EXCEPT ![t].at = place]
Return(t) == handler' = [handler EXCEPT ![t] = Idle]

(* The SDK calls the handler, which drops the message or goes on with what *)
(* its channel does first.                                                 *)
Receive(t) ==
    /\ HandlerStep(t, "idle")
    /\ \E i \in Numbers :
          /\ undelivered[i] > 0
          /\ \A j \in 1 .. (i - 1) : kind # "qq" => undelivered[j] = 0
          /\ undelivered' = [undelivered EXCEPT ![i] = @ - 1]
          /\ handler' =
                IF kind # "qq" /\ Dropped(kind, events[i]) THEN handler
                ELSE [handler EXCEPT ![t] =
                         [id |-> i, at |-> CASE kind = "telegram" -> "thinking"
                                             [] kind = "qq"       -> "filtering"
                                             [] kind = "dingtalk" -> "storing"
                                             [] OTHER             -> "publishing"]]
    /\ UNCHANGED <<inbox, published, processed, forgotten, webhooks, telegramVars>>

(* A set that is cleaned up one identifier too late. *)
RememberBeyond(seen) ==
    \E evicted \in IF Cardinality(seen) > Limit + 1 THEN kSubset(Half, seen) ELSE {{}} :
        /\ processed' = seen \ evicted
        /\ forgotten' = forgotten \cup evicted

(* A set that grows over the limit loses half of it, whichever identifiers *)
(* the iteration over the map yields first.                                *)
Remember(seen) ==
    \E evicted \in IF Cardinality(seen) > Limit THEN kSubset(Half, seen) ELSE {{}} :
        /\ processed' = seen \ evicted
        /\ forgotten' = forgotten \cup evicted

(* The identifier is marked only for private messages.                     *)
FilterPrivateOnly(t) ==
    /\ HandlerStep(t, "filtering")
    /\ LET i == handler[t].id
           seen == processed \cup {j \in {i} : events[j].in \notin Groups}
       IN  IF i \in processed
           THEN Return(t) /\ UNCHANGED <<processed, forgotten>>
           ELSE /\ Remember(seen)
                /\ IF Dropped(kind, events[i]) THEN Return(t) ELSE Goto(t, "publishing")
    /\ UNCHANGED <<undelivered, inbox, published, webhooks, telegramVars>>

(* QQ's isDuplicate, one section under the channel's lock: an identifier   *)
(* is marked before its message is looked at.                              *)
Filter(t) ==
    /\ HandlerStep(t, "filtering")
    /\ LET i == handler[t].id
           seen == processed \cup {i}
       IN  IF i \in processed
           THEN Return(t) /\ UNCHANGED <<processed, forgotten>>
           ELSE /\ Remember(seen)
                /\ IF Dropped(kind, events[i]) THEN Return(t) ELSE Goto(t, "publishing")
    /\ UNCHANGED <<undelivered, inbox, published, webhooks, telegramVars>>

(* DingTalk remembers the webhook of the chat before it publishes. *)
StoreWebhook(t) ==
    /\ HandlerStep(t, "storing")
    /\ LET i == handler[t].id
       IN  webhooks' = [webhooks EXCEPT ![ChatOf(i)] = events[i].in]
    /\ Goto(t, "publishing")
    /\ UNCHANGED <<undelivered, inbox, published, processed, forgotten, telegramVars>>

(* The message was published and no answer to it has been settled. *)
Answered(i) == \E s \in DOMAIN settled : settled[s].about = i
Waiting(c) ==
    {i \in Numbers : ChatOf(i) = c /\ undelivered[i] = 0 /\ ~Answered(i)
                     /\ ~Dropped(kind, events[i]) /\ IsAllowed(kind, events[i])}

(* Telegram stores the new stop channel, over an older one of the chat and *)
(* perhaps just before a Send deletes the one it has closed.               *)
StartThinking(t) ==
    /\ HandlerStep(t, "thinking")
    /\ LET i == handler[t].id
           c == ChatOf(i)
       IN  /\ thinking' = [thinking EXCEPT ![c] = i]
           /\ crowded' = IF Waiting(c) \ {i} = {} THEN crowded ELSE crowded \cup Waiting(c) \cup {i}
           /\ midStop' = midStop \cup {j \in {i} : sender.at = "forgetting" /\ sender.to = c}
    /\ Goto(t, "placing")
    /\ UNCHANGED <<undelivered, inbox, published, processed, forgotten, webhooks,
                   placeholders, closed, display, animation>>

(* It sends the placeholder; if that fails there is no animation. *)
SendPlaceholder(t) ==
    /\ HandlerStep(t, "placing")
    /\ \/ /\ display' = [display EXCEPT ![handler[t].id] = "thinking"]
          /\ Goto(t, "keeping")
       \/ /\ Goto(t, "publishing")
          /\ UNCHANGED display
    /\ UNCHANGED <<undelivered, inbox, published, processed, forgotten, webhooks,
                   thinking, placeholders, closed, animation, crowded, midStop>>

(* It stores the placeholder and launches the animation. *)
KeepPlaceholder(t) ==
    /\ HandlerStep(t, "keeping")
    /\ LET i == handler[t].id
       IN  /\ placeholders' = [placeholders EXCEPT ![ChatOf(i)] = i]
           /\ animation' = [animation EXCEPT ![i] = "waiting"]
    /\ Goto(t, "publishing")
    /\ UNCHANGED <<undelivered, inbox, published, processed, forgotten, webhooks,
                   thinking, closed, display, crowded, midStop>>

(* BaseChannel.HandleMessage: the allow-list is asked only here, and the   *)
(* publication waits for room.                                             *)
HandleMessage(t) ==
    /\ HandlerStep(t, "publishing")
    /\ LET i == handler[t].id
       IN  IF IsAllowed(kind, events[i])
           THEN /\ Len(inbox) < InCap
                /\ inbox' = Append(inbox, i)
                /\ published' = Append(published, i)
           ELSE UNCHANGED <<inbox, published>>
    /\ Return(t)
    /\ UNCHANGED <<undelivered, processed, forgotten, webhooks, telegramVars>>

-----------------------------------------------------------------------------
(* The agent, which answers one message after the other.                   *)

Answer ==
    /\ inbox # <<>> /\ Len(outbox) < OutCap
    /\ outbox' = Append(outbox, [about |-> Head(inbox), to |-> ChatOf(Head(inbox))])
    /\ inbox' = Tail(inbox)
    /\ UNCHANGED <<kind, events, undelivered, handler, published, processed, forgotten, webhooks,
                   notices, sender, settled, telegramVars>>

(* The message tool or a cron job writes to a chat it has heard of; both   *)
(* refuse an empty chat identifier.                                        *)
Notify ==
    /\ notices < MaxNotices /\ Len(outbox) < OutCap
    /\ \E i \in {published[k] : k \in DOMAIN published} :
          /\ ChatOf(i) # NoUser
          /\ outbox' = Append(outbox, [about |-> 0, to |-> ChatOf(i)])
    /\ notices' = notices + 1
    /\ UNCHANGED <<kind, inVars, sender, settled, telegramVars>>

-----------------------------------------------------------------------------
(* Send.                                                                   *)

SendStep(place) ==
    /\ sender.at = place
    /\ UNCHANGED <<kind, inVars, notices>>

(* place is the placeholder that was edited, or None for a new message. *)
Settle(where, place) ==
    /\ settled' = Append(settled, [about |-> sender.about, shown |-> where, in |-> place])
    /\ sender' = NotSending

Take ==
    /\ SendStep("idle") /\ outbox # <<>>
    /\ sender' = [NotSending EXCEPT
                     !.at = IF kind = "telegram" THEN "stopping" ELSE "sending",
                     !.about = Head(outbox).about, !.to = Head(outbox).to]
    /\ outbox' = Tail(outbox)
    /\ UNCHANGED <<settled, telegramVars>>

(* The stop channel is dropped without a close. *)
StopThinkingUnclosed ==
    /\ SendStep("stopping")
    /\ sender' = [sender EXCEPT !.at = IF thinking[sender.to] = None THEN "loading" ELSE "forgetting"]
    /\ UNCHANGED <<outbox, settled, telegramVars>>

(* Telegram loads the chat's stop channel and closes it. *)
StopThinking ==
    /\ SendStep("stopping")
    /\ LET i == thinking[sender.to]
       IN  IF i = None
           THEN /\ sender' = [sender EXCEPT !.at = "loading"]
                /\ UNCHANGED closed
           ELSE /\ sender' = [sender EXCEPT !.at = "forgetting"]
                /\ closed' = closed \cup {i}
    /\ UNCHANGED <<outbox, settled, thinking, placeholders, display, animation, crowded, midStop>>

(* It deletes whatever stop channel the chat has by now. *)
ForgetStop ==
    /\ SendStep("forgetting")
    /\ thinking' = [thinking EXCEPT ![sender.to] = None]
    /\ sender' = [sender EXCEPT !.at = "loading"]
    /\ UNCHANGED <<outbox, settled, placeholders, closed, display, animation, crowded, midStop>>

LoadPlaceholder ==
    /\ SendStep("loading")
    /\ sender' = [sender EXCEPT !.held = placeholders[sender.to],
                                !.at = IF placeholders[sender.to] = None THEN "sending"
                                                                         ELSE "taking"]
    /\ UNCHANGED <<outbox, settled, telegramVars>>

(* A placeholder is used again by the next Send. *)
TakePlaceholderKeeping ==
    /\ SendStep("taking")
    /\ sender' = [sender EXCEPT !.at = "editing"]
    /\ UNCHANGED <<outbox, settled, telegramVars>>

TakePlaceholder ==
    /\ SendStep("taking")
    /\ placeholders' = [placeholders EXCEPT ![sender.to] = None]
    /\ sender' = [sender EXCEPT !.at = "editing"]
    /\ UNCHANGED <<outbox, settled, thinking, closed, display, animation, crowded, midStop>>

(* The edit of the placeholder.  A call that fails may have had its effect *)
(* all the same; Send then writes a new message.                           *)
EditPlaceholder ==
    /\ SendStep("editing")
    /\ \E done \in BOOLEAN, ok \in BOOLEAN :
          /\ ok => done
          /\ display' = IF done THEN [display EXCEPT ![sender.held] = "answer"] ELSE display
          /\ IF ok THEN Settle(sender.to, sender.held)
                   ELSE /\ sender' = [sender EXCEPT !.at = "sending"]
                        /\ UNCHANGED settled
    /\ UNCHANGED <<outbox, thinking, placeholders, closed, animation, crowded, midStop>>

(* A new message: Telegram's second attempt in plain text included.  The   *)
(* call may fail, and then the message is lost.                            *)
SendNew ==
    /\ SendStep("sending")
    /\ \/ Settle(Reached(kind, sender.to, webhooks[sender.to]), None)
       \/ Settle("lost", None)
    /\ UNCHANGED <<outbox, telegramVars>>

-----------------------------------------------------------------------------
(* The animation.                                                          *)

AnimationOnly ==
    UNCHANGED <<kind, inVars, outVars, thinking, placeholders, closed, crowded, midStop>>

(* The ticker fires; select may prefer it to a closed stop channel. *)
Tick(i) ==
    /\ AnimationOnly
    /\ animation[i] = "waiting"
    /\ animation' = [animation EXCEPT ![i] = "editing"]
    /\ UNCHANGED display

(* Its edit arrives, whatever the placeholder shows, or fails. *)
Redraw(i) ==
    /\ AnimationOnly
    /\ animation[i] = "editing"
    /\ animation' = [animation EXCEPT ![i] = "waiting"]
    /\ display' \in {display, [display EXCEPT ![i] = "thinking"]}

EndAnimation(i) ==
    /\ AnimationOnly
    /\ animation[i] = "waiting" /\ i \in closed
    /\ animation' = [animation EXCEPT ![i] = "ended"]
    /\ UNCHANGED display

-----------------------------------------------------------------------------
Handler(t) ==
    \/ Receive(t)
    \/ Filter(t)
    \/ StoreWebhook(t)
    \/ StartThinking(t)
    \/ SendPlaceholder(t)
    \/ KeepPlaceholder(t)
    \/ HandleMessage(t)

Send ==
    \/ Take
    \/ StopThinking
    \/ ForgetStop
    \/ LoadPlaceholder
    \/ TakePlaceholder
    \/ EditPlaceholder
    \/ SendNew

Next ==
    \/ \E e \in Shapes : Write(e)
    \/ \E t \in Threads : Handler(t)
    \/ Answer
    \/ Notify
    \/ Send
    \/ \E i \in Numbers : Tick(i) \/ Redraw(i) \/ EndAnimation(i)

Spec == Init /\ [][Next]_vars

(* The goroutines go on, calls of the platform and turns of the agent      *)
(* return, and select is fair between ticker and stop channel.             *)
Fairness ==
    /\ \A t \in {1, 2} : WF_vars(t \in Threads /\ Handler(t))
    /\ WF_vars(Answer)
    /\ WF_vars(Send)
    /\ \A i \in AllNumbers : /\ WF_vars(i \in Numbers /\ Redraw(i))
                           /\ SF_vars(i \in Numbers /\ EndAnimation(i))

FairSpec == Spec /\ Fairness

-----------------------------------------------------------------------------
HandlerPlaces == {"idle", "filtering", "storing", "thinking", "placing", "keeping", "publishing"}
SendPlaces == {"idle", "stopping", "forgetting", "loading", "taking", "editing", "sending"}

TypeOK ==
    /\ kind \in Kinds
    /\ events \in Seq(Shapes) /\ Len(events) <= Bound[kind]
    /\ undelivered \in [Numbers -> 0 .. IF kind = "qq" THEN Copies ELSE 1]
    /\ handler \in [Threads -> [at : HandlerPlaces, id : Numbers \cup {0}]]
    /\ \A t \in Threads : handler[t].at = "idle" <=> handler[t].id = 0
    /\ inbox \in Seq(Numbers) /\ Len(inbox) <= InCap
    /\ published \in Seq(Numbers)
    /\ outbox \in Seq([about : Numbers \cup {0}, to : Chats]) /\ Len(outbox) <= OutCap
    /\ notices \in 0 .. MaxNotices
    /\ sender \in [at : SendPlaces, about : Numbers \cup {0}, to : Chats \cup {None},
                   held : Numbers \cup {None}]
    /\ sender.at # "idle" <=> sender.to # None
    /\ sender.at \in {"taking", "editing"} => sender.held # None
    /\ processed \subseteq Numbers /\ Cardinality(processed) <= Limit
    /\ forgotten \subseteq Numbers
    /\ webhooks \in [Chats -> Conversations \cup {None}]
    /\ thinking \in [Chats -> Numbers \cup {None}]
    /\ placeholders \in [Chats -> Numbers \cup {None}]
    /\ closed \subseteq Numbers /\ crowded \subseteq Numbers /\ midStop \subseteq Numbers
    /\ display \in [Numbers -> {None, "thinking", "answer"}]
    /\ animation \in [Numbers -> {"none", "waiting", "editing", "ended"}]

(* A message is published to the agent once however often QQ delivers it   *)
(* and on how many goroutines (qq.go:219-243), unless its identifier was   *)
(* evicted from the full set.  The other channels have no filter, and      *)
(* publish once what is delivered once.                                    *)
PublishedOnce ==
    \A j, k \in DOMAIN published :
        j # k /\ published[j] = published[k] => published[j] \in forgotten

(* The chat identifier is empty: a private message on DingTalk whose event *)
(* lacks the author's staff id (dingtalk.go:135-141 does not look).        *)
Unaddressed(i) == kind = "dingtalk" /\ events[i].in \in Users /\ events[i].from = NoUser

(* An answer that is not lost to a failed call is shown in the             *)
(* conversation of the message it answers, although only a chat identifier *)
(* travels with it (base.go:67) and webhooks change meanwhile, with two    *)
(* exceptions.  On QQ the answer to a group is sent to a user of the       *)
(* group's name (qq.go:125, 212).  On DingTalk the private conversations   *)
(* of all unaddressed messages are one chat, whose answers go to the last  *)
(* of them to write; but to no other conversation.                         *)
RepliesGoBack ==
    \A s \in DOMAIN settled :
        LET i     == settled[s].about
            shown == settled[s].shown
        IN  i # 0 /\ shown # "lost" =>
               \/ shown = events[i].in
               \/ kind = "qq" /\ events[i].in \in Groups /\ shown = Nowhere
               \/ Unaddressed(i) /\ \E j \in Numbers : Unaddressed(j) /\ shown = events[j].in

(* On Telegram an answer replaces the placeholder of its own message or is *)
(* a message of its own (telegram.go:122-144), unless another message of   *)
(* the same chat was waiting for its answer, for the maps are keyed by     *)
(* chat; or the placeholder of somebody who is not allowed was left over.  *)
AnswersInTheirPlace ==
    \A s \in DOMAIN settled :
        settled[s].about # 0 =>
            \/ settled[s].in \in {None, settled[s].about}
            \/ settled[s].about \in crowded
            \/ ~IsAllowed(kind, events[settled[s].in])

(* Every "Thinking..." animation ends (telegram.go:116-120, 263-280), with *)
(* three exceptions: a chat in which a message came before the answer to   *)
(* the last one, whose stop channel is overwritten; a message that came    *)
(* after a Send closed the stop channel of the chat and before it deleted  *)
(* it, which deletes the new one; and a sender who is not allowed, who is  *)
(* never answered.                                                         *)
AnimationsEnd ==
    \A i \in AllNumbers :
        (i \in Numbers /\ animation[i] = "waiting") ~>
            (i \in Numbers /\ (\/ animation[i] = "ended"
                               \/ i \in crowded \cup midStop
                               \/ ~IsAllowed(kind, events[i])))

=============================================================================
