--------------------------- MODULE MessagePipeline ---------------------------
(***************************************************************************)
(* The path of a message through the gateway: pkg/bus/bus.go, the agent's  *)
(* Run loop and turns (pkg/agent/loop.go), the message and spawn tools and *)
(* the subagents they start (pkg/tools), cron jobs (tools/cron.go) and the *)
(* outbound dispatcher (pkg/channels/manager.go).                          *)
(*                                                                         *)
(* Goroutines:                                                             *)
(*   - the channels' receivers, which publish inbound messages and block   *)
(*     while that queue is full;                                           *)
(*   - "run", the agent's Run loop, one turn at a time;                    *)
(*   - "cron", the cron service's loop, which executes a job by publishing *)
(*     its text or by a turn of its own, concurrently with "run";          *)
(*   - one per subagent, which announces its end while it holds the        *)
(*     subagent manager's lock;                                            *)
(*   - the dispatcher, which sends or drops what is in the outbound queue. *)
(*                                                                         *)
(* What a model answers is a nondeterministic choice.  A chat stands for a *)
(* pair of channel and chat identifier, neither of them empty; the channel *)
(* may be one nobody registered, as "cli" of a job without a target.       *)
(* updateToolContexts writes the contexts of two tools; no tool reads the  *)
(* other's, so it is one step.                                             *)
(***************************************************************************)
EXTENDS Naturals, Sequences, FiniteSets

CONSTANTS
    Chats,          \* the chats messages can be addressed to
    Registered,     \* those on channels that the manager has
    Targets,        \* bound: those that jobs and calls of the message tool name
    NoChat,         \* no chat, the tools' contexts before the first turn
    System,         \* the channel "system", which no manager registers
    InCap, OutCap,  \* capacity of the two queues (100 in bus.go)
    MaxRequests,    \* bound: messages from users
    MaxJobs,        \* bound: executions of cron jobs
    MaxTasks,       \* bound: subagents
    MaxCalls,       \* the agent's maxIterations, with one tool call in each
    ModelMayFail    \* whether the provider may return an error

Requests == 1 .. MaxRequests
Tasks == 1 .. MaxTasks
Workers == {"run", "cron"}

(* No holder of a lock. *)
Free == 0

ASSUME PipelineAssumption ==
    /\ Registered \subseteq Chats /\ Targets \subseteq Chats
    /\ System \notin Chats /\ NoChat \notin Chats
    /\ InCap \in Nat \ {0} /\ OutCap \in Nat \ {0}
    /\ MaxRequests \in Nat /\ MaxJobs \in Nat /\ MaxTasks \in Nat /\ MaxCalls \in Nat
    /\ ModelMayFail \in BOOLEAN

(* InboundMessage: what it is about and the chat it concerns, which for a  *)
(* subagent's announcement is the origin its ChatID spells out.  A cron    *)
(* job's turn gets its message without the queue.                          *)
Inbound == [kind : {"user", "system", "job"}, chat : Chats, id : Nat]

NoMessage == [kind |-> "none", chat |-> NoChat, id |-> 0]

(* OutboundMessage, with the step that published it and the chat and       *)
(* message that step worked for.                                           *)
Outbound ==
    [kind : {"reply", "report", "echo", "tool", "direct", "job"},
     to : Chats \cup {System}, chat : Chats, id : Nat]

Message(kind, to, msg) == [kind |-> kind, to |-> to, chat |-> msg.chat, id |-> msg.id]

(* Where a goroutine is in runAgentLoop:                                   *)
(*   idle     waiting for a message or a job                               *)
(*   begin    about to update the tool contexts                            *)
(*   model    about to call the model                                      *)
(*   message, spawn    in ExecuteWithContext, about to read the context    *)
(*   lock     in Spawn, waiting for the manager's lock                     *)
(*   send     publishing for a tool                                        *)
(*   finish   publishing the outcome of the turn, or a job's text          *)
Places == {"idle", "begin", "model", "message", "spawn", "lock", "send", "finish"}

VARIABLES
    inbound, outbound,  \* the two queues
    worker,             \* what each goroutine that runs turns is doing
    messageChat,        \* context of the message tool (defaultChannel, defaultChatID)
    spawnChat,          \* context of the spawn tool (originChannel, originChatID)
    tasks,              \* the subagents in order of creation
    lock,               \* the task that holds SubagentManager.mu, or Free
    executed,           \* cron job executions so far
    requests,           \* history: the chats of the users' messages, in order
    answers,            \* history: the replies the dispatcher tried to send
    reported            \* history: the subagents whose report it tried to send

vars == <<inbound, outbound, worker, messageChat, spawnChat, tasks, lock, executed,
          requests, answers, reported>>

IdleWorker ==
    [at |-> "idle", msg |-> NoMessage, calls |-> 0, out |-> <<>>, origin |-> NoChat]

Init ==
    /\ inbound = <<>> /\ outbound = <<>>
    /\ worker = [w \in Workers |-> IdleWorker]
    /\ messageChat = NoChat /\ spawnChat = NoChat
    /\ tasks = <<>>
    /\ lock = Free
    /\ executed = 0
    /\ requests = <<>> /\ answers = <<>> /\ reported = {}

-----------------------------------------------------------------------------
(* The bus.  A publisher waits while the queue is full. *)

PublishInbound(msg) ==
    /\ Len(inbound) < InCap
    /\ inbound' = Append(inbound, msg)

PublishOutbound(msg) ==
    /\ Len(outbound) < OutCap
    /\ outbound' = Append(outbound, msg)

(* A channel's receiver hands in a user's message. *)
Receive ==
    /\ Len(requests) < MaxRequests
    /\ \E c \in Registered :
         /\ requests' = Append(requests, c)
         /\ PublishInbound([kind |-> "user", chat |-> c, id |-> Len(requests) + 1])
    /\ UNCHANGED <<outbound, worker, messageChat, spawnChat, tasks, lock, executed,
                   answers, reported>>

-----------------------------------------------------------------------------
(* Turns. *)

Goto(w, place) == worker' = [worker EXCEPT ![w].at = place]

(* ConsumeInbound in Run. *)
Consume ==
    /\ worker["run"].at = "idle"
    /\ inbound # <<>>
    /\ worker' = [worker EXCEPT !["run"] =
                     [IdleWorker EXCEPT !.at = "begin", !.msg = Head(inbound)]]
    /\ inbound' = Tail(inbound)
    /\ UNCHANGED <<outbound, messageChat, spawnChat, tasks, lock, executed, requests,
                   answers, reported>>

(* CronTool.ExecuteJob: deliver publishes the text, otherwise the job is a *)
(* turn of the cron goroutine through ProcessDirectWithChannel.  The job   *)
(* names any chat, and stands for "direct" on "cli" if it names none.      *)
ExecuteJob ==
    /\ worker["cron"].at = "idle"
    /\ executed < MaxJobs
    /\ executed' = executed + 1
    /\ \E c \in Targets, deliver \in BOOLEAN :
         LET job == [kind |-> "job", chat |-> c, id |-> executed']
         IN  worker' = [worker EXCEPT !["cron"] =
                 IF deliver
                 THEN [IdleWorker EXCEPT !.at = "finish", !.msg = job,
                                         !.out = <<Message("job", c, job)>>]
                 ELSE [IdleWorker EXCEPT !.at = "begin", !.msg = job]]
    /\ UNCHANGED <<inbound, outbound, messageChat, spawnChat, tasks, lock, requests,
                   answers, reported>>

(* updateToolContexts, the first step of runAgentLoop. *)
BeginTurn(w) ==
    /\ worker[w].at = "begin"
    /\ messageChat' = worker[w].msg.chat
    /\ spawnChat' = worker[w].msg.chat
    /\ Goto(w, "model")
    /\ UNCHANGED <<inbound, outbound, tasks, lock, executed, requests, answers, reported>>

(* The model asks for the message tool: ExecuteWithContext sets the tool's *)
(* context, then calls Execute.                                            *)
CallMessage(w) ==
    /\ worker[w].at = "model"
    /\ worker[w].calls < MaxCalls
    /\ messageChat' = worker[w].msg.chat
    /\ worker' = [worker EXCEPT ![w].at = "message", ![w].calls = @ + 1]
    /\ UNCHANGED <<inbound, outbound, spawnChat, tasks, lock, executed, requests,
                   answers, reported>>

(* MessageTool.Execute goes on to publish to the chat of its context, or   *)
(* to the one that the model named in the call ("direct").                 *)
ExecuteMessage(w) ==
    /\ worker[w].at = "message"
    /\ \E text \in {Message("tool", messageChat, worker[w].msg)}
                   \cup {Message("direct", c, worker[w].msg) : c \in Targets} :
          worker' = [worker EXCEPT ![w].at = "send", ![w].out = <<text>>]
    /\ UNCHANGED <<inbound, outbound, messageChat, spawnChat, tasks, lock, executed,
                   requests, answers, reported>>

CallSpawn(w) ==
    /\ worker[w].at = "model"
    /\ worker[w].calls < MaxCalls
    /\ Len(tasks) < MaxTasks
    /\ spawnChat' = worker[w].msg.chat
    /\ worker' = [worker EXCEPT ![w].at = "spawn", ![w].calls = @ + 1]
    /\ UNCHANGED <<inbound, outbound, messageChat, tasks, lock, executed, requests,
                   answers, reported>>

(* SpawnTool.Execute reads the context before Spawn asks for the lock. *)
ExecuteSpawn(w) ==
    /\ worker[w].at = "spawn"
    /\ worker' = [worker EXCEPT ![w].at = "lock", ![w].origin = spawnChat]
    /\ UNCHANGED <<inbound, outbound, messageChat, spawnChat, tasks, lock, executed,
                   requests, answers, reported>>

(* Spawn, under the lock. *)
Spawn(w) ==
    /\ worker[w].at = "lock"
    /\ lock = Free
    /\ tasks' = Append(tasks, [status |-> "running", origin |-> worker[w].origin])
    /\ worker' = [worker EXCEPT ![w].at = "model", ![w].origin = NoChat]
    /\ UNCHANGED <<inbound, outbound, messageChat, spawnChat, lock, executed, requests,
                   answers, reported>>

(* Mutant: Run logs an error instead of answering with it. *)
OutcomeSilentOnError(msg, failed) ==
    CASE msg.kind = "user" -> IF failed THEN <<>> ELSE <<Message("reply", msg.chat, msg)>>
      [] msg.kind = "system" ->
           (IF failed THEN <<>> ELSE <<Message("report", msg.chat, msg)>>)
               \o <<Message("echo", System, msg)>>
      [] msg.kind = "job" -> <<>>

(* Mutant: Run answers a subagent's announcement in the origin chat. *)
OutcomeEchoToOrigin(msg, failed) ==
    CASE msg.kind = "user" -> <<Message("reply", msg.chat, msg)>>
      [] msg.kind = "system" ->
           (IF failed THEN <<>> ELSE <<Message("report", msg.chat, msg)>>)
               \o <<Message("echo", msg.chat, msg)>>
      [] msg.kind = "job" -> <<>>

(* What is published at the end of a turn: the reply to a user or the      *)
(* error text, by Run; the report of a subagent by runAgentLoop           *)
(* (SendResponse) and once more, or the error text, by Run, which answers  *)
(* the channel the message came from; nothing for a cron job's turn.       *)
Outcome(msg, failed) ==
    CASE msg.kind = "user" -> <<Message("reply", msg.chat, msg)>>
      [] msg.kind = "system" ->
           (IF failed THEN <<>> ELSE <<Message("report", msg.chat, msg)>>)
               \o <<Message("echo", System, msg)>>
      [] msg.kind = "job" -> <<>>

(* The model gives its final answer, fails, or is out of iterations. *)
EndTurn(w) ==
    /\ worker[w].at = "model"
    /\ \E failed \in IF ModelMayFail THEN BOOLEAN ELSE {FALSE} :
         LET out == Outcome(worker[w].msg, failed)
         IN  worker' = [worker EXCEPT ![w] =
                 IF out = <<>> THEN IdleWorker
                 ELSE [@ EXCEPT !.at = "finish", !.out = out]]
    /\ UNCHANGED <<inbound, outbound, messageChat, spawnChat, tasks, lock, executed,
                   requests, answers, reported>>

(* A goroutine that is publishing gets its next message into the queue. *)
Publish(w) ==
    /\ worker[w].at \in {"send", "finish"}
    /\ PublishOutbound(Head(worker[w].out))
    /\ LET rest == Tail(worker[w].out)
       IN  worker' = [worker EXCEPT ![w] =
               IF rest # <<>> THEN [@ EXCEPT !.out = rest]
               ELSE IF @.at = "send" THEN [@ EXCEPT !.at = "model", !.out = <<>>]
               ELSE IdleWorker]
    /\ UNCHANGED <<inbound, messageChat, spawnChat, tasks, lock, executed, requests,
                   answers, reported>>

-----------------------------------------------------------------------------
(* Subagents. *)

(* runTask: the provider has answered, or failed; the manager's lock is    *)
(* taken for the rest of the function.                                     *)
TaskDone(t) ==
    /\ tasks[t].status = "running"
    /\ lock = Free
    /\ lock' = t
    /\ tasks' = [tasks EXCEPT ![t].status = "announcing"]
    /\ UNCHANGED <<inbound, outbound, worker, messageChat, spawnChat, executed, requests,
                   answers, reported>>

(* Mutant: the lock is not released after the announcement. *)
AnnounceKeepsLock(t) ==
    /\ tasks[t].status = "announcing"
    /\ PublishInbound([kind |-> "system", chat |-> tasks[t].origin, id |-> t])
    /\ tasks' = [tasks EXCEPT ![t].status = "done"]
    /\ UNCHANGED <<outbound, worker, messageChat, spawnChat, lock, executed, requests,
                   answers, reported>>

(* PublishInbound to the system channel, with the lock held. *)
Announce(t) ==
    /\ tasks[t].status = "announcing"
    /\ PublishInbound([kind |-> "system", chat |-> tasks[t].origin, id |-> t])
    /\ lock' = Free
    /\ tasks' = [tasks EXCEPT ![t].status = "done"]
    /\ UNCHANGED <<outbound, worker, messageChat, spawnChat, executed, requests, answers,
                   reported>>

-----------------------------------------------------------------------------
(* Mutant: the dispatcher returns when it meets an unknown channel. *)
DispatchStopsAtUnknown ==
    /\ outbound # <<>>
    /\ Head(outbound).to \in Registered
    /\ outbound' = Tail(outbound)
    /\ LET msg == Head(outbound)
       IN  /\ answers' = IF msg.to \in Registered /\ msg.kind = "reply"
                         THEN Append(answers, [about |-> msg.id, to |-> msg.to])
                         ELSE answers
           /\ reported' = IF msg.to \in Registered /\ msg.kind \in {"report", "echo"}
                          THEN reported \cup {msg.id}
                          ELSE reported
    /\ UNCHANGED <<inbound, worker, messageChat, spawnChat, tasks, lock, executed, requests>>

(* dispatchOutbound: a message for a channel nobody registered is dropped; *)
(* a failed Send is logged and not tried again.                            *)
Dispatch ==
    /\ outbound # <<>>
    /\ outbound' = Tail(outbound)
    /\ LET msg == Head(outbound)
       IN  /\ answers' = IF msg.to \in Registered /\ msg.kind = "reply"
                         THEN Append(answers, [about |-> msg.id, to |-> msg.to])
                         ELSE answers
           /\ reported' = IF msg.to \in Registered /\ msg.kind \in {"report", "echo"}
                          THEN reported \cup {msg.id}
                          ELSE reported
    /\ UNCHANGED <<inbound, worker, messageChat, spawnChat, tasks, lock, executed, requests>>

-----------------------------------------------------------------------------
Turn(w) ==
    \/ BeginTurn(w)
    \/ CallMessage(w) \/ ExecuteMessage(w)
    \/ CallSpawn(w) \/ ExecuteSpawn(w) \/ Spawn(w)
    \/ EndTurn(w) \/ Publish(w)

Subagent(t) == TaskDone(t) \/ Announce(t)

(* Everything the gateway does without a new message or a due job. *)
Internal ==
    \/ Consume
    \/ \E w \in Workers : Turn(w)
    \/ \E t \in DOMAIN tasks : Subagent(t)
    \/ Dispatch

Next == Receive \/ ExecuteJob \/ Internal

Spec == Init /\ [][Next]_vars

(* Every goroutine that can go on does; the provider answers, which is an  *)
(* assumption, since the HTTP client has no timeout.                       *)
Fairness ==
    /\ WF_vars(Consume)
    /\ \A w \in Workers : WF_vars(Turn(w))
    /\ \A t \in Tasks : WF_vars(t \in DOMAIN tasks /\ Subagent(t))
    /\ WF_vars(Dispatch)

FairSpec == Spec /\ Fairness

-----------------------------------------------------------------------------
(* Properties. *)

(* Queues hold messages and respect their capacity, goroutines are where   *)
(* the code can be, and only an announcing subagent holds the lock.        *)
TypeOK ==
    /\ inbound \in Seq(Inbound) /\ Len(inbound) <= InCap
    /\ outbound \in Seq(Outbound) /\ Len(outbound) <= OutCap
    /\ worker \in [Workers -> [at : Places, msg : Inbound \cup {NoMessage}, calls : Nat,
                               out : Seq(Outbound), origin : Chats \cup {NoChat}]]
    /\ \A w \in Workers :
         /\ worker[w].at # "idle" => worker[w].msg \in Inbound
         /\ worker[w].at \in {"send", "finish"} <=> worker[w].out # <<>>
         /\ worker[w].at = "lock" => worker[w].origin \in Chats
    /\ \A w \in Workers :
         /\ worker[w].at = "message" => messageChat \in Chats
         /\ worker[w].at = "spawn" => spawnChat \in Chats
    /\ messageChat \in Chats \cup {NoChat}
    /\ spawnChat \in Chats \cup {NoChat}
    /\ tasks \in Seq([status : {"running", "announcing", "done"}, origin : Chats])
    /\ lock \in DOMAIN tasks \cup {Free}
    /\ \A t \in DOMAIN tasks : tasks[t].status = "announcing" <=> lock = t
    /\ executed \in 0 .. MaxJobs
    /\ requests \in Seq(Registered) /\ Len(requests) <= MaxRequests
    /\ answers \in Seq([about : Nat, to : Registered])
    /\ reported \subseteq Nat

RR == INSTANCE RequestReply
    WITH Chats <- Registered, requests <- requests, answers <- answers

(* Users are answered in the order their messages were taken in, once each *)
(* and in their own chat, whatever cron turns, tools, subagents and full   *)
(* queues put in between: the pipeline implements RequestReply.            *)
RepliesInOrder == RR!Spec

(* A subagent's report reaches its chat at most once, although runAgentLoop *)
(* and Run both publish the response: the second copy is addressed to the   *)
(* channel "system", which the dispatcher drops.                            *)
ReportedOnce ==
    [][outbound # <<>> /\ outbound' = Tail(outbound)
         /\ Head(outbound).kind \in {"report", "echo"} /\ Head(outbound).to \in Registered
       => Head(outbound).id \notin reported]_vars

(* The one wait cycle there is: a subagent announces with the manager's    *)
(* lock held, the inbound queue is full, and Run, which would empty it,    *)
(* waits for that lock in Spawn.                                           *)
SpawnCycle ==
    /\ lock # Free
    /\ Len(inbound) = InCap
    /\ worker["run"].at = "lock"

Quiescent ==
    /\ inbound = <<>> /\ outbound = <<>>
    /\ \A w \in Workers : worker[w].at = "idle"
    /\ \A t \in DOMAIN tasks : tasks[t].status = "done"

(* The goroutines never all wait on each other, full queues or not, except *)
(* in the spawn cycle.                                                     *)
OnlySpawnCycleBlocks == ENABLED Internal \/ Quiescent \/ SpawnCycle

(* Every message a user got into the queue is answered, unless the gateway *)
(* is caught in the spawn cycle: neither a subagent, a cron job, a failing *)
(* model nor a full queue can make Run forget it.                          *)
RequestsAreAnswered ==
    \A k \in Requests : Len(requests) >= k ~> Len(answers) >= k \/ SpawnCycle

(* What the spawn tool's description (tools/spawn.go:27) says: "The        *)
(* subagent will complete the task and report back when done".             *)
SubagentsReportBack ==
    \A t \in Tasks : t \in DOMAIN tasks ~> t \in reported

(* What tools/base.go:12 says of a ContextualTool: it receives "the current *)
(* message context (channel, chatID)".  So a tool that sends to the chat of *)
(* its context sends to the chat of the turn that called it.                *)
ToolsKeepTheirChat ==
    \A i \in DOMAIN outbound : outbound[i].kind = "tool" => outbound[i].to = outbound[i].chat

=============================================================================
