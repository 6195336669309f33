------------------------- MODULE MessagePipelineProofs -------------------------
(***************************************************************************)
(* Theorems about MessagePipeline: its types, that users are answered in   *)
(* order, once and in their chat (the refinement of RequestReply), that a  *)
(* subagent's report reaches its chat at most once, that no request is     *)
(* forgotten, and that the goroutines block each other in the spawn cycle  *)
(* only, which then lasts.                                                 *)
(***************************************************************************)
EXTENDS MessagePipeline, SequenceTheorems, TLAPS

(***************************************************************************)
(* TypeOK in the parts that the steps touch.  It adds what a goroutine is  *)
(* about to publish, which its place and its message determine.            *)
(***************************************************************************)
QueueType ==
    /\ inbound \in Seq(Inbound) /\ Len(inbound) <= InCap
    /\ outbound \in Seq(Outbound) /\ Len(outbound) <= OutCap

WorkerStates ==
    [at : Places, msg : Inbound \cup {NoMessage}, calls : Nat, out : Seq(Outbound),
     origin : Chats \cup {NoChat}]

(* What a goroutine may have left to publish when it finishes. *)
Outcomes(msg) ==
    IF msg.kind = "user" THEN {<<Message("reply", msg.chat, msg)>>}
    ELSE IF msg.kind = "job" THEN {<<Message("job", msg.chat, msg)>>}
    ELSE {<<Message("echo", System, msg)>>,
          <<Message("report", msg.chat, msg), Message("echo", System, msg)>>}

WorkerOK(s) ==
    /\ s.at # "idle" => s.msg \in Inbound
    /\ s.at = "lock" => s.origin \in Chats
    /\ s.at = "send" => \E kind \in {"tool", "direct"}, c \in Chats :
                           s.out = <<Message(kind, c, s.msg)>>
    /\ s.at = "finish" => s.out \in Outcomes(s.msg)
    /\ s.at \notin {"send", "finish"} => s.out = <<>>

WorkerType ==
    /\ worker \in [Workers -> WorkerStates]
    /\ \A w \in Workers : WorkerOK(worker[w])

ContextType ==
    /\ messageChat \in Chats \cup {NoChat} /\ spawnChat \in Chats \cup {NoChat}
    /\ \A w \in Workers :
         /\ worker[w].at = "message" => messageChat \in Chats
         /\ worker[w].at = "spawn" => spawnChat \in Chats

TaskRecords == [status : {"running", "announcing", "done"}, origin : Chats]

TaskType ==
    /\ tasks \in Seq(TaskRecords)
    /\ lock \in DOMAIN tasks \cup {Free}
    /\ \A t \in DOMAIN tasks : tasks[t].status = "announcing" <=> lock = t

HistoryType ==
    /\ executed \in 0 .. MaxJobs
    /\ requests \in Seq(Registered) /\ Len(requests) <= MaxRequests
    /\ answers \in Seq([about : Nat, to : Registered])
    /\ reported \subseteq Nat

TypeInv == QueueType /\ WorkerType /\ ContextType /\ TaskType /\ HistoryType

(* Users' messages and announcements go through the queue, jobs do not. *)
KindInv ==
    /\ \A i \in DOMAIN inbound : inbound[i].kind # "job"
    /\ worker["run"].at # "idle" => worker["run"].msg.kind # "job"
    /\ worker["cron"].at # "idle" => worker["cron"].msg.kind = "job"

-----------------------------------------------------------------------------
(* Messages and queues.                                                    *)

LEMMA Constants ==
  /\ Free = 0 /\ Workers = {"run", "cron"} /\ System \notin Chats /\ NoChat \notin Chats
  /\ NoMessage \notin Inbound
  /\ IdleWorker \in WorkerStates /\ WorkerOK(IdleWorker) /\ IdleWorker.at = "idle"
  /\ IdleWorker.out = <<>> /\ IdleWorker.origin = NoChat /\ IdleWorker.calls = 0
<1>1. NoMessage \notin Inbound
  BY DEF NoMessage, Inbound
<1>2. IdleWorker \in WorkerStates
  BY EmptySeq DEF IdleWorker, WorkerStates, Places
<1>3. /\ IdleWorker.at = "idle" /\ IdleWorker.out = <<>>
      /\ IdleWorker.origin = NoChat /\ IdleWorker.calls = 0
  BY DEF IdleWorker
<1>4. WorkerOK(IdleWorker)
  BY <1>3 DEF WorkerOK
<1> QED
  BY <1>1, <1>2, <1>3, <1>4, PipelineAssumption DEF Free, Workers

LEMMA MessageType ==
  ASSUME NEW kind \in {"reply", "report", "echo", "tool", "direct", "job"},
         NEW to \in Chats \cup {System}, NEW msg \in Inbound
  PROVE  Message(kind, to, msg) \in Outbound
  BY DEF Message, Outbound, Inbound

(* A goroutine that finishes has something to publish. *)
LEMMA OutcomesNotEmpty ==
  ASSUME NEW msg, NEW out \in Outcomes(msg)
  PROVE  out # <<>>
<1>1. \A x, y : <<x>> # <<>> /\ <<x, y>> # <<>>
  OBVIOUS
<1>2. \/ \E x : out = <<x>>
      \/ \E x, y : out = <<x, y>>
  BY DEF Outcomes
<1> QED
  BY <1>1, <1>2

(* Everything a goroutine publishes is a message with its own chat and     *)
(* identifier.                                                             *)
LEMMA OutcomeType ==
  ASSUME NEW msg \in Inbound
  PROVE  Outcomes(msg) \subseteq Seq(Outbound)
<1>1. msg.chat \in Chats \cup {System} /\ System \in Chats \cup {System}
  BY DEF Inbound
<1>2. /\ Message("reply", msg.chat, msg) \in Outbound
      /\ Message("job", msg.chat, msg) \in Outbound
      /\ Message("echo", System, msg) \in Outbound
      /\ Message("report", msg.chat, msg) \in Outbound
  BY <1>1, MessageType
<1>3. \A x, y \in Outbound : <<x>> \in Seq(Outbound) /\ <<x, y>> \in Seq(Outbound)
  OBVIOUS
<1>4. ASSUME NEW out \in Outcomes(msg) PROVE out \in Seq(Outbound)
  BY <1>2, <1>3 DEF Outcomes
<1> QED
  BY <1>4

LEMMA Pairs ==
  ASSUME NEW S, NEW a \in S, NEW b \in S
  PROVE  /\ <<a>> \in Seq(S) /\ <<a, b>> \in Seq(S)
         /\ Append(<<a>>, b) = <<a, b>>
         /\ Head(<<a, b>>) = a /\ Tail(<<a, b>>) = <<b>>
         /\ Head(<<a>>) = a /\ Tail(<<a>>) = <<>>
<1>1. <<a>> \in Seq(S) /\ <<a, b>> \in Seq(S)
  OBVIOUS
<1>2. Append(<<a>>, b) = <<a, b>>
  <2> DEFINE two == Append(<<a>>, b)
  <2>1. /\ two \in Seq(S) /\ Len(two) = 2 /\ two[1] = a /\ two[2] = b
    BY <1>1, AppendProperties
  <2>2. Len(<<a, b>>) = 2 /\ <<a, b>>[1] = a /\ <<a, b>>[2] = b
    OBVIOUS
  <2> HIDE DEF two
  <2>3. two = <<a, b>>
    BY <1>1, <2>1, <2>2, SeqEqual
  <2> QED
    BY <2>3 DEF two
<1>3. Tail(<<a, b>>) = <<b>>
  BY <1>1, HeadTailProperties, SeqEqual
<1>4. Tail(<<a>>) = <<>>
  BY <1>1, HeadTailProperties, SeqEqual
<1> QED
  BY <1>1, <1>2, <1>3, <1>4

(* What EndTurn publishes is what the kind of the message demands. *)
LEMMA OutcomeIsOneOf ==
  ASSUME NEW msg \in Inbound, NEW failed \in BOOLEAN
  PROVE  /\ msg.kind # "job" => Outcome(msg, failed) \in Outcomes(msg)
         /\ msg.kind = "job" => Outcome(msg, failed) = <<>>
<1> DEFINE report == Message("report", msg.chat, msg)
           echo == Message("echo", System, msg)
<1>1. msg.kind \in {"user", "system", "job"}
  BY DEF Inbound
<1>2. CASE msg.kind = "user"
  BY <1>2 DEF Outcome, Outcomes
<1>3. CASE msg.kind = "job"
  BY <1>3 DEF Outcome
<1>4. CASE msg.kind = "system"
  <2>1. /\ <<>> \o <<echo>> = <<echo>>
        /\ <<report>> \o <<echo>> = <<report, echo>>
    <3>1. report \in Outbound /\ echo \in Outbound
      BY MessageType DEF Inbound
    <3> HIDE DEF report, echo
    <3>2. <<echo>> \in Seq(Outbound) /\ <<report>> \in Seq(Outbound)
      BY <3>1
    <3>3. <<report>> \o <<echo>> = Append(<<report>>, echo)
      BY <3>1, <3>2, AppendIsConcat
    <3>4. <<>> \o <<echo>> = <<echo>>
      BY <3>2, ConcatEmptySeq
    <3>5. Append(<<report>>, echo) = <<report, echo>>
      BY <3>1, Pairs
    <3> QED
      BY <3>3, <3>4, <3>5
  <2>2. Outcome(msg, failed) \in {<<>> \o <<echo>>, <<report>> \o <<echo>>}
    BY <1>4 DEF Outcome
  <2> QED
    BY <1>4, <2>1, <2>2 DEF Outcomes
<1> QED
  BY <1>1, <1>2, <1>3, <1>4

-----------------------------------------------------------------------------
(* Steps of a turn.                                                        *)

(* A goroutine's state is replaced by another one in shape. *)
LEMMA WorkerUpdate ==
  ASSUME WorkerType, NEW w \in Workers, NEW s \in WorkerStates, WorkerOK(s),
         worker' = [worker EXCEPT ![w] = s]
  PROVE  /\ WorkerType' /\ worker'[w] = s
         /\ \A v \in Workers \ {w} : worker'[v] = worker[v]
  BY DEF WorkerType

LEMMA WorkerFacts ==
  ASSUME TypeInv, NEW w \in Workers
  PROVE  /\ worker \in [Workers -> WorkerStates] /\ WorkerType
         /\ worker[w] \in WorkerStates /\ WorkerOK(worker[w])
         /\ worker[w].at # "idle" => worker[w].msg \in Inbound /\ worker[w].msg.chat \in Chats
         /\ worker[w].at \notin {"send", "finish"} => worker[w].out = <<>>
         /\ worker[w].calls \in Nat /\ worker[w].calls + 1 \in Nat
<1>1. worker[w] \in WorkerStates
  BY DEF TypeInv, WorkerType
<1>2. worker[w].calls \in Nat /\ worker[w].calls + 1 \in Nat
  BY <1>1 DEF WorkerStates
<1> QED
  BY <1>1, <1>2 DEF TypeInv, WorkerType, WorkerOK, Inbound

(* The steps that publish nothing.  They keep the message, and only a cron *)
(* job's turn ends with one of them.                                       *)
SilentTurn(w) ==
    \/ BeginTurn(w)
    \/ CallMessage(w) \/ ExecuteMessage(w)
    \/ CallSpawn(w) \/ ExecuteSpawn(w) \/ Spawn(w)
    \/ EndTurn(w)

Silent(s, t) ==
    /\ s.at \in {"begin", "model", "message", "spawn", "lock"}
    /\ t \in WorkerStates /\ WorkerOK(t)
    /\ t.at # "idle" => t.msg = s.msg /\ t.at # "begin"
    /\ t.at = "idle" => s.msg.kind = "job"

LEMMA SilentMove ==
  ASSUME NEW s \in WorkerStates, WorkerOK(s), NEW t \in WorkerStates,
         s.at \in {"begin", "model", "message", "spawn", "lock"},
         t.at \in {"model", "message", "spawn"}, t.msg = s.msg, t.out = s.out
  PROVE  Silent(s, t)
  BY DEF Silent, WorkerOK

LEMMA SilentTurnEffect ==
  ASSUME TypeInv, NEW w \in Workers, SilentTurn(w)
  PROVE  /\ Silent(worker[w], worker'[w])
         /\ worker' = [worker EXCEPT ![w] = worker'[w]]
         /\ worker'[w].at = "message" => CallMessage(w)
         /\ worker'[w].at = "spawn" => CallSpawn(w)
<1> DEFINE s == worker[w]
<1>1. /\ worker \in [Workers -> WorkerStates]
      /\ s \in WorkerStates /\ WorkerOK(s)
      /\ s.at # "idle" => s.msg \in Inbound /\ s.msg.chat \in Chats
      /\ s.at \notin {"send", "finish"} => s.out = <<>>
      /\ s.calls + 1 \in Nat
  BY WorkerFacts
<1>2. ASSUME NEW t, Silent(s, t), worker' = [worker EXCEPT ![w] = t],
             t.at = "message" => CallMessage(w), t.at = "spawn" => CallSpawn(w)
      PROVE  /\ Silent(worker[w], worker'[w]) /\ worker' = [worker EXCEPT ![w] = worker'[w]]
             /\ worker'[w].at = "message" => CallMessage(w)
             /\ worker'[w].at = "spawn" => CallSpawn(w)
  BY <1>1, <1>2
<1>3. CASE BeginTurn(w)
  <2> DEFINE t == [s EXCEPT !.at = "model"]
  <2>1. s.at = "begin" /\ worker' = [worker EXCEPT ![w] = t]
    BY <1>1, <1>3 DEF BeginTurn, Goto
  <2>2. t \in WorkerStates /\ t.at = "model" /\ t.msg = s.msg /\ t.out = s.out
    BY <1>1 DEF WorkerStates, Places
  <2> HIDE DEF t
  <2>3. Silent(s, t)
    BY <1>1, <2>1, <2>2, SilentMove
  <2> QED
    BY <1>2, <1>3, <2>1, <2>2, <2>3
<1>4. CASE CallMessage(w)
  <2> DEFINE t == [s EXCEPT !.at = "message", !.calls = s.calls + 1]
  <2>1. s.at = "model" /\ worker' = [worker EXCEPT ![w] = t]
    BY <1>1, <1>4 DEF CallMessage
  <2>2. t \in WorkerStates /\ t.at = "message" /\ t.msg = s.msg /\ t.out = s.out
    BY <1>1 DEF WorkerStates, Places
  <2> HIDE DEF t
  <2>3. Silent(s, t)
    BY <1>1, <2>1, <2>2, SilentMove
  <2> QED
    BY <1>2, <1>4, <2>1, <2>2, <2>3
<1>5. CASE CallSpawn(w)
  <2> DEFINE t == [s EXCEPT !.at = "spawn", !.calls = s.calls + 1]
  <2>1. s.at = "model" /\ worker' = [worker EXCEPT ![w] = t]
    BY <1>1, <1>5 DEF CallSpawn
  <2>2. t \in WorkerStates /\ t.at = "spawn" /\ t.msg = s.msg /\ t.out = s.out
    BY <1>1 DEF WorkerStates, Places
  <2> HIDE DEF t
  <2>3. Silent(s, t)
    BY <1>1, <2>1, <2>2, SilentMove
  <2> QED
    BY <1>2, <1>5, <2>1, <2>2, <2>3
<1>6. CASE Spawn(w)
  <2> DEFINE t == [s EXCEPT !.at = "model", !.origin = NoChat]
  <2>1. s.at = "lock" /\ worker' = [worker EXCEPT ![w] = t]
    BY <1>1, <1>6 DEF Spawn
  <2>2. t \in WorkerStates /\ t.at = "model" /\ t.msg = s.msg /\ t.out = s.out
    BY <1>1 DEF WorkerStates, Places
  <2> HIDE DEF t
  <2>3. Silent(s, t)
    BY <1>1, <2>1, <2>2, SilentMove
  <2> QED
    BY <1>2, <1>6, <2>1, <2>2, <2>3
<1>7. CASE ExecuteMessage(w)
  <2>1. s.at = "message" /\ messageChat \in Chats /\ s.msg \in Inbound
    BY <1>1, <1>7 DEF ExecuteMessage, TypeInv, ContextType
  <2>2. PICK kind \in {"tool", "direct"}, c \in Chats :
          worker' = [worker EXCEPT ![w].at = "send", ![w].out = <<Message(kind, c, s.msg)>>]
    BY <1>7, <2>1, PipelineAssumption DEF ExecuteMessage
  <2> DEFINE m == Message(kind, c, s.msg)
             t == [s EXCEPT !.at = "send", !.out = <<m>>]
  <2>3. <<m>> \in Seq(Outbound)
    BY <2>1, MessageType
  <2>4. t \in WorkerStates /\ t.at = "send" /\ t.msg = s.msg /\ t.out = <<m>>
    BY <1>1, <2>3 DEF WorkerStates, Places
  <2>5. Silent(s, t)
    BY <2>1, <2>4 DEF Silent, WorkerOK
  <2>6. worker' = [worker EXCEPT ![w] = t]
    BY <1>1, <2>2
  <2> HIDE DEF t
  <2> QED
    BY <1>2, <2>4, <2>5, <2>6
<1>8. CASE ExecuteSpawn(w)
  <2> DEFINE t == [s EXCEPT !.at = "lock", !.origin = spawnChat]
  <2>1. s.at = "spawn" /\ spawnChat \in Chats /\ s.msg \in Inbound
    BY <1>1, <1>8 DEF ExecuteSpawn, TypeInv, ContextType
  <2>2. worker' = [worker EXCEPT ![w] = t]
    BY <1>1, <1>8 DEF ExecuteSpawn
  <2>3. /\ t \in WorkerStates /\ t.at = "lock" /\ t.msg = s.msg /\ t.out = <<>>
        /\ t.origin = spawnChat
    BY <1>1, <2>1 DEF WorkerStates, Places
  <2>4. Silent(s, t)
    BY <2>1, <2>3 DEF Silent, WorkerOK
  <2> HIDE DEF t
  <2> QED
    BY <1>2, <2>2, <2>3, <2>4
<1>9. CASE EndTurn(w)
  <2>1. s.at = "model" /\ s.msg \in Inbound
    BY <1>1, <1>9 DEF EndTurn
  <2>2. PICK failed \in BOOLEAN :
          LET out == Outcome(s.msg, failed)
          IN  worker' = [worker EXCEPT ![w] =
                  IF out = <<>> THEN IdleWorker ELSE [s EXCEPT !.at = "finish", !.out = out]]
    BY <1>1, <1>9 DEF EndTurn
  <2> DEFINE out == Outcome(s.msg, failed)
             t == IF out = <<>> THEN IdleWorker ELSE [s EXCEPT !.at = "finish", !.out = out]
  <2>3. CASE s.msg.kind = "job"
    <3>1. t = IdleWorker
      BY <2>1, <2>3, OutcomeIsOneOf
    <3>2. Silent(s, t)
      BY <2>1, <2>3, <3>1, Constants DEF Silent
    <3> QED
      BY <1>2, <2>2, <3>1, <3>2, Constants
  <2>4. CASE s.msg.kind # "job"
    <3>1. out \in Outcomes(s.msg) /\ out \in Seq(Outbound)
      BY <2>1, <2>4, OutcomeIsOneOf, OutcomeType
    <3> HIDE DEF out
    <3>2. out # <<>>
      BY <3>1, OutcomesNotEmpty
    <3>3. /\ t \in WorkerStates /\ t.at = "finish" /\ t.msg = s.msg /\ t.out = out
      BY <1>1, <3>1, <3>2 DEF WorkerStates, Places
    <3>4. Silent(s, t)
      BY <2>1, <3>1, <3>3 DEF Silent, WorkerOK
    <3>5. worker' = [worker EXCEPT ![w] = t]
      BY <2>2 DEF out
    <3> HIDE DEF t
    <3> QED
      BY <1>2, <3>3, <3>4, <3>5
  <2> QED
    BY <2>3, <2>4
<1> QED
  BY <1>3, <1>4, <1>5, <1>6, <1>7, <1>8, <1>9 DEF SilentTurn

(* The step that publishes: a tool's message, a reply, a job's text, or    *)
(* one of the two messages about a subagent.                               *)
Publishes(s, m, t) ==
    /\ m \in Outbound /\ t \in WorkerStates /\ WorkerOK(t)
    /\ \/ /\ s.at = "send" /\ m.kind \in {"tool", "direct"}
          /\ t.at = "model" /\ t.msg = s.msg
       \/ /\ s.at = "finish" /\ s.msg.kind = "user"
          /\ m = Message("reply", s.msg.chat, s.msg)
          /\ t = IdleWorker
       \/ /\ s.at = "finish" /\ s.msg.kind = "job" /\ m.kind = "job"
          /\ t = IdleWorker
       \/ /\ s.at = "finish" /\ s.msg.kind = "system" /\ Len(s.out) = 2
          /\ m = Message("report", s.msg.chat, s.msg)
          /\ t.at = "finish" /\ t.msg = s.msg /\ t.out = <<Message("echo", System, s.msg)>>
       \/ /\ s.at = "finish" /\ s.msg.kind = "system" /\ m.kind = "echo" /\ m.to = System
          /\ t = IdleWorker

LEMMA PublishEffect ==
  ASSUME TypeInv, NEW w \in Workers, Publish(w)
  PROVE  \E m \in Outbound :
           /\ outbound' = Append(outbound, m) /\ Len(outbound) < OutCap
           /\ Publishes(worker[w], m, worker'[w])
           /\ worker' = [worker EXCEPT ![w] = worker'[w]]
<1> DEFINE s == worker[w]
           m == Head(s.out)
           rest == Tail(s.out)
           t == IF rest # <<>> THEN [s EXCEPT !.out = rest]
                ELSE IF s.at = "send" THEN [s EXCEPT !.at = "model", !.out = <<>>]
                ELSE IdleWorker
<1>1. /\ worker \in [Workers -> WorkerStates]
      /\ s \in WorkerStates /\ WorkerOK(s)
      /\ s.at # "idle" => s.msg \in Inbound /\ s.msg.chat \in Chats
  BY WorkerFacts
<1>2. /\ s.at \in {"send", "finish"}
      /\ outbound' = Append(outbound, m) /\ Len(outbound) < OutCap
      /\ worker' = [worker EXCEPT ![w] = t]
  BY <1>1 DEF Publish, PublishOutbound
<1>3. worker'[w] = t
  BY <1>1, <1>2
<1>4. s.msg \in Inbound /\ s.msg.chat \in Chats /\ s.msg.kind \in {"user", "system", "job"}
  BY <1>1, <1>2 DEF Inbound
<1>5. SUFFICES Publishes(s, m, t)
  BY <1>2, <1>3 DEF Publishes
<1>6. ASSUME NEW c, s.out = <<c>>, c \in Outbound
      PROVE  m = c /\ rest = <<>>
  BY <1>6, Pairs
<1>7. CASE s.at = "send"
  <2>1. PICK kind \in {"tool", "direct"}, c \in Chats : s.out = <<Message(kind, c, s.msg)>>
    BY <1>1, <1>7 DEF WorkerOK
  <2>2. Message(kind, c, s.msg) \in Outbound
    BY <1>4, MessageType
  <2>3. m = Message(kind, c, s.msg) /\ rest = <<>>
    BY <1>6, <2>1, <2>2
  <2>4. t = [s EXCEPT !.at = "model", !.out = <<>>]
    BY <1>7, <2>3
  <2>5. t \in WorkerStates /\ t.at = "model" /\ t.msg = s.msg /\ t.out = <<>>
    <3> DEFINE u == [s EXCEPT !.at = "model"]
    <3>1. u \in WorkerStates /\ u.at = "model" /\ u.msg = s.msg
      BY <1>1 DEF WorkerStates, Places
    <3>2. t = [u EXCEPT !.out = <<>>]
      BY <2>4
    <3>3. <<>> \in Seq(Outbound)
      BY EmptySeq
    <3> HIDE DEF t, u
    <3> QED
      BY <3>1, <3>2, <3>3 DEF WorkerStates
  <2>6. WorkerOK(t)
    BY <1>4, <2>5 DEF WorkerOK
  <2>7. m.kind \in {"tool", "direct"}
    BY <2>3 DEF Message
  <2> HIDE DEF t, m
  <2> QED
    BY <1>7, <2>2, <2>3, <2>5, <2>6, <2>7 DEF Publishes
<1>8. CASE s.at = "finish"
  <2> DEFINE reply == Message("reply", s.msg.chat, s.msg)
             job == Message("job", s.msg.chat, s.msg)
             report == Message("report", s.msg.chat, s.msg)
             echo == Message("echo", System, s.msg)
  <2>1. /\ reply \in Outbound /\ job \in Outbound /\ report \in Outbound /\ echo \in Outbound
        /\ job.kind = "job" /\ echo.kind = "echo" /\ echo.to = System
    BY <1>4, MessageType DEF Message
  <2>2. s.out \in Outcomes(s.msg)
    BY <1>1, <1>8 DEF WorkerOK
  <2>3. ASSUME rest = <<>> PROVE t = IdleWorker /\ t \in WorkerStates /\ WorkerOK(t)
    BY <1>8, <2>3, Constants
  <2>4. CASE s.msg.kind = "user"
    <3>1. m = reply /\ rest = <<>>
      BY <1>6, <2>1, <2>2, <2>4 DEF Outcomes
    <3> HIDE DEF t, m, rest
    <3> QED
      BY <1>8, <2>1, <2>3, <2>4, <3>1 DEF Publishes
  <2>5. CASE s.msg.kind = "job"
    <3>1. m = job /\ rest = <<>>
      BY <1>6, <2>1, <2>2, <2>5 DEF Outcomes
    <3> HIDE DEF t, m, rest
    <3> QED
      BY <1>8, <2>1, <2>3, <2>5, <3>1 DEF Publishes
  <2>6. CASE s.msg.kind = "system" /\ s.out = <<echo>>
    <3>1. m = echo /\ rest = <<>>
      BY <1>6, <2>1, <2>6
    <3> HIDE DEF t, m, rest
    <3> QED
      BY <1>8, <2>1, <2>3, <2>6, <3>1 DEF Publishes
  <2>7. CASE s.msg.kind = "system" /\ s.out = <<report, echo>>
    <3>1. m = report /\ rest = <<echo>> /\ Len(s.out) = 2
      BY <2>1, <2>7, Pairs
    <3>2. <<echo>> # <<>> /\ <<echo>> \in Seq(Outbound)
      BY <2>1
    <3>3. t = [s EXCEPT !.out = <<echo>>]
      BY <3>1, <3>2
    <3>4. t \in WorkerStates /\ t.at = "finish" /\ t.msg = s.msg /\ t.out = <<echo>>
      BY <1>1, <1>8, <3>2, <3>3 DEF WorkerStates, Places
    <3>5. <<echo>> \in Outcomes(s.msg)
      BY <2>7 DEF Outcomes
    <3>6. WorkerOK(t)
      BY <1>4, <3>4, <3>5 DEF WorkerOK
    <3> HIDE DEF t, m, rest
    <3> QED
      BY <1>8, <2>1, <2>7, <3>1, <3>4, <3>6 DEF Publishes
  <2> QED
    BY <1>4, <2>2, <2>4, <2>5, <2>6, <2>7 DEF Outcomes
<1> QED
  BY <1>2, <1>7, <1>8

-----------------------------------------------------------------------------
(* Types.                                                                  *)

LEMMA TypeInvImplies == TypeInv => TypeOK
<1> SUFFICES ASSUME TypeInv PROVE TypeOK
  OBVIOUS
<1>1. ASSUME NEW w \in Workers
      PROVE  /\ worker[w].at # "idle" => worker[w].msg \in Inbound
             /\ worker[w].at \in {"send", "finish"} <=> worker[w].out # <<>>
             /\ worker[w].at = "lock" => worker[w].origin \in Chats
  <2>1. WorkerOK(worker[w])
    BY WorkerFacts
  <2>2. \A out \in Outcomes(worker[w].msg) : out # <<>>
    <3>1. \A a, b : <<a>> # <<>> /\ <<a, b>> # <<>>
      OBVIOUS
    <3> QED
      BY <3>1 DEF Outcomes
  <2>3. \A a : <<a>> # <<>>
    OBVIOUS
  <2> QED
    BY <2>1, <2>2, <2>3 DEF WorkerOK
<1> QED
  BY <1>1 DEF TypeInv, TypeOK, QueueType, WorkerType, WorkerStates, ContextType, TaskType,
              TaskRecords, HistoryType

LEMMA InitType == Init => TypeInv /\ KindInv
<1> SUFFICES ASSUME Init PROVE TypeInv /\ KindInv
  OBVIOUS
<1>1. QueueType
  BY PipelineAssumption, EmptySeq DEF Init, QueueType
<1>2. WorkerType /\ \A w \in Workers : worker[w] = IdleWorker
  BY Constants DEF Init, WorkerType
<1>3. ContextType
  BY <1>2, Constants DEF Init, ContextType
<1>4. TaskType
  BY EmptySeq DEF Init, TaskType, Free
<1>5. HistoryType
  BY PipelineAssumption, EmptySeq DEF Init, HistoryType
<1>6. KindInv
  BY <1>2, EmptySeq, Constants DEF Init, KindInv
<1> QED
  BY <1>1, <1>2, <1>3, <1>4, <1>5, <1>6 DEF TypeInv

(* The ends of a queue. *)
LEMMA TailType ==
  ASSUME NEW S, NEW q \in Seq(S), q # <<>>
  PROVE  /\ Head(q) \in S /\ Head(q) = q[1] /\ 1 \in DOMAIN q
         /\ Tail(q) \in Seq(S) /\ Len(Tail(q)) = Len(q) - 1 /\ Len(Tail(q)) <= Len(q)
         /\ DOMAIN q = 1 .. Len(q) /\ DOMAIN Tail(q) = 1 .. Len(q) - 1
         /\ \A i \in DOMAIN Tail(q) : i + 1 \in DOMAIN q /\ Tail(q)[i] = q[i + 1]
<1>1. Len(q) \in Nat \ {0} /\ DOMAIN q = 1 .. Len(q)
  BY EmptySeq, LenProperties
<1>2. /\ Head(q) \in S /\ Tail(q) \in Seq(S) /\ Len(Tail(q)) = Len(q) - 1
      /\ \A i \in 1 .. Len(Tail(q)) : Tail(q)[i] = q[i + 1]
  BY HeadTailProperties
<1>3. DOMAIN Tail(q) = 1 .. Len(q) - 1
  BY <1>2, LenProperties
<1>4. Head(q) = q[1]
  OBVIOUS
<1> QED
  BY <1>1, <1>2, <1>3, <1>4

LEMMA AppendType ==
  ASSUME NEW S, NEW q \in Seq(S), NEW e \in S
  PROVE  /\ Append(q, e) \in Seq(S) /\ Len(Append(q, e)) = Len(q) + 1 /\ Len(q) \in Nat
         /\ DOMAIN q = 1 .. Len(q) /\ DOMAIN Append(q, e) = 1 .. Len(q) + 1
         /\ \A i \in DOMAIN q : Append(q, e)[i] = q[i]
         /\ Append(q, e)[Len(q) + 1] = e
<1>1. DOMAIN Append(q, e) = 1 .. Len(Append(q, e))
  BY AppendProperties, LenProperties
<1> QED
  BY <1>1, AppendProperties, LenProperties

LEMMA SilentTurnType ==
  ASSUME TypeInv, NEW w \in Workers, SilentTurn(w)
  PROVE  TypeInv'
<1>1. /\ Silent(worker[w], worker'[w])
      /\ worker' = [worker EXCEPT ![w] = worker'[w]]
  BY SilentTurnEffect
<1>2. WorkerType' /\ \A v \in Workers \ {w} : worker'[v] = worker[v]
  BY <1>1, WorkerFacts, WorkerUpdate DEF Silent
<1>3. worker[w].msg.chat \in Chats
  BY <1>1, WorkerFacts DEF Silent
<1>4. UNCHANGED <<inbound, outbound, lock, executed, requests, answers, reported>>
  BY DEF SilentTurn, BeginTurn, CallMessage, ExecuteMessage, CallSpawn, ExecuteSpawn, Spawn, EndTurn
<1>5. QueueType' /\ HistoryType'
  BY <1>4 DEF TypeInv, QueueType, HistoryType
<1>6. ContextType'
  <2>1. /\ messageChat' \in Chats \cup {NoChat}
        /\ messageChat \in Chats => messageChat' \in Chats
        /\ spawnChat' \in Chats \cup {NoChat}
        /\ spawnChat \in Chats => spawnChat' \in Chats
    BY <1>3 DEF SilentTurn, BeginTurn, CallMessage, ExecuteMessage, CallSpawn, ExecuteSpawn, Spawn,
                EndTurn, TypeInv, ContextType
  <2>2. worker'[w].at = "message" => messageChat' \in Chats
    BY <1>3, SilentTurnEffect DEF CallMessage
  <2>3. worker'[w].at = "spawn" => spawnChat' \in Chats
    BY <1>3, SilentTurnEffect DEF CallSpawn
  <2> QED
    BY <1>2, <2>1, <2>2, <2>3 DEF TypeInv, ContextType
<1>7. TaskType'
  <2>1. CASE Spawn(w)
    <3> DEFINE task == [status |-> "running", origin |-> worker[w].origin]
    <3>1. worker[w].origin \in Chats
      BY <2>1, WorkerFacts DEF Spawn, WorkerOK
    <3>2. task \in TaskRecords /\ task.status # "announcing"
      BY <3>1 DEF TaskRecords
    <3>3. tasks' = Append(tasks, task) /\ lock = Free /\ lock' = Free
      BY <2>1 DEF Spawn
    <3> HIDE DEF task
    <3>4. tasks \in Seq(TaskRecords) /\ \A t \in DOMAIN tasks : tasks[t].status # "announcing"
      <4>1. tasks \in Seq(TaskRecords) /\ DOMAIN tasks = 1 .. Len(tasks) /\ Len(tasks) \in Nat
        BY LenProperties DEF TypeInv, TaskType
      <4> QED
        BY <3>3, <4>1, Constants DEF TypeInv, TaskType
    <3>5. /\ tasks' \in Seq(TaskRecords)
          /\ DOMAIN tasks' = 1 .. Len(tasks) + 1 /\ Len(tasks) \in Nat
          /\ \A t \in DOMAIN tasks' : tasks'[t].status # "announcing"
      BY <3>2, <3>3, <3>4, AppendType
    <3> QED
      BY <3>3, <3>5, Constants DEF TaskType
  <2>2. CASE ~Spawn(w)
    <3>1. UNCHANGED <<tasks, lock>>
      BY <2>2 DEF SilentTurn, BeginTurn, CallMessage, ExecuteMessage, CallSpawn, ExecuteSpawn, EndTurn
    <3> QED
      BY <3>1 DEF TypeInv, TaskType
  <2> QED
    BY <2>1, <2>2
<1> QED
  BY <1>2, <1>5, <1>6, <1>7 DEF TypeInv

LEMMA PublishType ==
  ASSUME TypeInv, NEW w \in Workers, Publish(w)
  PROVE  TypeInv'
<1>1. PICK m \in Outbound :
        /\ outbound' = Append(outbound, m) /\ Len(outbound) < OutCap
        /\ Publishes(worker[w], m, worker'[w])
        /\ worker' = [worker EXCEPT ![w] = worker'[w]]
  BY PublishEffect
<1>2. WorkerType' /\ \A v \in Workers \ {w} : worker'[v] = worker[v]
  BY <1>1, WorkerFacts, WorkerUpdate DEF Publishes
<1>3. UNCHANGED <<inbound, messageChat, spawnChat, tasks, lock, executed, requests, answers,
                  reported>>
  BY DEF Publish
<1>4. QueueType'
  BY <1>1, <1>3, AppendType, PipelineAssumption DEF TypeInv, QueueType
<1>5. ContextType'
  <2>1. worker'[w].at \notin {"message", "spawn"}
    BY <1>1, Constants DEF Publishes
  <2> QED
    BY <1>2, <1>3, <2>1 DEF TypeInv, ContextType
<1> QED
  BY <1>2, <1>3, <1>4, <1>5 DEF TypeInv, TaskType, HistoryType

LEMMA ConsumeEffect ==
  ASSUME TypeInv, Consume
  PROVE  /\ inbound # <<>> /\ inbound' = Tail(inbound) /\ Head(inbound) \in Inbound
         /\ worker["run"].at = "idle"
         /\ worker' = [worker EXCEPT !["run"] = worker'["run"]]
         /\ worker'["run"] \in WorkerStates /\ WorkerOK(worker'["run"])
         /\ worker'["run"].at = "begin" /\ worker'["run"].msg = Head(inbound)
         /\ UNCHANGED <<outbound, messageChat, spawnChat, tasks, lock, executed, requests,
                        answers, reported>>
<1> DEFINE t == [IdleWorker EXCEPT !.at = "begin", !.msg = Head(inbound)]
<1>1. /\ inbound # <<>> /\ inbound' = Tail(inbound)
      /\ worker["run"].at = "idle" /\ worker' = [worker EXCEPT !["run"] = t]
      /\ UNCHANGED <<outbound, messageChat, spawnChat, tasks, lock, executed, requests,
                     answers, reported>>
  BY DEF Consume
<1>2. Head(inbound) \in Inbound
  BY <1>1, TailType DEF TypeInv, QueueType
<1>3. /\ t \in WorkerStates /\ t.at = "begin" /\ t.msg = Head(inbound) /\ t.out = <<>>
  BY <1>2, Constants DEF WorkerStates, Places
<1>4. WorkerOK(t)
  BY <1>2, <1>3 DEF WorkerOK
<1>5. worker \in [Workers -> WorkerStates] /\ "run" \in Workers
  BY WorkerFacts, Constants DEF TypeInv, WorkerType
<1> HIDE DEF t
<1>6. worker'["run"] = t
  BY <1>1, <1>5
<1> QED
  BY <1>1, <1>2, <1>3, <1>4, <1>6

LEMMA ExecuteJobEffect ==
  ASSUME TypeInv, ExecuteJob
  PROVE  /\ worker["cron"].at = "idle"
         /\ worker' = [worker EXCEPT !["cron"] = worker'["cron"]]
         /\ worker'["cron"] \in WorkerStates /\ WorkerOK(worker'["cron"])
         /\ worker'["cron"].at \in {"begin", "finish"} /\ worker'["cron"].msg.kind = "job"
         /\ executed' \in 0 .. MaxJobs
         /\ UNCHANGED <<inbound, outbound, messageChat, spawnChat, tasks, lock, requests,
                        answers, reported>>
<1>1. /\ worker["cron"].at = "idle" /\ executed < MaxJobs /\ executed' = executed + 1
      /\ UNCHANGED <<inbound, outbound, messageChat, spawnChat, tasks, lock, requests,
                     answers, reported>>
  BY DEF ExecuteJob
<1>2. executed' \in 0 .. MaxJobs /\ executed' \in Nat
  BY <1>1, PipelineAssumption DEF TypeInv, HistoryType
<1>3. PICK c \in Chats, deliver \in BOOLEAN :
        LET job == [kind |-> "job", chat |-> c, id |-> executed']
        IN  worker' = [worker EXCEPT !["cron"] =
                IF deliver
                THEN [IdleWorker EXCEPT !.at = "finish", !.msg = job,
                                        !.out = <<Message("job", c, job)>>]
                ELSE [IdleWorker EXCEPT !.at = "begin", !.msg = job]]
  BY PipelineAssumption DEF ExecuteJob
<1> DEFINE job == [kind |-> "job", chat |-> c, id |-> executed']
           out == <<Message("job", c, job)>>
           delivering == [IdleWorker EXCEPT !.at = "finish", !.msg = job, !.out = out]
           turning == [IdleWorker EXCEPT !.at = "begin", !.msg = job]
           t == IF deliver THEN delivering ELSE turning
<1>4. job \in Inbound /\ job.kind = "job" /\ job.chat = c
  BY <1>2 DEF Inbound
<1>5. out \in Seq(Outbound) /\ out \in Outcomes(job)
  <2>1. out \in Outcomes(job)
    BY <1>4 DEF Outcomes
  <2> QED
    BY <1>4, <2>1, OutcomeType
<1>6. worker' = [worker EXCEPT !["cron"] = t]
  BY <1>3
<1> HIDE DEF job, out
<1>7. /\ delivering \in WorkerStates /\ delivering.at = "finish" /\ delivering.msg = job
      /\ delivering.out = out
  BY <1>4, <1>5, Constants DEF WorkerStates, Places
<1>8. /\ turning \in WorkerStates /\ turning.at = "begin" /\ turning.msg = job
      /\ turning.out = <<>>
  BY <1>4, Constants DEF WorkerStates, Places
<1> HIDE DEF delivering, turning
<1>9. WorkerOK(delivering) /\ WorkerOK(turning)
  BY <1>4, <1>5, <1>7, <1>8 DEF WorkerOK
<1>10. /\ t \in WorkerStates /\ WorkerOK(t) /\ t.at \in {"begin", "finish"}
       /\ t.msg.kind = "job"
  BY <1>4, <1>7, <1>8, <1>9
<1>11. worker \in [Workers -> WorkerStates] /\ "cron" \in Workers
  BY Constants DEF TypeInv, WorkerType
<1> HIDE DEF t
<1>12. worker'["cron"] = t
  BY <1>6, <1>11
<1> QED
  BY <1>1, <1>2, <1>6, <1>10, <1>12

LEMMA TaskFacts ==
  ASSUME TypeInv
  PROVE  /\ tasks \in Seq(TaskRecords) /\ Len(tasks) \in Nat /\ DOMAIN tasks = 1 .. Len(tasks)
         /\ \A t \in DOMAIN tasks : tasks[t] \in TaskRecords /\ tasks[t].origin \in Chats
                                    /\ t \in Nat \ {0}
<1>1. tasks \in Seq(TaskRecords) /\ Len(tasks) \in Nat /\ DOMAIN tasks = 1 .. Len(tasks)
  BY LenProperties DEF TypeInv, TaskType
<1>2. \A t \in DOMAIN tasks : tasks[t] \in TaskRecords
  BY <1>1, ElementOfSeq
<1>3. \A task \in TaskRecords : task.origin \in Chats
  BY DEF TaskRecords
<1> QED
  BY <1>1, <1>2, <1>3

(* A task's state changes; its place in the list does not. *)
LEMMA SetStatus ==
  ASSUME TypeInv, NEW t \in DOMAIN tasks, NEW status \in {"announcing", "done"},
         tasks' = [tasks EXCEPT ![t].status = status]
  PROVE  /\ tasks' \in Seq(TaskRecords) /\ DOMAIN tasks' = DOMAIN tasks
         /\ tasks'[t].status = status
         /\ \A u \in DOMAIN tasks \ {t} : tasks'[u] = tasks[u]
<1> DEFINE task == [tasks[t] EXCEPT !.status = status]
<1>1. task \in TaskRecords /\ task.status = status
  BY TaskFacts DEF TaskRecords
<1>2. tasks' = [tasks EXCEPT ![t] = task]
  OBVIOUS
<1> HIDE DEF task
<1>3. /\ tasks' \in Seq(TaskRecords) /\ Len(tasks') = Len(tasks)
      /\ \A u \in 1 .. Len(tasks) : tasks'[u] = IF u = t THEN task ELSE tasks[u]
  BY <1>1, <1>2, TaskFacts, ExceptSeq
<1> QED
  BY <1>1, <1>3, TaskFacts, LenProperties

LEMMA AnnounceEffect ==
  ASSUME TypeInv, NEW t \in DOMAIN tasks, Announce(t)
  PROVE  LET msg == [kind |-> "system", chat |-> tasks[t].origin, id |-> t]
         IN  /\ msg \in Inbound /\ Len(inbound) < InCap /\ inbound' = Append(inbound, msg)
             /\ inbound' \in Seq(Inbound)
  BY TaskFacts, AppendType DEF Announce, PublishInbound, Inbound, TypeInv, QueueType

LEMMA SubagentType ==
  ASSUME TypeInv, NEW t \in DOMAIN tasks, Subagent(t)
  PROVE  TypeInv'
<1>1. CASE TaskDone(t)
  <2>1. /\ lock = Free /\ lock' = t /\ tasks' = [tasks EXCEPT ![t].status = "announcing"]
        /\ UNCHANGED <<inbound, outbound, worker, messageChat, spawnChat, executed, requests,
                       answers, reported>>
    BY <1>1 DEF TaskDone
  <2>2. TaskType'
    <3>1. \A u \in DOMAIN tasks : tasks[u].status # "announcing"
      BY <2>1, TaskFacts, Constants DEF TypeInv, TaskType
    <3> QED
      BY <2>1, <3>1, SetStatus DEF TaskType
  <2> QED
    BY <2>1, <2>2 DEF TypeInv, QueueType, WorkerType, ContextType, HistoryType
<1>2. CASE Announce(t)
  <2>1. /\ tasks[t].status = "announcing" /\ lock' = Free
        /\ tasks' = [tasks EXCEPT ![t].status = "done"]
        /\ UNCHANGED <<outbound, worker, messageChat, spawnChat, executed, requests, answers,
                       reported>>
    BY <1>2 DEF Announce
  <2>2. TaskType'
    <3>1. \A u \in DOMAIN tasks \ {t} : tasks[u].status # "announcing"
      BY <2>1 DEF TypeInv, TaskType
    <3>2. \A u \in DOMAIN tasks : u # Free
      BY TaskFacts, Constants
    <3> QED
      BY <2>1, <3>1, <3>2, SetStatus DEF TaskType
  <2>3. QueueType'
    <3> DEFINE msg == [kind |-> "system", chat |-> tasks[t].origin, id |-> t]
    <3>1. msg \in Inbound /\ Len(inbound) < InCap /\ inbound' = Append(inbound, msg)
      BY <1>2, AnnounceEffect
    <3> HIDE DEF msg
    <3>2. /\ inbound' \in Seq(Inbound) /\ Len(inbound') = Len(inbound) + 1
          /\ Len(inbound) \in Nat
      BY <3>1, AppendType DEF TypeInv, QueueType
    <3> QED
      BY <2>1, <3>1, <3>2, PipelineAssumption DEF TypeInv, QueueType
  <2> QED
    BY <2>1, <2>2, <2>3 DEF TypeInv, WorkerType, ContextType, HistoryType
<1> QED
  BY <1>1, <1>2 DEF Subagent

(* A user's message joins the queue and the requests under its number. *)
LEMMA ReceiveEffect ==
  ASSUME TypeInv, Receive
  PROVE  \E c \in Registered :
           LET msg == [kind |-> "user", chat |-> c, id |-> Len(requests) + 1]
           IN  /\ requests' = Append(requests, c) /\ Len(requests) < MaxRequests
               /\ msg \in Inbound /\ Len(inbound) < InCap /\ inbound' = Append(inbound, msg)
<1>1. Len(requests) + 1 \in Nat
  BY LenProperties DEF TypeInv, HistoryType
<1> QED
  BY <1>1, PipelineAssumption DEF Receive, PublishInbound, Inbound

(* The dispatcher counts a reply it tried to send. *)
LEMMA DispatchEffect ==
  ASSUME TypeInv, Dispatch
  PROVE  /\ outbound # <<>> /\ outbound' = Tail(outbound) /\ Head(outbound) \in Outbound
         /\ UNCHANGED <<inbound, worker, messageChat, spawnChat, tasks, lock, executed, requests>>
         /\ answers' = IF Head(outbound).to \in Registered /\ Head(outbound).kind = "reply"
                       THEN Append(answers, [about |-> Head(outbound).id,
                                             to |-> Head(outbound).to])
                       ELSE answers
         /\ reported' = IF Head(outbound).to \in Registered
                           /\ Head(outbound).kind \in {"report", "echo"}
                        THEN reported \cup {Head(outbound).id}
                        ELSE reported
<1>1. outbound # <<>>
  BY DEF Dispatch
<1>2. Head(outbound) \in Outbound
  BY <1>1, TailType DEF TypeInv, QueueType
<1> QED
  BY <1>1, <1>2 DEF Dispatch

LEMMA DispatchType ==
  ASSUME TypeInv, Dispatch
  PROVE  TypeInv'
<1> DEFINE msg == Head(outbound)
<1>1. /\ outbound # <<>> /\ outbound' = Tail(outbound) /\ msg \in Outbound
      /\ UNCHANGED <<inbound, worker, messageChat, spawnChat, tasks, lock, executed, requests>>
  BY DispatchEffect
<1>2. msg.id \in Nat
  BY <1>1 DEF Outbound
<1>3. answers' \in Seq([about : Nat, to : Registered])
  <2>1. CASE msg.to \in Registered /\ msg.kind = "reply"
    <3>1. [about |-> msg.id, to |-> msg.to] \in [about : Nat, to : Registered]
      BY <1>2, <2>1
    <3>2. answers' = Append(answers, [about |-> msg.id, to |-> msg.to])
      BY <2>1, DispatchEffect
    <3>3. answers \in Seq([about : Nat, to : Registered])
      BY DEF TypeInv, HistoryType
    <3> QED
      BY <3>1, <3>2, <3>3, AppendType
  <2>2. CASE ~(msg.to \in Registered /\ msg.kind = "reply")
    BY <2>2, DispatchEffect DEF TypeInv, HistoryType
  <2> QED
    BY <2>1, <2>2
<1>4. reported' \subseteq Nat
  BY <1>2, DispatchEffect DEF TypeInv, HistoryType
<1>5. QueueType'
  <2>1. /\ Tail(outbound) \in Seq(Outbound) /\ Len(Tail(outbound)) = Len(outbound) - 1
        /\ Len(outbound) \in Nat /\ Len(outbound) <= OutCap
    BY <1>1, TailType, LenProperties DEF TypeInv, QueueType
  <2> QED
    BY <1>1, <2>1, PipelineAssumption DEF TypeInv, QueueType
<1> HIDE DEF msg
<1> QED
  BY <1>1, <1>3, <1>4, <1>5 DEF TypeInv, WorkerType, ContextType, TaskType, HistoryType

LEMMA TypeStep == TypeInv /\ [Next]_vars => TypeInv'
<1> SUFFICES ASSUME TypeInv, [Next]_vars PROVE TypeInv'
  OBVIOUS
<1>1. CASE Receive
  <2>1. UNCHANGED <<outbound, worker, messageChat, spawnChat, tasks, lock, executed, answers,
                    reported>>
    BY <1>1 DEF Receive
  <2>2. QueueType' /\ HistoryType'
    <3>1. PICK c \in Registered :
            LET msg == [kind |-> "user", chat |-> c, id |-> Len(requests) + 1]
            IN  /\ requests' = Append(requests, c) /\ Len(requests) < MaxRequests
                /\ msg \in Inbound /\ Len(inbound) < InCap /\ inbound' = Append(inbound, msg)
      BY <1>1, ReceiveEffect
    <3>2. /\ inbound' \in Seq(Inbound) /\ Len(inbound') = Len(inbound) + 1 /\ Len(inbound) \in Nat
          /\ requests' \in Seq(Registered) /\ Len(requests') = Len(requests) + 1 /\ Len(requests) \in Nat
      BY <3>1, AppendType DEF TypeInv, QueueType, HistoryType
    <3> QED
      BY <2>1, <3>1, <3>2, PipelineAssumption DEF TypeInv, QueueType, HistoryType
  <2> QED
    BY <2>1, <2>2 DEF TypeInv, WorkerType, ContextType, TaskType
<1>2. CASE ExecuteJob
  <2>1. WorkerType' /\ \A v \in Workers \ {"cron"} : worker'[v] = worker[v]
    BY <1>2, ExecuteJobEffect, WorkerFacts, WorkerUpdate, Constants DEF TypeInv
  <2>2. worker'["cron"].at \notin {"message", "spawn"}
    BY <1>2, ExecuteJobEffect
  <2>3. ContextType'
    BY <1>2, <2>1, <2>2, ExecuteJobEffect DEF TypeInv, ContextType
  <2>4. QueueType' /\ TaskType' /\ HistoryType'
    BY <1>2, ExecuteJobEffect DEF TypeInv, QueueType, TaskType, HistoryType
  <2> QED
    BY <2>1, <2>3, <2>4 DEF TypeInv
<1>3. CASE Consume
  <2>1. WorkerType' /\ \A v \in Workers \ {"run"} : worker'[v] = worker[v]
    BY <1>3, ConsumeEffect, WorkerFacts, WorkerUpdate, Constants DEF TypeInv
  <2>2. ContextType'
    BY <1>3, <2>1, ConsumeEffect DEF TypeInv, ContextType
  <2>3. QueueType'
    <3>1. /\ Tail(inbound) \in Seq(Inbound) /\ Len(Tail(inbound)) = Len(inbound) - 1
          /\ Len(inbound) \in Nat /\ Len(inbound) <= InCap
      BY <1>3, ConsumeEffect, TailType, LenProperties DEF TypeInv, QueueType
    <3>2. inbound' = Tail(inbound) /\ outbound' = outbound
      BY <1>3 DEF Consume
    <3>3. outbound \in Seq(Outbound) /\ Len(outbound) <= OutCap
      BY DEF TypeInv, QueueType
    <3>4. Len(Tail(inbound)) <= InCap
      BY <3>1, PipelineAssumption
    <3> QED
      BY <3>1, <3>2, <3>3, <3>4 DEF QueueType
  <2>4. TaskType' /\ HistoryType'
    BY <1>3, ConsumeEffect DEF TypeInv, TaskType, HistoryType
  <2> QED
    BY <2>1, <2>2, <2>3, <2>4 DEF TypeInv
<1>4. CASE \E w \in Workers : Turn(w)
  BY <1>4, SilentTurnType, PublishType DEF Turn, SilentTurn
<1>5. CASE \E t \in DOMAIN tasks : Subagent(t)
  BY <1>5, SubagentType
<1>6. CASE Dispatch
  BY <1>6, DispatchType
<1>7. CASE UNCHANGED vars
  BY <1>7 DEF vars, TypeInv, QueueType, WorkerType, ContextType, TaskType, HistoryType
<1> QED
  BY <1>1, <1>2, <1>3, <1>4, <1>5, <1>6, <1>7 DEF Next, Internal

LEMMA TypeInvariance == Spec => []TypeInv
<1>1. Init => TypeInv
  BY InitType
<1> QED
  BY <1>1, TypeStep, PTL DEF Spec

(* Queues respect their capacity, goroutines are where the code can be,    *)
(* with the message they must have there, and only an announcing subagent  *)
(* holds the lock.                                                         *)
THEOREM TypeCorrect == Spec => []TypeOK
  BY TypeInvariance, TypeInvImplies, PTL

-----------------------------------------------------------------------------
(* Where the messages of users are between the two queues.                 *)

LEMMA KindStep == TypeInv /\ KindInv /\ [Next]_vars => KindInv'
<1> SUFFICES ASSUME TypeInv, KindInv, [Next]_vars PROVE KindInv'
  OBVIOUS
<1>1. worker \in [Workers -> WorkerStates] /\ "run" \in Workers /\ "cron" \in Workers
  BY Constants DEF TypeInv, WorkerType
<1>2. ASSUME NEW msg \in Inbound, msg.kind # "job", inbound' = Append(inbound, msg), UNCHANGED worker
      PROVE  KindInv'
  <2>1. /\ DOMAIN inbound' = 1 .. Len(inbound) + 1 /\ inbound'[Len(inbound) + 1] = msg
        /\ DOMAIN inbound = 1 .. Len(inbound) /\ Len(inbound) \in Nat
        /\ \A i \in DOMAIN inbound : inbound'[i] = inbound[i]
    BY <1>2, AppendType DEF TypeInv, QueueType
  <2> QED
    BY <1>2, <2>1 DEF KindInv
<1>3. CASE Receive
  <2>1. PICK c \in Registered :
          LET msg == [kind |-> "user", chat |-> c, id |-> Len(requests) + 1]
          IN  msg \in Inbound /\ inbound' = Append(inbound, msg)
    BY <1>3, ReceiveEffect
  <2>2. UNCHANGED worker
    BY <1>3 DEF Receive
  <2> QED
    BY <1>2, <2>1, <2>2
<1>4. CASE ExecuteJob
  BY <1>1, <1>4, ExecuteJobEffect DEF KindInv
<1>5. CASE Consume
  <2>1. Head(inbound).kind # "job" /\ \A i \in DOMAIN Tail(inbound) : Tail(inbound)[i].kind # "job"
    BY <1>5, ConsumeEffect, TailType DEF TypeInv, QueueType, KindInv
  <2> QED
    BY <1>1, <1>5, <2>1, ConsumeEffect DEF KindInv
<1>6. ASSUME NEW w \in Workers, Turn(w) PROVE KindInv'
  <2>1. UNCHANGED inbound
    BY <1>6 DEF Turn, BeginTurn, CallMessage, ExecuteMessage, CallSpawn, ExecuteSpawn, Spawn, EndTurn,
                Publish
  <2>2. /\ worker' = [worker EXCEPT ![w] = worker'[w]]
        /\ worker[w].at # "idle"
        /\ worker'[w].at # "idle" => worker'[w].msg = worker[w].msg
    <3>1. CASE SilentTurn(w)
      BY <1>6, <3>1, SilentTurnEffect DEF Silent
    <3>2. CASE Publish(w)
      BY <1>6, <3>2, PublishEffect, Constants DEF Publishes
    <3> QED
      BY <1>6, <3>1, <3>2 DEF Turn, SilentTurn
  <2> QED
    BY <1>1, <2>1, <2>2 DEF KindInv
<1>7. ASSUME NEW t \in DOMAIN tasks, Subagent(t) PROVE KindInv'
  <2>1. CASE TaskDone(t)
    BY <2>1 DEF TaskDone, KindInv
  <2>2. CASE Announce(t)
    <3> DEFINE msg == [kind |-> "system", chat |-> tasks[t].origin, id |-> t]
    <3>1. msg \in Inbound /\ msg.kind = "system" /\ inbound' = Append(inbound, msg)
      BY <2>2, AnnounceEffect
    <3>2. UNCHANGED worker
      BY <2>2 DEF Announce
    <3> HIDE DEF msg
    <3> QED
      BY <1>2, <3>1, <3>2
  <2> QED
    BY <1>7, <2>1, <2>2 DEF Subagent
<1>8. CASE Dispatch
  BY <1>8 DEF Dispatch, KindInv
<1>9. CASE UNCHANGED vars
  BY <1>9 DEF vars, KindInv
<1> QED
  BY <1>3, <1>4, <1>5, <1>6, <1>7, <1>8, <1>9 DEF Next, Internal

(* The positions of users' messages in the inbound and of replies in the   *)
(* outbound queue.                                                         *)
Waiting(in) == {i \in DOMAIN in : in[i].kind = "user"}
Replies(out) == {i \in DOMAIN out : out[i].kind = "reply"}

(* Of r requests n are answered; the others are in the outbound queue, at  *)
(* most one in the turn of Run (cur), and in the inbound queue.            *)
Unanswered(in, cur, out, n, req) ==
    /\ \A i \in Replies(out) : out[i].id \in n + 1 .. Len(req) /\ out[i].to = req[out[i].id]
    /\ \A m \in cur : m.id \in n + 1 .. Len(req) /\ m.chat = req[m.id]
    /\ \A i \in Waiting(in) : in[i].id \in n + 1 .. Len(req) /\ in[i].chat = req[in[i].id]

InOrder(in, cur, out) ==
    /\ \A i, j \in Replies(out) : i < j => out[i].id < out[j].id
    /\ \A i \in Replies(out) : \A m \in cur : out[i].id < m.id
    /\ \A i \in Replies(out) : \A j \in Waiting(in) : out[i].id < in[j].id
    /\ \A m \in cur : \A j \in Waiting(in) : m.id < in[j].id
    /\ \A i, j \in Waiting(in) : i < j => in[i].id < in[j].id

NoneLost(in, cur, out, n, req) ==
    \A k \in n + 1 .. Len(req) :
        \/ \E i \in Replies(out) : out[i].id = k
        \/ \E m \in cur : m.id = k
        \/ \E i \in Waiting(in) : in[i].id = k

Line(in, cur, out, n, req) ==
    /\ n \in Nat /\ n <= Len(req)
    /\ Unanswered(in, cur, out, n, req)
    /\ InOrder(in, cur, out)
    /\ NoneLost(in, cur, out, n, req)

(* The user's message the turn of Run is about. *)
Current(s) == IF s.at # "idle" /\ s.msg.kind = "user" THEN {s.msg} ELSE {}

ReplyInv == Line(inbound, Current(worker["run"]), outbound, Len(answers), requests)

LEMMA AppendWaiting ==
  ASSUME NEW in \in Seq(Inbound), NEW m \in Inbound
  PROVE  LET in2 == Append(in, m)
         IN  /\ \A i \in Waiting(in) : i \in Nat /\ i <= Len(in) /\ in2[i] = in[i]
             /\ Len(in) + 1 \notin DOMAIN in /\ Len(in) \in Nat
             /\ in2[Len(in) + 1] = m
             /\ m.kind = "user" => Waiting(in2) = Waiting(in) \cup {Len(in) + 1}
             /\ m.kind # "user" => Waiting(in2) = Waiting(in)
  BY AppendType DEF Waiting

LEMMA AppendReplies ==
  ASSUME NEW out \in Seq(Outbound), NEW m \in Outbound
  PROVE  LET out2 == Append(out, m)
         IN  /\ \A i \in Replies(out) : i \in Nat /\ i <= Len(out) /\ out2[i] = out[i]
             /\ Len(out) + 1 \notin DOMAIN out /\ Len(out) \in Nat
             /\ out2[Len(out) + 1] = m
             /\ m.kind = "reply" => Replies(out2) = Replies(out) \cup {Len(out) + 1}
             /\ m.kind # "reply" => Replies(out2) = Replies(out)
  BY AppendType DEF Replies

(* A new request queues up behind all others. *)
LEMMA LineReceive ==
  ASSUME NEW in \in Seq(Inbound), NEW cur, NEW out \in Seq(Outbound), NEW n,
         NEW req \in Seq(Registered), NEW c \in Registered, NEW m \in Inbound,
         Line(in, cur, out, n, req),
         m.kind = "user", m.chat = c, m.id = Len(req) + 1
  PROVE  Line(Append(in, m), cur, out, n, Append(req, c))
<1> DEFINE in2 == Append(in, m)
           req2 == Append(req, c)
           last == Len(in) + 1
<1>1. /\ \A i \in Waiting(in) : i \in Nat /\ i < last /\ in2[i] = in[i]
      /\ in2[last] = m /\ last \in Nat
      /\ Waiting(in2) = Waiting(in) \cup {last}
  <2>1. /\ \A i \in Waiting(in) : i \in Nat /\ i <= Len(in) /\ in2[i] = in[i]
        /\ Len(in) \in Nat /\ in2[last] = m
        /\ Waiting(in2) = Waiting(in) \cup {last}
    BY AppendWaiting
  <2> HIDE DEF in2
  <2> QED
    BY <2>1
<1>2. /\ Len(req2) = Len(req) + 1 /\ Len(req) \in Nat /\ req2[Len(req) + 1] = c
      /\ \A k \in 1 .. Len(req) : req2[k] = req[k]
  BY AppendType
<1>3. n \in Nat /\ n <= Len(req)
  BY DEF Line
<1> HIDE DEF in2, req2, last
<1>4. Unanswered(in2, cur, out, n, req2)
  <2>1. \A k \in n + 1 .. Len(req) : k \in n + 1 .. Len(req2) /\ req2[k] = req[k]
    BY <1>2, <1>3
  <2>2. m.id \in n + 1 .. Len(req2) /\ m.chat = req2[m.id]
    BY <1>2, <1>3
  <2>3. Unanswered(in, cur, out, n, req)
    BY DEF Line
  <2>4. \A i \in Replies(out) : out[i].id \in n + 1 .. Len(req2) /\ out[i].to = req2[out[i].id]
    BY <2>1, <2>3 DEF Unanswered
  <2>5. \A k \in cur : k.id \in n + 1 .. Len(req2) /\ k.chat = req2[k.id]
    BY <2>1, <2>3 DEF Unanswered
  <2>6. ASSUME NEW i \in Waiting(in2)
        PROVE  in2[i].id \in n + 1 .. Len(req2) /\ in2[i].chat = req2[in2[i].id]
    <3>1. CASE i = last
      BY <1>1, <2>2, <3>1
    <3>2. CASE i \in Waiting(in)
      <4>1. in2[i] = in[i]
        BY <1>1, <3>2
      <4>2. in[i].id \in n + 1 .. Len(req) /\ in[i].chat = req[in[i].id]
        BY <2>3, <3>2 DEF Unanswered
      <4> QED
        BY <2>1, <4>1, <4>2
    <3> QED
      BY <1>1, <3>1, <3>2
  <2> QED
    BY <2>4, <2>5, <2>6 DEF Unanswered
<1>5. InOrder(in2, cur, out)
  <2>1. \A k \in n + 1 .. Len(req) : k < m.id
    BY <1>2, <1>3
  <2>2. /\ \A i \in Replies(out) : out[i].id < m.id
        /\ \A k \in cur : k.id < m.id
        /\ \A i \in Waiting(in) : in[i].id < m.id
    BY <2>1 DEF Line, Unanswered
  <2>3. \A i, j \in Waiting(in2) : i < j => in2[i].id < in2[j].id
    <3>1. ASSUME NEW i \in Waiting(in2), NEW j \in Waiting(in2), i < j
          PROVE  in2[i].id < in2[j].id
      <4>1. i \in Waiting(in) /\ i # last
        BY <1>1, <3>1
      <4>2. CASE j = last
        BY <1>1, <2>2, <4>1, <4>2
      <4>3. CASE j \in Waiting(in)
        BY <1>1, <3>1, <4>1, <4>3 DEF Line, InOrder
      <4> QED
        BY <1>1, <4>2, <4>3
    <3> QED
      BY <3>1
  <2> QED
    BY <1>1, <2>2, <2>3 DEF Line, InOrder
<1>6. NoneLost(in2, cur, out, n, req2)
  <2>1. ASSUME NEW k \in n + 1 .. Len(req2)
        PROVE  \/ \E i \in Replies(out) : out[i].id = k
               \/ \E i \in cur : i.id = k
               \/ \E i \in Waiting(in2) : in2[i].id = k
    <3>1. CASE k = Len(req) + 1
      BY <1>1, <3>1
    <3>2. CASE k # Len(req) + 1
      <4>1. k \in n + 1 .. Len(req)
        BY <1>2, <1>3, <3>2
      <4> QED
        BY <1>1, <4>1 DEF Line, NoneLost
    <3> QED
      BY <3>1, <3>2
  <2> QED
    BY <2>1 DEF NoneLost
<1>7. Line(in2, cur, out, n, req2)
  BY <1>2, <1>3, <1>4, <1>5, <1>6 DEF Line
<1> QED
  BY <1>7 DEF in2, req2

(* Other messages at the ends of the queues change nothing. *)
LEMMA LineSame ==
  ASSUME NEW in, NEW in2, NEW cur, NEW out, NEW out2, NEW n, NEW req,
         Line(in, cur, out, n, req),
         Waiting(in2) = Waiting(in), \A i \in Waiting(in) : in2[i] = in[i],
         Replies(out2) = Replies(out), \A i \in Replies(out) : out2[i] = out[i]
  PROVE  Line(in2, cur, out2, n, req)
<1>1. Unanswered(in2, cur, out2, n, req)
  BY DEF Line, Unanswered
<1>2. InOrder(in2, cur, out2)
  BY DEF Line, InOrder
<1>3. NoneLost(in2, cur, out2, n, req)
  <2>1. NoneLost(in, cur, out, n, req)
    BY DEF Line
  <2>2. ASSUME NEW k \in n + 1 .. Len(req)
        PROVE  \/ \E i \in Replies(out2) : out2[i].id = k
               \/ \E i \in cur : i.id = k
               \/ \E i \in Waiting(in2) : in2[i].id = k
    BY <2>1 DEF NoneLost
  <2> QED
    BY <2>2 DEF NoneLost
<1> QED
  BY <1>1, <1>2, <1>3 DEF Line

LEMMA TailWaiting ==
  ASSUME NEW in \in Seq(Inbound), in # <<>>
  PROVE  /\ \A i \in Waiting(Tail(in)) : i \in Nat \ {0} /\ i + 1 \in Waiting(in)
                                         /\ Tail(in)[i] = in[i + 1]
         /\ \A i \in Waiting(in) \ {1} : i \in Nat /\ 1 < i /\ i - 1 \in Waiting(Tail(in))
                                         /\ Tail(in)[i - 1] = in[i]
         /\ Head(in) = in[1] /\ (1 \in Waiting(in) <=> Head(in).kind = "user")
<1>1. /\ Head(in) = in[1] /\ 1 \in DOMAIN in /\ Len(in) \in Nat
      /\ DOMAIN in = 1 .. Len(in) /\ DOMAIN Tail(in) = 1 .. Len(in) - 1
      /\ \A i \in DOMAIN Tail(in) : i + 1 \in DOMAIN in /\ Tail(in)[i] = in[i + 1]
  BY TailType, LenProperties
<1>2. \A i \in DOMAIN in \ {1} : i \in Nat /\ 1 < i /\ i - 1 \in DOMAIN Tail(in)
                                 /\ Tail(in)[i - 1] = in[i]
  BY <1>1
<1> QED
  BY <1>1, <1>2 DEF Waiting

LEMMA TailReplies ==
  ASSUME NEW out \in Seq(Outbound), out # <<>>
  PROVE  /\ \A i \in Replies(Tail(out)) : i \in Nat \ {0} /\ i + 1 \in Replies(out)
                                          /\ Tail(out)[i] = out[i + 1]
         /\ \A i \in Replies(out) \ {1} : i \in Nat /\ 1 < i /\ i - 1 \in Replies(Tail(out))
                                          /\ Tail(out)[i - 1] = out[i]
         /\ Head(out) = out[1] /\ (1 \in Replies(out) <=> Head(out).kind = "reply")
<1>1. /\ Head(out) = out[1] /\ 1 \in DOMAIN out /\ Len(out) \in Nat
      /\ DOMAIN out = 1 .. Len(out) /\ DOMAIN Tail(out) = 1 .. Len(out) - 1
      /\ \A i \in DOMAIN Tail(out) : i + 1 \in DOMAIN out /\ Tail(out)[i] = out[i + 1]
  BY TailType, LenProperties
<1>2. \A i \in DOMAIN out \ {1} : i \in Nat /\ 1 < i /\ i - 1 \in DOMAIN Tail(out)
                                  /\ Tail(out)[i - 1] = out[i]
  BY <1>1
<1> QED
  BY <1>1, <1>2 DEF Replies

(* Run takes the message that is first in line. *)
LEMMA LineConsume ==
  ASSUME NEW in \in Seq(Inbound), in # <<>>, NEW out, NEW n, NEW req,
         Line(in, {}, out, n, req)
  PROVE  Line(Tail(in), IF Head(in).kind = "user" THEN {Head(in)} ELSE {}, out, n, req)
<1> DEFINE in2 == Tail(in)
           m == Head(in)
           cur == IF m.kind = "user" THEN {m} ELSE {}
<1>1. /\ \A i \in Waiting(in2) : i \in Nat \ {0} /\ i + 1 \in Waiting(in) /\ in2[i] = in[i + 1]
      /\ \A i \in Waiting(in) \ {1} : i \in Nat /\ 1 < i /\ i - 1 \in Waiting(in2)
                                      /\ in2[i - 1] = in[i]
      /\ m = in[1] /\ (1 \in Waiting(in) <=> m.kind = "user")
  BY TailWaiting
<1> HIDE DEF in2, m
<1>2. \A c \in cur : c = in[1] /\ 1 \in Waiting(in)
  BY <1>1
<1>3. Unanswered(in2, cur, out, n, req)
  BY <1>1, <1>2 DEF Line, Unanswered
<1>4. InOrder(in2, cur, out)
  <2>1. InOrder(in, {}, out)
    BY DEF Line
  <2>2. \A i \in Replies(out) : \A c \in cur : out[i].id < c.id
    BY <1>2, <2>1 DEF InOrder
  <2>3. \A i \in Replies(out) : \A j \in Waiting(in2) : out[i].id < in2[j].id
    BY <1>1, <2>1 DEF InOrder
  <2>4. \A c \in cur : \A j \in Waiting(in2) : c.id < in2[j].id
    <3>1. \A j \in Waiting(in2) : 1 < j + 1
      <4>1. \A j \in Waiting(in2) : j \in Nat /\ j # 0
        BY <1>1
      <4> QED
        BY <4>1
    <3> QED
      BY <1>1, <1>2, <2>1, <3>1 DEF InOrder
  <2>5. \A i, j \in Waiting(in2) : i < j => in2[i].id < in2[j].id
    <3>1. \A i, j \in Waiting(in2) : i < j => i + 1 < j + 1
      BY <1>1
    <3> QED
      BY <1>1, <2>1, <3>1 DEF InOrder
  <2> QED
    BY <2>1, <2>2, <2>3, <2>4, <2>5 DEF InOrder
<1>5. NoneLost(in2, cur, out, n, req)
  <2>1. ASSUME NEW k \in n + 1 .. Len(req)
        PROVE  \/ \E i \in Replies(out) : out[i].id = k
               \/ \E i \in cur : i.id = k
               \/ \E i \in Waiting(in2) : in2[i].id = k
    <3>1. CASE \E i \in Waiting(in) : in[i].id = k
      <4>1. PICK i \in Waiting(in) : in[i].id = k
        BY <3>1
      <4>2. CASE i = 1
        BY <1>1, <4>1, <4>2
      <4>3. CASE i # 1
        BY <1>1, <4>1, <4>3
      <4> QED
        BY <4>2, <4>3
    <3> QED
      BY <2>1, <3>1 DEF Line, NoneLost
  <2> QED
    BY <2>1 DEF NoneLost
<1> HIDE DEF cur
<1>6. Line(in2, cur, out, n, req)
  BY <1>3, <1>4, <1>5 DEF Line
<1> QED
  BY <1>6 DEF in2, cur, m

(* The reply of Run gets in line behind the other replies. *)
LEMMA LineReply ==
  ASSUME NEW in, NEW m, NEW out \in Seq(Outbound), NEW r \in Outbound, NEW n, NEW req \in Seq(Registered),
         r.kind = "reply", r.id = m.id, r.to = m.chat,
         Line(in, {m}, out, n, req)
  PROVE  Line(in, {}, Append(out, r), n, req)
<1> DEFINE out2 == Append(out, r)
           last == Len(out) + 1
<1>1. /\ \A i \in Replies(out) : i \in Nat /\ i < last /\ out2[i] = out[i]
      /\ out2[last] = r /\ last \in Nat
      /\ Replies(out2) = Replies(out) \cup {last}
  <2>1. /\ \A i \in Replies(out) : i \in Nat /\ i <= Len(out) /\ out2[i] = out[i]
        /\ Len(out) \in Nat /\ out2[last] = r
        /\ Replies(out2) = Replies(out) \cup {last}
    BY AppendReplies
  <2> HIDE DEF out2
  <2> QED
    BY <2>1
<1> HIDE DEF out2, last
<1>2. Unanswered(in, {}, out2, n, req)
  BY <1>1 DEF Line, Unanswered
<1>3. InOrder(in, {}, out2)
  <2>1. InOrder(in, {m}, out)
    BY DEF Line
  <2>2. \A i, j \in Replies(out2) : i < j => out2[i].id < out2[j].id
    <3>1. ASSUME NEW i \in Replies(out2), NEW j \in Replies(out2), i < j
          PROVE  out2[i].id < out2[j].id
      <4>1. i \in Replies(out) /\ i # last
        BY <1>1, <3>1
      <4>2. CASE j = last
        BY <1>1, <2>1, <4>1, <4>2 DEF InOrder
      <4>3. CASE j \in Replies(out)
        BY <1>1, <2>1, <3>1, <4>1, <4>3 DEF InOrder
      <4> QED
        BY <1>1, <4>2, <4>3
    <3> QED
      BY <3>1
  <2>3. \A i \in Replies(out2) : \A j \in Waiting(in) : out2[i].id < in[j].id
    BY <1>1, <2>1 DEF InOrder
  <2> QED
    BY <2>1, <2>2, <2>3 DEF InOrder
<1>4. NoneLost(in, {}, out2, n, req)
  <2>1. ASSUME NEW k \in n + 1 .. Len(req)
        PROVE  \/ \E i \in Replies(out2) : out2[i].id = k
               \/ \E i \in Waiting(in) : in[i].id = k
    BY <1>1, <2>1 DEF Line, NoneLost
  <2> QED
    BY <2>1 DEF NoneLost
<1>5. Line(in, {}, out2, n, req)
  BY <1>2, <1>3, <1>4 DEF Line
<1> QED
  BY <1>5 DEF out2

(* The reply the dispatcher takes is the next one due. *)
LEMMA LineDispatch ==
  ASSUME NEW in, NEW cur, NEW out \in Seq(Outbound), NEW n, NEW req \in Seq(Registered),
         out # <<>>, Head(out).kind = "reply", Line(in, cur, out, n, req),
         \A i \in Waiting(in) : in[i].id \in Nat, \A m \in cur : m.id \in Nat
  PROVE  /\ Head(out).id = n + 1 /\ n < Len(req) /\ Head(out).to = req[n + 1]
         /\ Line(in, cur, Tail(out), n + 1, req)
<1> DEFINE out2 == Tail(out)
<1>1. /\ \A i \in Replies(out2) : i \in Nat \ {0} /\ i + 1 \in Replies(out) /\ out2[i] = out[i + 1]
      /\ \A i \in Replies(out) \ {1} : i \in Nat /\ 1 < i /\ i - 1 \in Replies(out2)
                                       /\ out2[i - 1] = out[i]
      /\ Head(out) = out[1] /\ 1 \in Replies(out)
  BY TailReplies
<1> HIDE DEF out2
<1>2. /\ Unanswered(in, cur, out, n, req) /\ InOrder(in, cur, out) /\ NoneLost(in, cur, out, n, req)
      /\ n \in Nat /\ n <= Len(req) /\ Len(req) \in Nat
  BY LenProperties DEF Line
<1>3. out[1].id \in n + 1 .. Len(req) /\ out[1].to = req[out[1].id]
  BY <1>1, <1>2 DEF Unanswered
<1>4. n + 1 \in n + 1 .. Len(req)
  BY <1>2, <1>3
<1>5. /\ \A i \in Replies(out) \ {1} : out[1].id < out[i].id
      /\ \A m \in cur : out[1].id < m.id
      /\ \A i \in Waiting(in) : out[1].id < in[i].id
  BY <1>1, <1>2 DEF InOrder
<1>6. out[1].id = n + 1
  <2>1. CASE \E i \in Replies(out) : out[i].id = n + 1
    BY <1>2, <1>3, <1>5, <2>1
  <2>2. CASE \E m \in cur : m.id = n + 1
    BY <1>2, <1>3, <1>5, <2>2
  <2>3. CASE \E i \in Waiting(in) : in[i].id = n + 1
    BY <1>2, <1>3, <1>5, <2>3
  <2> QED
    BY <1>2, <1>4, <2>1, <2>2, <2>3 DEF NoneLost
<1>7. Unanswered(in, cur, out2, n + 1, req)
  <2>1. \A k \in n + 1 .. Len(req) : n + 1 < k => k \in (n + 1) + 1 .. Len(req)
    BY <1>2
  <2>2. /\ \A i \in Replies(out) \ {1} : out[i].id \in (n + 1) + 1 .. Len(req)
        /\ \A m \in cur : m.id \in (n + 1) + 1 .. Len(req)
        /\ \A i \in Waiting(in) : in[i].id \in (n + 1) + 1 .. Len(req)
    BY <1>2, <1>5, <1>6, <2>1 DEF Unanswered
  <2>3. \A i \in Replies(out2) : out2[i] = out[i + 1] /\ i + 1 \in Replies(out) \ {1}
    BY <1>1
  <2> QED
    BY <1>2, <2>2, <2>3 DEF Unanswered
<1>8. InOrder(in, cur, out2)
  <2>1. \A i, j \in Replies(out2) : i < j => i + 1 < j + 1
    BY <1>1
  <2>2. ASSUME NEW i \in Replies(out2), NEW j \in Replies(out2), i < j
        PROVE  out2[i].id < out2[j].id
    <3>1. /\ i + 1 \in Replies(out) /\ out2[i] = out[i + 1]
          /\ j + 1 \in Replies(out) /\ out2[j] = out[j + 1]
      BY <1>1
    <3>2. i + 1 < j + 1
      BY <2>1, <2>2
    <3> QED
      BY <1>2, <3>1, <3>2 DEF InOrder
  <2>3. /\ \A i \in Replies(out2) : \A m \in cur : out2[i].id < m.id
        /\ \A i \in Replies(out2) : \A j \in Waiting(in) : out2[i].id < in[j].id
    BY <1>1, <1>2 DEF InOrder
  <2> QED
    BY <1>2, <2>2, <2>3 DEF InOrder
<1>9. NoneLost(in, cur, out2, n + 1, req)
  <2>1. ASSUME NEW k \in (n + 1) + 1 .. Len(req)
        PROVE  \/ \E i \in Replies(out2) : out2[i].id = k
               \/ \E m \in cur : m.id = k
               \/ \E i \in Waiting(in) : in[i].id = k
    <3>1. k \in n + 1 .. Len(req) /\ k # n + 1
      BY <1>2
    <3>2. CASE \E i \in Replies(out) : out[i].id = k
      <4>1. PICK i \in Replies(out) : out[i].id = k
        BY <3>2
      <4>2. i # 1
        BY <1>6, <3>1, <4>1
      <4> QED
        BY <1>1, <4>1, <4>2
    <3> QED
      BY <1>2, <3>1, <3>2 DEF NoneLost
  <2> QED
    BY <2>1 DEF NoneLost
<1>10. n + 1 \in Nat /\ n + 1 <= Len(req) /\ n < Len(req)
  BY <1>2, <1>4
<1>11. Line(in, cur, out2, n + 1, req)
  BY <1>7, <1>8, <1>9, <1>10 DEF Line
<1> QED
  BY <1>1, <1>3, <1>6, <1>10, <1>11 DEF out2

(* A message that is no reply leaves the outbound queue. *)
LEMMA LineDispatchOther ==
  ASSUME NEW in, NEW cur, NEW out \in Seq(Outbound), NEW n, NEW req,
         out # <<>>, Head(out).kind # "reply", Line(in, cur, out, n, req)
  PROVE  Line(in, cur, Tail(out), n, req)
<1> DEFINE out2 == Tail(out)
<1>1. /\ \A i \in Replies(out2) : i \in Nat \ {0} /\ i + 1 \in Replies(out) /\ out2[i] = out[i + 1]
      /\ \A i \in Replies(out) \ {1} : i \in Nat /\ 1 < i /\ i - 1 \in Replies(out2)
                                       /\ out2[i - 1] = out[i]
      /\ 1 \notin Replies(out)
  BY TailReplies
<1> HIDE DEF out2
<1>2. Unanswered(in, cur, out2, n, req)
  <2>1. Unanswered(in, cur, out, n, req)
    BY DEF Line
  <2>2. ASSUME NEW i \in Replies(out2)
        PROVE  out2[i].id \in n + 1 .. Len(req) /\ out2[i].to = req[out2[i].id]
    <3>1. i + 1 \in Replies(out) /\ out2[i] = out[i + 1]
      BY <1>1
    <3> QED
      BY <2>1, <3>1 DEF Unanswered
  <2> QED
    BY <2>1, <2>2 DEF Unanswered
<1>3. InOrder(in, cur, out2)
  <2>1. \A i, j \in Replies(out2) : i < j => i + 1 < j + 1
    BY <1>1
  <2>2. ASSUME NEW i \in Replies(out2), NEW j \in Replies(out2), i < j
        PROVE  out2[i].id < out2[j].id
    <3>1. /\ i + 1 \in Replies(out) /\ out2[i] = out[i + 1]
          /\ j + 1 \in Replies(out) /\ out2[j] = out[j + 1]
      BY <1>1
    <3>2. i + 1 < j + 1
      BY <2>1, <2>2
    <3> QED
      BY <3>1, <3>2 DEF Line, InOrder
  <2>3. /\ \A i \in Replies(out2) : \A m \in cur : out2[i].id < m.id
        /\ \A i \in Replies(out2) : \A j \in Waiting(in) : out2[i].id < in[j].id
    BY <1>1 DEF Line, InOrder
  <2> QED
    BY <2>2, <2>3 DEF Line, InOrder
<1>4. NoneLost(in, cur, out2, n, req)
  <2>1. ASSUME NEW k \in n + 1 .. Len(req)
        PROVE  \/ \E i \in Replies(out2) : out2[i].id = k
               \/ \E m \in cur : m.id = k
               \/ \E i \in Waiting(in) : in[i].id = k
    <3>1. CASE \E i \in Replies(out) : out[i].id = k
      BY <1>1, <3>1
    <3> QED
      BY <2>1, <3>1 DEF Line, NoneLost
  <2> QED
    BY <2>1 DEF NoneLost
<1>5. Line(in, cur, out2, n, req)
  BY <1>2, <1>3, <1>4 DEF Line
<1> QED
  BY <1>5 DEF out2

(* A step that neither takes in, passes on nor answers a user's message. *)
LEMMA ReplyInvSame ==
  ASSUME ReplyInv, UNCHANGED <<inbound, outbound, answers, requests>>,
         Current(worker'["run"]) = Current(worker["run"])
  PROVE  ReplyInv'
  BY DEF ReplyInv

LEMMA TurnKeepsLine ==
  ASSUME TypeInv, KindInv, ReplyInv, NEW w \in Workers, Turn(w)
  PROVE  ReplyInv' /\ UNCHANGED <<requests, answers>>
<1>1. UNCHANGED <<inbound, requests, answers>>
  BY DEF Turn, BeginTurn, CallMessage, ExecuteMessage, CallSpawn, ExecuteSpawn, Spawn, EndTurn, Publish
<1>2. worker \in [Workers -> WorkerStates] /\ "run" \in Workers /\ "cron" \in Workers
  BY Constants DEF TypeInv, WorkerType
<1>3. /\ inbound \in Seq(Inbound) /\ outbound \in Seq(Outbound) /\ requests \in Seq(Registered)
  BY DEF TypeInv, QueueType, HistoryType
<1>4. CASE SilentTurn(w)
  <2>1. UNCHANGED outbound
    BY <1>4 DEF SilentTurn, BeginTurn, CallMessage, ExecuteMessage, CallSpawn, ExecuteSpawn, Spawn, EndTurn
  <2>2. Silent(worker[w], worker'[w]) /\ worker' = [worker EXCEPT ![w] = worker'[w]]
    BY <1>4, SilentTurnEffect
  <2>3. Current(worker'["run"]) = Current(worker["run"])
    <3>1. CASE w = "run"
      BY <2>2, <3>1 DEF Silent, Current
    <3>2. CASE w # "run"
      BY <1>2, <2>2, <3>2
    <3> QED
      BY <3>1, <3>2
  <2> QED
    BY <1>1, <2>1, <2>3, ReplyInvSame
<1>5. CASE Publish(w)
  <2>1. PICK m \in Outbound :
          /\ outbound' = Append(outbound, m)
          /\ Publishes(worker[w], m, worker'[w])
          /\ worker' = [worker EXCEPT ![w] = worker'[w]]
    BY <1>5, PublishEffect
  <2>2. CASE m.kind # "reply" /\ Current(worker'["run"]) = Current(worker["run"])
    <3>1. /\ Replies(Append(outbound, m)) = Replies(outbound)
          /\ \A i \in Replies(outbound) : Append(outbound, m)[i] = outbound[i]
      BY <1>3, <2>2, AppendReplies
    <3>2. Line(inbound, Current(worker["run"]), Append(outbound, m), Len(answers), requests)
      BY <3>1, LineSame DEF ReplyInv
    <3> QED
      BY <1>1, <2>1, <2>2, <3>2 DEF ReplyInv
  <2>3. CASE w = "run" /\ worker[w].at = "finish" /\ worker[w].msg.kind = "user"
    <3> DEFINE msg == worker["run"].msg
    <3>1. m = Message("reply", msg.chat, msg) /\ worker'["run"].at = "idle"
      BY <2>1, <2>3, Constants DEF Publishes
    <3>2. m.kind = "reply" /\ m.id = msg.id /\ m.to = msg.chat
      BY <3>1 DEF Message
    <3>3. Current(worker["run"]) = {msg} /\ Current(worker'["run"]) = {}
      BY <2>3, <3>1 DEF Current
    <3>4. Line(inbound, {msg}, outbound, Len(answers), requests)
      BY <3>3 DEF ReplyInv
    <3> HIDE DEF msg
    <3>5. Line(inbound, {}, Append(outbound, m), Len(answers), requests)
      BY <1>3, <2>1, <3>2, <3>4, LineReply
    <3> QED
      BY <1>1, <2>1, <3>3, <3>5 DEF ReplyInv
  <2>4. CASE w = "run" /\ ~(worker[w].at = "finish" /\ worker[w].msg.kind = "user")
    <3> DEFINE s == worker["run"]
               t == worker'["run"]
    <3>1. /\ m.kind # "reply"
          /\ \/ s.at = "send" /\ t.at = "model" /\ t.msg = s.msg
             \/ /\ s.msg.kind # "user"
                /\ t.at = "idle" \/ t.msg = s.msg
      <4>1. Message("report", s.msg.chat, s.msg).kind = "report"
        BY DEF Message
      <4>2. Publishes(s, m, t) /\ ~(s.at = "finish" /\ s.msg.kind = "user")
        BY <2>1, <2>4
      <4> HIDE DEF s, t
      <4> QED
        BY <4>1, <4>2, Constants DEF Publishes
    <3> HIDE DEF s, t
    <3>2. Current(t) = Current(s)
      BY <3>1 DEF Current
    <3> QED
      BY <2>2, <3>1, <3>2 DEF s, t
  <2>5. CASE w = "cron"
    <3>1. worker["cron"].msg.kind = "job" /\ worker'["run"] = worker["run"]
      BY <1>2, <2>1, <2>5 DEF Publishes, KindInv
    <3>2. m.kind # "reply"
      BY <2>1, <2>5, <3>1 DEF Publishes
    <3> QED
      BY <2>2, <3>1, <3>2
  <2> QED
    BY <1>1, <2>3, <2>4, <2>5, Constants
<1> QED
  BY <1>1, <1>4, <1>5 DEF Turn, SilentTurn

LEMMA DispatchKeepsLine ==
  ASSUME TypeInv, ReplyInv, Dispatch
  PROVE  ReplyInv' /\ (RR!Answer \/ UNCHANGED <<requests, answers>>)
<1> DEFINE n == Len(answers)
           cur == Current(worker["run"])
           msg == Head(outbound)
<1>1. /\ outbound # <<>> /\ outbound' = Tail(outbound) /\ msg \in Outbound
      /\ UNCHANGED <<inbound, worker, requests>>
      /\ answers' = IF msg.to \in Registered /\ msg.kind = "reply"
                    THEN Append(answers, [about |-> msg.id, to |-> msg.to])
                    ELSE answers
  BY DispatchEffect
<1>2. /\ inbound \in Seq(Inbound) /\ outbound \in Seq(Outbound) /\ requests \in Seq(Registered)
      /\ answers \in Seq([about : Nat, to : Registered])
  BY DEF TypeInv, QueueType, HistoryType
<1>3. Line(inbound, cur, outbound, n, requests)
  BY DEF ReplyInv
<1>4. CASE msg.kind = "reply"
  <2>1. /\ \A i \in Waiting(inbound) : inbound[i].id \in Nat
        /\ \A m \in cur : m.id \in Nat
    <3>1. \A m \in Inbound : m.id \in Nat
      BY DEF Inbound
    <3>2. \A i \in Waiting(inbound) : inbound[i] \in Inbound
      BY <1>2 DEF Waiting
    <3>3. \A m \in cur : m \in Inbound
      BY WorkerFacts, Constants DEF Current
    <3> QED
      BY <3>1, <3>2, <3>3
  <2>2. /\ msg.id = n + 1 /\ n < Len(requests) /\ msg.to = requests[n + 1]
        /\ Line(inbound, cur, Tail(outbound), n + 1, requests)
    <3> HIDE DEF cur, n
    <3> QED
      BY <1>1, <1>2, <1>3, <1>4, <2>1, LineDispatch
  <2>3. n \in Nat /\ Len(requests) \in Nat /\ n + 1 \in 1 .. Len(requests)
    <3>1. n \in Nat /\ Len(requests) \in Nat
      BY <1>2, LenProperties
    <3> QED
      BY <2>2, <3>1
  <2>4. msg.to \in Registered
    BY <1>2, <2>2, <2>3
  <2>5. answers' = Append(answers, [about |-> n + 1, to |-> requests[n + 1]])
    BY <1>1, <1>4, <2>2, <2>4
  <2>6. Len(answers') = n + 1
    <3>1. [about |-> n + 1, to |-> requests[n + 1]] \in [about : Nat, to : Registered]
      BY <2>2, <2>3, <2>4
    <3> QED
      BY <1>2, <2>5, <3>1, AppendType
  <2>7. ReplyInv'
    BY <1>1, <2>2, <2>6 DEF ReplyInv
  <2>8. RR!Answer
    BY <1>1, <2>2, <2>5 DEF RR!Answer
  <2> QED
    BY <2>7, <2>8
<1>5. CASE msg.kind # "reply"
  <2>1. answers' = answers
    BY <1>1, <1>5
  <2>2. Line(inbound, cur, Tail(outbound), n, requests)
    <3> HIDE DEF cur, n
    <3> QED
      BY <1>1, <1>2, <1>3, <1>5, LineDispatchOther
  <2> QED
    BY <1>1, <2>1, <2>2 DEF ReplyInv
<1> QED
  BY <1>4, <1>5

LEMMA ReplyStep ==
  TypeInv /\ KindInv /\ ReplyInv /\ [Next]_vars
    => ReplyInv' /\ [RR!Next]_<<requests, answers>>
<1> SUFFICES ASSUME TypeInv, KindInv, ReplyInv, [Next]_vars
             PROVE  ReplyInv' /\ [RR!Next]_<<requests, answers>>
  OBVIOUS
<1>1. worker \in [Workers -> WorkerStates] /\ "run" \in Workers /\ "cron" \in Workers
  BY Constants DEF TypeInv, WorkerType
<1>2. /\ inbound \in Seq(Inbound) /\ outbound \in Seq(Outbound) /\ requests \in Seq(Registered)
  BY DEF TypeInv, QueueType, HistoryType
<1>3. CASE Receive
  <2>1. PICK c \in Registered :
          LET msg == [kind |-> "user", chat |-> c, id |-> Len(requests) + 1]
          IN  /\ requests' = Append(requests, c)
              /\ msg \in Inbound /\ inbound' = Append(inbound, msg)
    BY <1>3, ReceiveEffect
  <2> DEFINE msg == [kind |-> "user", chat |-> c, id |-> Len(requests) + 1]
  <2>2. msg \in Inbound /\ msg.kind = "user" /\ msg.chat = c /\ msg.id = Len(requests) + 1
    BY <2>1
  <2>3. UNCHANGED <<outbound, worker, answers>>
    BY <1>3 DEF Receive
  <2>4. inbound' = Append(inbound, msg)
    BY <2>1
  <2> HIDE DEF msg
  <2>5. Line(Append(inbound, msg), Current(worker["run"]), outbound, Len(answers),
             Append(requests, c))
    BY <1>2, <2>2, LineReceive DEF ReplyInv
  <2>6. ReplyInv'
    BY <2>1, <2>3, <2>4, <2>5 DEF ReplyInv
  <2>7. RR!Request
    BY <2>1, <2>3 DEF RR!Request
  <2> QED
    BY <2>6, <2>7 DEF RR!Next
<1>4. CASE ExecuteJob
  <2>1. worker'["run"] = worker["run"] /\ UNCHANGED <<inbound, outbound, answers, requests>>
    BY <1>1, <1>4, ExecuteJobEffect
  <2> QED
    BY <2>1, ReplyInvSame
<1>5. CASE Consume
  <2>1. /\ inbound # <<>> /\ inbound' = Tail(inbound) /\ UNCHANGED <<outbound, answers, requests>>
        /\ worker["run"].at = "idle"
        /\ worker'["run"].at = "begin" /\ worker'["run"].msg = Head(inbound)
    BY <1>5, ConsumeEffect
  <2>2. /\ Current(worker["run"]) = {}
        /\ Current(worker'["run"]) =
             IF Head(inbound).kind = "user" THEN {Head(inbound)} ELSE {}
    BY <2>1 DEF Current
  <2>3. Line(inbound, {}, outbound, Len(answers), requests)
    BY <2>2 DEF ReplyInv
  <2>4. Line(Tail(inbound), IF Head(inbound).kind = "user" THEN {Head(inbound)} ELSE {},
             outbound, Len(answers), requests)
    BY <1>2, <2>1, <2>3, LineConsume
  <2> QED
    BY <2>1, <2>2, <2>4 DEF ReplyInv
<1>6. ASSUME NEW t \in DOMAIN tasks, Subagent(t)
      PROVE  ReplyInv' /\ UNCHANGED <<requests, answers>>
  <2>1. UNCHANGED <<outbound, worker, requests, answers>>
    BY <1>6 DEF Subagent, TaskDone, Announce
  <2>2. CASE TaskDone(t)
    BY <2>1, <2>2, ReplyInvSame DEF TaskDone
  <2>3. CASE Announce(t)
    <3> DEFINE msg == [kind |-> "system", chat |-> tasks[t].origin, id |-> t]
    <3>1. msg \in Inbound /\ msg.kind # "user" /\ inbound' = Append(inbound, msg)
      BY <2>3, AnnounceEffect
    <3> HIDE DEF msg
    <3>2. /\ Waiting(Append(inbound, msg)) = Waiting(inbound)
          /\ \A i \in Waiting(inbound) : Append(inbound, msg)[i] = inbound[i]
      <4>1. inbound \in Seq(Inbound) /\ msg \in Inbound /\ msg.kind # "user"
        BY <1>2, <3>1
      <4>2. Waiting(Append(inbound, msg)) = Waiting(inbound)
        BY <4>1, AppendWaiting
      <4>3. \A i \in Waiting(inbound) : Append(inbound, msg)[i] = inbound[i]
        BY <4>1, AppendWaiting
      <4> QED
        BY <4>2, <4>3
    <3>3. Line(Append(inbound, msg), Current(worker["run"]), outbound, Len(answers), requests)
      BY <3>2, LineSame DEF ReplyInv
    <3> QED
      BY <2>1, <3>1, <3>3 DEF ReplyInv
  <2> QED
    BY <1>6, <2>1, <2>2, <2>3 DEF Subagent
<1>7. CASE Dispatch
  BY <1>7, DispatchKeepsLine DEF RR!Next
<1>8. CASE UNCHANGED vars
  BY <1>8 DEF vars, ReplyInv
<1> QED
  BY <1>3, <1>4, <1>5, <1>6, <1>7, <1>8, TurnKeepsLine DEF Next, Internal

LEMMA InitLine == Init => ReplyInv /\ RR!Init
<1> SUFFICES ASSUME Init PROVE ReplyInv /\ RR!Init
  OBVIOUS
<1>1. Current(worker["run"]) = {}
  BY Constants DEF Init, Current
<1>2. inbound = <<>> /\ outbound = <<>> /\ Len(answers) = 0 /\ Len(requests) = 0
  BY EmptySeq DEF Init
<1>3. Waiting(<<>>) = {} /\ Replies(<<>>) = {}
  BY EmptySeq DEF Waiting, Replies
<1>4. Line(<<>>, {}, <<>>, 0, requests)
  BY <1>2, <1>3 DEF Line, Unanswered, InOrder, NoneLost
<1> QED
  BY <1>1, <1>2, <1>4 DEF ReplyInv, RR!Init, Init

LEMMA KindInvariance == Spec => []KindInv
<1>1. Init => KindInv
  BY InitType
<1> QED
  BY <1>1, TypeInvariance, KindStep, PTL DEF Spec

(* The pipeline implements RequestReply: whatever turns, tools, subagents, *)
(* jobs and full queues put in between, the users' messages are answered   *)
(* in the order they were taken in, each once and in its own chat.         *)
THEOREM AnswersInOrder == Spec => RepliesInOrder
<1>1. Init => RR!Init /\ ReplyInv
  BY InitLine
<1>2. Spec => RR!Init /\ [][RR!Next]_<<requests, answers>>
  BY <1>1, TypeInvariance, KindInvariance, ReplyStep, PTL DEF Spec
<1> QED
  BY <1>2 DEF RepliesInOrder, RR!Spec

-----------------------------------------------------------------------------
(* Where the reports of subagents are.                                     *)

(* The positions of announcements in the inbound and of reports in the     *)
(* outbound queue.                                                         *)
Announced(in) == {i \in DOMAIN in : in[i].kind = "system"}
Reports(out) == {i \in DOMAIN out : out[i].kind = "report"}

(* A task that is done is in one place at most: announced in the inbound   *)
(* queue, about to be reported by the turn of Run (cur), in the outbound   *)
(* queue, or reported; a task that is not done is nowhere.                 *)
InOnePlace(in, cur, out, rep) ==
    /\ \A i, j \in Announced(in) : i # j => in[i].id # in[j].id
    /\ \A i, j \in Reports(out) : i # j => out[i].id # out[j].id
    /\ \A i \in Announced(in) : in[i].id \notin cur \cup rep
    /\ \A i \in Reports(out) : out[i].id \notin cur \cup rep
    /\ \A i \in Announced(in) : \A j \in Reports(out) : in[i].id # out[j].id
    /\ cur \cap rep = {}

OfDone(in, cur, out, rep, done) ==
    /\ \A i \in Announced(in) : in[i].id \in done
    /\ \A i \in Reports(out) : out[i].id \in done
    /\ cur \subseteq done /\ rep \subseteq done

Once(in, cur, out, rep, done) == InOnePlace(in, cur, out, rep) /\ OfDone(in, cur, out, rep, done)

DoneTasks == {t \in DOMAIN tasks : tasks[t].status = "done"}

(* The subagent the turn of Run has to report yet. *)
ToReport(s) ==
    IF s.at # "idle" /\ s.msg.kind = "system" /\ (s.at = "finish" => Len(s.out) = 2)
    THEN {s.msg.id} ELSE {}

(* The second copy of a response is addressed to the channel "system". *)
ReportInv ==
    /\ Once(inbound, ToReport(worker["run"]), outbound, reported, DoneTasks)
    /\ \A i \in DOMAIN outbound : outbound[i].kind = "echo" => outbound[i].to = System

LEMMA OnceSame ==
  ASSUME NEW in, NEW in2, NEW cur, NEW cur2, NEW out, NEW out2, NEW rep, NEW done, NEW done2,
         Once(in, cur, out, rep, done),
         Announced(in2) = Announced(in), \A i \in Announced(in) : in2[i] = in[i],
         Reports(out2) = Reports(out), \A i \in Reports(out) : out2[i] = out[i],
         cur2 \subseteq cur, done \subseteq done2
  PROVE  Once(in2, cur2, out2, rep, done2)
<1>1. InOnePlace(in2, cur2, out2, rep)
  BY DEF Once, InOnePlace
<1>2. OfDone(in2, cur2, out2, rep, done2)
  BY DEF Once, OfDone
<1> QED
  BY <1>1, <1>2 DEF Once

LEMMA AppendAnnounced ==
  ASSUME NEW in \in Seq(Inbound), NEW m \in Inbound
  PROVE  LET in2 == Append(in, m)
         IN  /\ \A i \in Announced(in) : in2[i] = in[i]
             /\ \A i \in Announced(in) : i # Len(in) + 1
             /\ in2[Len(in) + 1] = m
             /\ m.kind = "system" => Announced(in2) = Announced(in) \cup {Len(in) + 1}
             /\ m.kind # "system" => Announced(in2) = Announced(in)
  BY AppendType DEF Announced

LEMMA AppendReports ==
  ASSUME NEW out \in Seq(Outbound), NEW m \in Outbound
  PROVE  LET out2 == Append(out, m)
         IN  /\ \A i \in Reports(out) : out2[i] = out[i]
             /\ \A i \in Reports(out) : i # Len(out) + 1
             /\ out2[Len(out) + 1] = m
             /\ m.kind = "report" => Reports(out2) = Reports(out) \cup {Len(out) + 1}
             /\ m.kind # "report" => Reports(out2) = Reports(out)
  BY AppendType DEF Reports

LEMMA TailAnnounced ==
  ASSUME NEW in \in Seq(Inbound), in # <<>>
  PROVE  /\ \A i \in Announced(Tail(in)) : i + 1 \in Announced(in) \ {1} /\ Tail(in)[i] = in[i + 1]
         /\ \A i, j \in Announced(Tail(in)) : i # j => i + 1 # j + 1
         /\ Head(in) = in[1] /\ (1 \in Announced(in) <=> Head(in).kind = "system")
<1>1. /\ Head(in) = in[1] /\ 1 \in DOMAIN in /\ Len(in) \in Nat
      /\ DOMAIN in = 1 .. Len(in) /\ DOMAIN Tail(in) = 1 .. Len(in) - 1
      /\ \A i \in DOMAIN Tail(in) : i + 1 \in DOMAIN in /\ Tail(in)[i] = in[i + 1]
  BY TailType, LenProperties
<1>2. /\ \A i \in DOMAIN Tail(in) : i + 1 # 1
      /\ \A i, j \in DOMAIN Tail(in) : i # j => i + 1 # j + 1
  BY <1>1
<1> QED
  BY <1>1, <1>2 DEF Announced

LEMMA TailReports ==
  ASSUME NEW out \in Seq(Outbound), out # <<>>
  PROVE  /\ \A i \in Reports(Tail(out)) : i + 1 \in Reports(out) \ {1} /\ Tail(out)[i] = out[i + 1]
         /\ \A i, j \in Reports(Tail(out)) : i # j => i + 1 # j + 1
         /\ Head(out) = out[1] /\ (1 \in Reports(out) <=> Head(out).kind = "report")
<1>1. /\ Head(out) = out[1] /\ 1 \in DOMAIN out /\ Len(out) \in Nat
      /\ DOMAIN out = 1 .. Len(out) /\ DOMAIN Tail(out) = 1 .. Len(out) - 1
      /\ \A i \in DOMAIN Tail(out) : i + 1 \in DOMAIN out /\ Tail(out)[i] = out[i + 1]
  BY TailType, LenProperties
<1>2. /\ \A i \in DOMAIN Tail(out) : i + 1 # 1
      /\ \A i, j \in DOMAIN Tail(out) : i # j => i + 1 # j + 1
  BY <1>1
<1> QED
  BY <1>1, <1>2 DEF Reports

(* A task is announced when it ends, which it does once. *)
LEMMA OnceAnnounce ==
  ASSUME NEW in \in Seq(Inbound), NEW cur, NEW out, NEW rep, NEW done, NEW m \in Inbound,
         Once(in, cur, out, rep, done), m.kind = "system", m.id \notin done
  PROVE  Once(Append(in, m), cur, out, rep, done \cup {m.id})
<1> DEFINE in2 == Append(in, m)
           last == Len(in) + 1
<1>1. /\ \A i \in Announced(in) : in2[i] = in[i] /\ i # last
      /\ in2[last] = m /\ Announced(in2) = Announced(in) \cup {last}
  <2>1. \A i \in Announced(in) : in2[i] = in[i]
    BY AppendAnnounced
  <2>2. \A i \in Announced(in) : i # last
    BY AppendAnnounced
  <2>3. in2[last] = m /\ Announced(in2) = Announced(in) \cup {last}
    BY AppendAnnounced
  <2> HIDE DEF in2, last
  <2> QED
    BY <2>1, <2>2, <2>3
<1> HIDE DEF in2, last
<1>2. /\ InOnePlace(in, cur, out, rep) /\ OfDone(in, cur, out, rep, done)
      /\ \A i \in Announced(in) : in[i].id # m.id
      /\ \A i \in Reports(out) : out[i].id # m.id
      /\ m.id \notin cur \cup rep
  BY DEF Once, OfDone
<1>3. InOnePlace(in2, cur, out, rep)
  <2>1. \A i, j \in Announced(in2) : i # j => in2[i].id # in2[j].id
    BY <1>1, <1>2 DEF InOnePlace
  <2>2. \A i \in Announced(in2) : in2[i].id \notin cur \cup rep
    BY <1>1, <1>2 DEF InOnePlace
  <2>3. \A i \in Announced(in2) : \A j \in Reports(out) : in2[i].id # out[j].id
    BY <1>1, <1>2 DEF InOnePlace
  <2> QED
    BY <1>2, <2>1, <2>2, <2>3 DEF InOnePlace
<1>4. OfDone(in2, cur, out, rep, done \cup {m.id})
  BY <1>1, <1>2 DEF OfDone
<1>5. Once(in2, cur, out, rep, done \cup {m.id})
  BY <1>3, <1>4 DEF Once
<1> QED
  BY <1>5 DEF in2

(* Run takes a message; if it is an announcement, that task is its own. *)
LEMMA OnceConsume ==
  ASSUME NEW in \in Seq(Inbound), in # <<>>, NEW cur, NEW out, NEW rep, NEW done,
         Once(in, {}, out, rep, done),
         cur \subseteq {Head(in).id}, cur # {} => Head(in).kind = "system"
  PROVE  Once(Tail(in), cur, out, rep, done)
<1> DEFINE in2 == Tail(in)
<1>1. /\ \A i \in Announced(in2) : i + 1 \in Announced(in) \ {1} /\ in2[i] = in[i + 1]
      /\ \A i, j \in Announced(in2) : i # j => i + 1 # j + 1
      /\ Head(in) = in[1] /\ (1 \in Announced(in) <=> Head(in).kind = "system")
  BY TailAnnounced
<1> HIDE DEF in2
<1>2. \A c \in cur : c = in[1].id /\ 1 \in Announced(in)
  BY <1>1
<1>3. InOnePlace(in, {}, out, rep) /\ OfDone(in, {}, out, rep, done)
  BY DEF Once
<1>4. InOnePlace(in2, cur, out, rep)
  <2>1. \A i, j \in Announced(in2) : i # j => in2[i].id # in2[j].id
    BY <1>1, <1>3 DEF InOnePlace
  <2>2. \A i \in Announced(in2) : in2[i].id \notin cur \cup rep
    BY <1>1, <1>2, <1>3 DEF InOnePlace
  <2>3. \A i \in Announced(in2) : \A j \in Reports(out) : in2[i].id # out[j].id
    BY <1>1, <1>3 DEF InOnePlace
  <2>4. \A i \in Reports(out) : out[i].id \notin cur \cup rep
    BY <1>2, <1>3 DEF InOnePlace
  <2>5. cur \cap rep = {}
    BY <1>2, <1>3 DEF InOnePlace
  <2> QED
    BY <1>3, <2>1, <2>2, <2>3, <2>4, <2>5 DEF InOnePlace
<1>5. OfDone(in2, cur, out, rep, done)
  BY <1>1, <1>2, <1>3 DEF OfDone
<1>6. Once(in2, cur, out, rep, done)
  BY <1>4, <1>5 DEF Once
<1> QED
  BY <1>6 DEF in2

(* The report moves from the turn to the outbound queue. *)
LEMMA OnceReport ==
  ASSUME NEW in, NEW out \in Seq(Outbound), NEW rep, NEW done, NEW m \in Outbound,
         Once(in, {m.id}, out, rep, done), m.kind = "report"
  PROVE  Once(in, {}, Append(out, m), rep, done)
<1> DEFINE out2 == Append(out, m)
           last == Len(out) + 1
<1>1. /\ \A i \in Reports(out) : out2[i] = out[i] /\ i # last
      /\ out2[last] = m /\ Reports(out2) = Reports(out) \cup {last}
  <2>1. \A i \in Reports(out) : out2[i] = out[i]
    BY AppendReports
  <2>2. \A i \in Reports(out) : i # last
    BY AppendReports
  <2>3. out2[last] = m /\ Reports(out2) = Reports(out) \cup {last}
    BY AppendReports
  <2> HIDE DEF out2, last
  <2> QED
    BY <2>1, <2>2, <2>3
<1> HIDE DEF out2, last
<1>2. /\ InOnePlace(in, {m.id}, out, rep) /\ OfDone(in, {m.id}, out, rep, done)
  BY DEF Once
<1>3. InOnePlace(in, {}, out2, rep)
  <2>1. \A i, j \in Reports(out2) : i # j => out2[i].id # out2[j].id
    BY <1>1, <1>2 DEF InOnePlace
  <2>2. \A i \in Reports(out2) : out2[i].id \notin rep
    BY <1>1, <1>2 DEF InOnePlace
  <2>3. \A i \in Announced(in) : \A j \in Reports(out2) : in[i].id # out2[j].id
    BY <1>1, <1>2 DEF InOnePlace
  <2> QED
    BY <1>2, <2>1, <2>2, <2>3 DEF InOnePlace
<1>4. OfDone(in, {}, out2, rep, done)
  BY <1>1, <1>2 DEF OfDone
<1>5. Once(in, {}, out2, rep, done)
  BY <1>3, <1>4 DEF Once
<1> QED
  BY <1>5 DEF out2

(* The dispatcher takes a message; if it is a report, that task may be     *)
(* reported now.                                                           *)
LEMMA OnceDispatch ==
  ASSUME NEW in, NEW cur, NEW out \in Seq(Outbound), out # <<>>, NEW rep, NEW done, NEW new,
         Once(in, cur, out, rep, done),
         new \subseteq {Head(out).id}, new # {} => Head(out).kind = "report"
  PROVE  Once(in, cur, Tail(out), rep \cup new, done)
<1> DEFINE out2 == Tail(out)
<1>1. /\ \A i \in Reports(out2) : i + 1 \in Reports(out) \ {1} /\ out2[i] = out[i + 1]
      /\ \A i, j \in Reports(out2) : i # j => i + 1 # j + 1
      /\ Head(out) = out[1] /\ (1 \in Reports(out) <=> Head(out).kind = "report")
  BY TailReports
<1> HIDE DEF out2
<1>2. \A c \in new : c = out[1].id /\ 1 \in Reports(out)
  BY <1>1
<1>3. InOnePlace(in, cur, out, rep) /\ OfDone(in, cur, out, rep, done)
  BY DEF Once
<1>4. InOnePlace(in, cur, out2, rep \cup new)
  <2>1. \A i, j \in Reports(out2) : i # j => out2[i].id # out2[j].id
    BY <1>1, <1>3 DEF InOnePlace
  <2>2. \A i \in Reports(out2) : out2[i].id \notin cur \cup (rep \cup new)
    BY <1>1, <1>2, <1>3 DEF InOnePlace
  <2>3. \A i \in Announced(in) : \A j \in Reports(out2) : in[i].id # out2[j].id
    BY <1>1, <1>3 DEF InOnePlace
  <2>4. \A i \in Announced(in) : in[i].id \notin cur \cup (rep \cup new)
    BY <1>2, <1>3 DEF InOnePlace
  <2>5. cur \cap (rep \cup new) = {}
    BY <1>2, <1>3 DEF InOnePlace
  <2> QED
    BY <1>3, <2>1, <2>2, <2>3, <2>4, <2>5 DEF InOnePlace
<1>5. OfDone(in, cur, out2, rep \cup new, done)
  BY <1>1, <1>2, <1>3 DEF OfDone
<1>6. Once(in, cur, out2, rep \cup new, done)
  BY <1>4, <1>5 DEF Once
<1> QED
  BY <1>6 DEF out2

(* What a step of its turn leaves Run to report. *)
LEMMA SilentToReport ==
  ASSUME NEW s, NEW t, Silent(s, t)
  PROVE  ToReport(t) \subseteq ToReport(s)
  BY DEF Silent, ToReport

LEMMA PublishToReport ==
  ASSUME NEW s, NEW m, NEW t, Publishes(s, m, t)
  PROVE  /\ \/ m.kind = "report" /\ ToReport(s) = {m.id} /\ ToReport(t) = {}
            \/ m.kind # "report" /\ ToReport(t) \subseteq ToReport(s)
         /\ m.kind = "echo" => m.to = System
<1>1. CASE s.at = "send"
  BY <1>1 DEF Publishes, ToReport
<1>2. CASE s.at = "finish" /\ s.msg.kind = "user"
  <2>1. t.at = "idle" /\ m.kind = "reply"
    BY <1>2, Constants DEF Publishes, Message
  <2> QED
    BY <2>1 DEF ToReport
<1>3. CASE s.at = "finish" /\ s.msg.kind = "job"
  <2>1. t.at = "idle" /\ m.kind = "job"
    BY <1>3, Constants DEF Publishes
  <2> QED
    BY <2>1 DEF ToReport
<1>4. CASE s.at = "finish" /\ s.msg.kind = "system"
  <2>1. CASE m.kind = "echo"
    <3>1. t.at = "idle" /\ m.to = System
      BY <1>4, <2>1, Constants DEF Publishes, Message
    <3> QED
      BY <2>1, <3>1 DEF ToReport
  <2>2. CASE m.kind # "echo"
    <3>1. /\ Len(s.out) = 2 /\ m.kind = "report" /\ m.id = s.msg.id
          /\ t.at = "finish" /\ t.out = <<Message("echo", System, s.msg)>>
      BY <1>4, <2>2 DEF Publishes, Message
    <3>2. Len(t.out) # 2
      BY <3>1
    <3> QED
      BY <1>4, <3>1, <3>2 DEF ToReport
  <2> QED
    BY <2>1, <2>2
<1> QED
  BY <1>1, <1>2, <1>3, <1>4 DEF Publishes

LEMMA DoneTasksIds ==
  ASSUME TypeInv, NEW t \in DOMAIN tasks, NEW status \in {"announcing", "done"},
         tasks[t].status # "done", tasks' = [tasks EXCEPT ![t].status = status]
  PROVE  DoneTasks' = IF status = "done" THEN DoneTasks \cup {t} ELSE DoneTasks
  BY SetStatus DEF DoneTasks

LEMMA TurnReports ==
  ASSUME TypeInv, KindInv, ReportInv, NEW w \in Workers, Turn(w)
  PROVE  ReportInv'
<1>1. UNCHANGED <<inbound, reported>>
  BY DEF Turn, BeginTurn, CallMessage, ExecuteMessage, CallSpawn, ExecuteSpawn, Spawn, EndTurn, Publish
<1>2. worker \in [Workers -> WorkerStates] /\ "run" \in Workers /\ "cron" \in Workers
  BY Constants DEF TypeInv, WorkerType
<1>3. outbound \in Seq(Outbound)
  BY DEF TypeInv, QueueType
<1> DEFINE cur == ToReport(worker["run"])
           next == ToReport(worker'["run"])
<1>4. CASE SilentTurn(w)
  <2>1. UNCHANGED outbound
    BY <1>4 DEF SilentTurn, BeginTurn, CallMessage, ExecuteMessage, CallSpawn, ExecuteSpawn, Spawn, EndTurn
  <2>2. Silent(worker[w], worker'[w]) /\ worker' = [worker EXCEPT ![w] = worker'[w]]
    BY <1>4, SilentTurnEffect
  <2>3. next \subseteq cur
    <3>1. CASE w = "run"
      BY <2>2, <3>1, SilentToReport
    <3>2. CASE w # "run"
      <4>1. worker'["run"] = worker["run"]
        BY <1>2, <2>2, <3>2
      <4> QED
        BY <4>1
    <3> QED
      BY <3>1, <3>2
  <2>4. DoneTasks \subseteq DoneTasks'
    <3>1. CASE Spawn(w)
      <4> DEFINE task == [status |-> "running", origin |-> worker[w].origin]
      <4>1. worker[w].origin \in Chats
        BY <3>1, WorkerFacts DEF Spawn, WorkerOK
      <4>2. task \in TaskRecords
        BY <4>1 DEF TaskRecords
      <4>3. tasks' = Append(tasks, task)
        BY <3>1 DEF Spawn
      <4> HIDE DEF task
      <4>4. /\ \A t \in DOMAIN tasks : t \in DOMAIN tasks' /\ tasks'[t] = tasks[t]
        BY <4>2, <4>3, TaskFacts, AppendType
      <4> QED
        BY <4>4 DEF DoneTasks
    <3>2. CASE ~Spawn(w)
      <4>1. UNCHANGED tasks
        BY <1>4, <3>2 DEF SilentTurn, BeginTurn, CallMessage, ExecuteMessage, CallSpawn, ExecuteSpawn, EndTurn
      <4> QED
        BY <4>1 DEF DoneTasks
    <3> QED
      BY <3>1, <3>2
  <2> HIDE DEF cur, next
  <2>5. Once(inbound, next, outbound, reported, DoneTasks')
    <3>1. Once(inbound, cur, outbound, reported, DoneTasks)
      BY DEF ReportInv, cur
    <3> QED
      BY <2>3, <2>4, <3>1, OnceSame
  <2> QED
    BY <1>1, <2>1, <2>5 DEF ReportInv, next
<1>5. CASE Publish(w)
  <2>1. PICK m \in Outbound :
          /\ outbound' = Append(outbound, m)
          /\ Publishes(worker[w], m, worker'[w])
          /\ worker' = [worker EXCEPT ![w] = worker'[w]]
    BY <1>5, PublishEffect
  <2>2. DoneTasks' = DoneTasks
    BY <1>5 DEF Publish, DoneTasks
  <2>3. Once(inbound, cur, outbound, reported, DoneTasks)
    BY DEF ReportInv
  <2>4. \/ m.kind = "report" /\ cur = {m.id} /\ next = {}
        \/ m.kind # "report" /\ next \subseteq cur
    <3>1. CASE w = "run"
      BY <2>1, <3>1, PublishToReport
    <3>2. CASE w # "run"
      <4>1. w = "cron" /\ worker'["run"] = worker["run"]
        BY <1>2, <2>1, <3>2, Constants
      <4>2. worker["cron"].msg.kind = "job"
        BY <2>1, <4>1 DEF KindInv, Publishes
      <4>3. m.kind # "report"
        BY <2>1, <4>1, <4>2 DEF Publishes
      <4> QED
        BY <4>1, <4>3
    <3> QED
      BY <3>1, <3>2
  <2> HIDE DEF cur, next
  <2>5. Once(inbound, next, Append(outbound, m), reported, DoneTasks)
    <3>1. CASE m.kind = "report" /\ cur = {m.id} /\ next = {}
      BY <1>3, <2>3, <3>1, OnceReport
    <3>2. CASE m.kind # "report" /\ next \subseteq cur
      <4>1. Reports(Append(outbound, m)) = Reports(outbound)
        BY <1>3, <3>2, AppendReports
      <4>2. \A i \in Reports(outbound) : Append(outbound, m)[i] = outbound[i]
        BY <1>3, <3>2, AppendReports
      <4> QED
        BY <2>3, <3>2, <4>1, <4>2, OnceSame
    <3> QED
      BY <2>4, <3>1, <3>2
  <2>6. \A i \in DOMAIN outbound' : outbound'[i].kind = "echo" => outbound'[i].to = System
    <3>1. m.kind = "echo" => m.to = System
      BY <2>1, PublishToReport
    <3>2. /\ DOMAIN outbound' = 1 .. Len(outbound) + 1 /\ outbound'[Len(outbound) + 1] = m
          /\ DOMAIN outbound = 1 .. Len(outbound) /\ Len(outbound) \in Nat
          /\ \A i \in DOMAIN outbound : outbound'[i] = outbound[i]
      BY <1>3, <2>1, AppendType
    <3> QED
      BY <3>1, <3>2 DEF ReportInv
  <2> QED
    BY <1>1, <2>1, <2>2, <2>5, <2>6 DEF ReportInv, next
<1> QED
  BY <1>4, <1>5 DEF Turn, SilentTurn

LEMMA ReportStep == TypeInv /\ KindInv /\ ReportInv /\ [Next]_vars => ReportInv'
<1> SUFFICES ASSUME TypeInv, KindInv, ReportInv, [Next]_vars PROVE ReportInv'
  OBVIOUS
<1> DEFINE cur == ToReport(worker["run"])
<1>1. worker \in [Workers -> WorkerStates] /\ "run" \in Workers /\ "cron" \in Workers
  BY Constants DEF TypeInv, WorkerType
<1>2. inbound \in Seq(Inbound) /\ outbound \in Seq(Outbound)
  BY DEF TypeInv, QueueType
<1>3. Once(inbound, cur, outbound, reported, DoneTasks)
  BY DEF ReportInv
<1>4. CASE Receive
  <2>1. PICK c \in Registered :
          LET msg == [kind |-> "user", chat |-> c, id |-> Len(requests) + 1]
          IN  msg \in Inbound /\ inbound' = Append(inbound, msg)
    BY <1>4, ReceiveEffect
  <2> DEFINE msg == [kind |-> "user", chat |-> c, id |-> Len(requests) + 1]
  <2>2. msg \in Inbound /\ msg.kind # "system" /\ inbound' = Append(inbound, msg)
    BY <2>1
  <2>3. UNCHANGED <<outbound, worker, tasks, reported>>
    BY <1>4 DEF Receive
  <2> HIDE DEF msg
  <2>4. Announced(Append(inbound, msg)) = Announced(inbound)
    BY <1>2, <2>2, AppendAnnounced
  <2>5. \A i \in Announced(inbound) : Append(inbound, msg)[i] = inbound[i]
    BY <1>2, <2>2, AppendAnnounced
  <2>6. Once(Append(inbound, msg), cur, outbound, reported, DoneTasks)
    BY <1>3, <2>4, <2>5, OnceSame
  <2> QED
    BY <2>2, <2>3, <2>6 DEF ReportInv, DoneTasks
<1>5. CASE ExecuteJob
  <2>1. worker'["run"] = worker["run"] /\ UNCHANGED <<inbound, outbound, tasks, reported>>
    BY <1>1, <1>5, ExecuteJobEffect
  <2> QED
    BY <2>1 DEF ReportInv, DoneTasks
<1>6. CASE Consume
  <2>1. /\ inbound # <<>> /\ inbound' = Tail(inbound) /\ UNCHANGED <<outbound, tasks, reported>>
        /\ worker["run"].at = "idle"
        /\ worker'["run"].at = "begin" /\ worker'["run"].msg = Head(inbound)
    BY <1>6, ConsumeEffect
  <2>2. cur = {}
    BY <2>1 DEF ToReport
  <2>3. /\ ToReport(worker'["run"]) \subseteq {Head(inbound).id}
        /\ ToReport(worker'["run"]) # {} => Head(inbound).kind = "system"
    BY <2>1 DEF ToReport
  <2>4. Once(Tail(inbound), ToReport(worker'["run"]), outbound, reported, DoneTasks)
    BY <1>2, <1>3, <2>1, <2>2, <2>3, OnceConsume
  <2> QED
    BY <2>1, <2>4 DEF ReportInv, DoneTasks
<1>7. ASSUME NEW t \in DOMAIN tasks, Subagent(t) PROVE ReportInv'
  <2>1. UNCHANGED <<outbound, worker, reported>>
    BY <1>7 DEF Subagent, TaskDone, Announce
  <2>2. CASE TaskDone(t)
    <3>1. UNCHANGED inbound /\ tasks[t].status # "done"
          /\ tasks' = [tasks EXCEPT ![t].status = "announcing"]
      BY <2>2 DEF TaskDone
    <3>2. DoneTasks' = DoneTasks
      BY <3>1, DoneTasksIds
    <3> QED
      BY <2>1, <3>1, <3>2 DEF ReportInv
  <2>3. CASE Announce(t)
    <3> DEFINE msg == [kind |-> "system", chat |-> tasks[t].origin, id |-> t]
    <3>1. /\ msg \in Inbound /\ msg.kind = "system" /\ msg.id = t
          /\ inbound' = Append(inbound, msg)
      BY <2>3, AnnounceEffect
    <3>2. tasks[t].status # "done" /\ tasks' = [tasks EXCEPT ![t].status = "done"]
      BY <2>3 DEF Announce
    <3>3. DoneTasks' = DoneTasks \cup {t} /\ t \notin DoneTasks
      BY <3>2, DoneTasksIds DEF DoneTasks
    <3> HIDE DEF msg
    <3>4. Once(Append(inbound, msg), cur, outbound, reported, DoneTasks \cup {msg.id})
      BY <1>2, <1>3, <3>1, <3>3, OnceAnnounce
    <3> QED
      BY <2>1, <3>1, <3>3, <3>4 DEF ReportInv
  <2> QED
    BY <1>7, <2>2, <2>3 DEF Subagent
<1>8. CASE Dispatch
  <2> DEFINE msg == Head(outbound)
             new == IF msg.to \in Registered /\ msg.kind \in {"report", "echo"} THEN {msg.id} ELSE {}
  <2>1. /\ outbound # <<>> /\ outbound' = Tail(outbound)
        /\ UNCHANGED <<inbound, worker, tasks>>
        /\ reported' = reported \cup new
    BY <1>8, DispatchEffect
  <2>2. \A i \in DOMAIN Tail(outbound) : i + 1 \in DOMAIN outbound /\ Tail(outbound)[i] = outbound[i + 1]
    BY <1>2, <2>1, TailType
  <2>3. msg.kind = "echo" => msg.to = System
    <3>1. msg = outbound[1] /\ 1 \in DOMAIN outbound
      BY <1>2, <2>1, TailType
    <3> QED
      BY <3>1 DEF ReportInv
  <2>4. new \subseteq {msg.id} /\ (new # {} => msg.kind = "report")
    BY <2>3, PipelineAssumption
  <2> HIDE DEF new
  <2>5. Once(inbound, cur, Tail(outbound), reported \cup new, DoneTasks)
    BY <1>2, <1>3, <2>1, <2>4, OnceDispatch
  <2> QED
    BY <2>1, <2>2, <2>5 DEF ReportInv, DoneTasks
<1>9. CASE UNCHANGED vars
  BY <1>9 DEF vars, ReportInv, DoneTasks
<1> QED
  BY <1>4, <1>5, <1>6, <1>7, <1>8, <1>9, TurnReports DEF Next, Internal

LEMMA InitReport == Init => ReportInv
<1> SUFFICES ASSUME Init PROVE ReportInv
  OBVIOUS
<1>1. ToReport(worker["run"]) = {}
  BY Constants DEF Init, ToReport
<1>2. inbound = <<>> /\ outbound = <<>> /\ reported = {}
  BY DEF Init
<1>3. Announced(<<>>) = {} /\ Reports(<<>>) = {} /\ DOMAIN <<>> = {}
  BY EmptySeq DEF Announced, Reports
<1>4. Once(<<>>, {}, <<>>, {}, DoneTasks)
  BY <1>3 DEF Once, InOnePlace, OfDone
<1> QED
  BY <1>1, <1>2, <1>3, <1>4 DEF ReportInv

(* What the dispatcher is about to send has not been reported. *)
LEMMA ReportOnceStep ==
  ASSUME TypeInv, ReportInv, outbound # <<>>,
         Head(outbound).kind \in {"report", "echo"}, Head(outbound).to \in Registered
  PROVE  Head(outbound).id \notin reported
<1>1. Head(outbound) = outbound[1] /\ 1 \in DOMAIN outbound
  BY TailType DEF TypeInv, QueueType
<1>2. 1 \in Reports(outbound)
  BY <1>1, PipelineAssumption DEF ReportInv, Reports
<1> QED
  BY <1>1, <1>2 DEF ReportInv, Once, InOnePlace

(* A subagent's report reaches its chat at most once, although both        *)
(* runAgentLoop and Run publish the response (loop.go): the second copy    *)
(* carries the channel "system", and a task is announced once.             *)
THEOREM ReportsAtMostOnce == Spec => ReportedOnce
<1> DEFINE Fresh == outbound # <<>> /\ outbound' = Tail(outbound)
                      /\ Head(outbound).kind \in {"report", "echo"} /\ Head(outbound).to \in Registered
                    => Head(outbound).id \notin reported
<1>1. TypeInv /\ ReportInv => Fresh
  BY ReportOnceStep
<1>2. Spec => []ReportInv
  BY InitReport, TypeInvariance, KindInvariance, ReportStep, PTL DEF Spec
<1>3. Spec => [][Fresh]_vars
  BY <1>1, <1>2, TypeInvariance, PTL
<1> QED
  BY <1>3 DEF ReportedOnce

-----------------------------------------------------------------------------
(* Who can go on.                                                          *)

(* The guards of Turn, Subagent and Internal. *)
TurnCanGoOn(w) ==
    \/ worker[w].at \in {"begin", "model", "message", "spawn"}
    \/ worker[w].at = "lock" /\ lock = Free
    \/ worker[w].at \in {"send", "finish"} /\ Len(outbound) < OutCap

SubagentCanGoOn(t) ==
    \/ tasks[t].status = "running" /\ lock = Free
    \/ tasks[t].status = "announcing" /\ Len(inbound) < InCap

CanGoOn ==
    \/ worker["run"].at = "idle" /\ inbound # <<>>
    \/ \E w \in Workers : TurnCanGoOn(w)
    \/ \E t \in DOMAIN tasks : SubagentCanGoOn(t)
    \/ outbound # <<>>

LEMMA SomeoneGoesOn == TypeInv => CanGoOn \/ Quiescent \/ SpawnCycle
<1> SUFFICES ASSUME TypeInv, ~CanGoOn, ~SpawnCycle PROVE Quiescent
  OBVIOUS
<1>1. outbound = <<>> /\ Len(outbound) < OutCap
  <2>1. outbound = <<>>
    BY DEF CanGoOn
  <2> QED
    BY <2>1, EmptySeq, PipelineAssumption
<1>2. ASSUME NEW w \in Workers
      PROVE  worker[w].at = "idle" \/ (worker[w].at = "lock" /\ lock # Free)
  <2>1. worker[w].at \in Places
    BY WorkerFacts DEF WorkerStates
  <2>2. ~TurnCanGoOn(w)
    BY DEF CanGoOn
  <2> QED
    BY <1>1, <2>1, <2>2 DEF Places, TurnCanGoOn
<1>3. /\ Len(inbound) \in Nat /\ Len(inbound) <= InCap /\ InCap \in Nat \ {0}
      /\ inbound = <<>> => Len(inbound) = 0
  BY LenProperties, EmptySeq, PipelineAssumption DEF TypeInv, QueueType
<1>4. /\ worker["run"].at = "idle" => inbound = <<>>
      /\ \A t \in DOMAIN tasks : ~SubagentCanGoOn(t)
  BY DEF CanGoOn
<1>5. lock = Free
  <2> SUFFICES ASSUME lock # Free PROVE FALSE
    OBVIOUS
  <2>1. lock \in DOMAIN tasks /\ tasks[lock].status = "announcing"
    BY DEF TypeInv, TaskType
  <2>2. Len(inbound) = InCap
    BY <1>3, <1>4, <2>1 DEF SubagentCanGoOn
  <2>3. worker["run"].at # "idle"
    BY <1>3, <1>4, <2>2
  <2>4. worker["run"].at = "lock"
    BY <1>2, <2>3, Constants
  <2> QED
    BY <2>2, <2>4 DEF SpawnCycle
<1>6. \A w \in Workers : worker[w].at = "idle"
  BY <1>2, <1>5
<1>7. \A t \in DOMAIN tasks : tasks[t].status = "done"
  <2>1. ASSUME NEW t \in DOMAIN tasks PROVE tasks[t].status = "done"
    <3>1. tasks[t] \in TaskRecords /\ t # Free
      BY TaskFacts, Constants
    <3>2. tasks[t].status \in {"running", "announcing", "done"}
      BY <3>1 DEF TaskRecords
    <3>3. tasks[t].status # "announcing"
      BY <1>5, <3>1 DEF TypeInv, TaskType
    <3> QED
      BY <1>4, <1>5, <3>2, <3>3 DEF SubagentCanGoOn
  <2> QED
    BY <2>1
<1> QED
  BY <1>1, <1>4, <1>6, <1>7, Constants DEF Quiescent

(* The goroutines never all wait for each other, for room in a queue or    *)
(* for the subagent manager's lock, except in the spawn cycle: otherwise   *)
(* one of them can go on, or there is nothing left to do.                  *)
THEOREM GoroutinesGoOn == Spec => [](CanGoOn \/ Quiescent \/ SpawnCycle)
  BY SomeoneGoesOn, TypeInvariance, PTL

-----------------------------------------------------------------------------
(* Nothing a user wrote is forgotten, and the spawn cycle is final.        *)

(* Message k is in the inbound queue, in the turn of Run, or its reply     *)
(* waits for the dispatcher.                                               *)
OnItsWay(k) ==
    LET msg == [kind |-> "user", chat |-> requests[k], id |-> k]
    IN  \/ \E i \in DOMAIN inbound : inbound[i] = msg
        \/ worker["run"].at # "idle" /\ worker["run"].msg = msg
        \/ \E i \in DOMAIN outbound :
             outbound[i].kind = "reply" /\ outbound[i].id = k /\ outbound[i].to = requests[k]

(* Every message a user got into the queue is answered or on its way: no   *)
(* full queue, failing model, tool, cron job or subagent makes the gateway *)
(* drop one.                                                               *)
RequestsAreOnTheirWay == \A k \in Len(answers) + 1 .. Len(requests) : OnItsWay(k)

NoReplyWaits == \A i \in DOMAIN outbound : outbound[i].kind # "reply"

(* Nothing leads out of the spawn cycle: no message is taken in, no        *)
(* subagent is created or finishes, Run does not move; and when the        *)
(* replies that were queued are out, no user is answered again, although   *)
(* the cron loop and the dispatcher go on.                                 *)
SpawnCycleIsFinal ==
    [][SpawnCycle =>
         /\ SpawnCycle'
         /\ UNCHANGED <<inbound, worker["run"], tasks, lock, requests>>
         /\ NoReplyWaits => NoReplyWaits' /\ UNCHANGED answers]_vars

LEMMA LineIsOnItsWay == TypeInv /\ ReplyInv => RequestsAreOnTheirWay
<1> SUFFICES ASSUME TypeInv, ReplyInv, NEW k \in Len(answers) + 1 .. Len(requests)
             PROVE  OnItsWay(k)
  BY DEF RequestsAreOnTheirWay
<1> DEFINE cur == Current(worker["run"])
           msg == [kind |-> "user", chat |-> requests[k], id |-> k]
<1>1. /\ Unanswered(inbound, cur, outbound, Len(answers), requests)
      /\ NoneLost(inbound, cur, outbound, Len(answers), requests)
  BY DEF ReplyInv, Line
<1>2. inbound \in Seq(Inbound) /\ "run" \in Workers
  BY Constants DEF TypeInv, QueueType
<1>3. ASSUME NEW m \in Inbound, m.kind = "user", m.id = k, m.chat = requests[m.id]
      PROVE  m = msg
  BY <1>3 DEF Inbound
<1>4. ASSUME NEW i \in Replies(outbound), outbound[i].id = k
      PROVE  OnItsWay(k)
  <2>1. outbound[i].to = requests[k] /\ outbound[i].kind = "reply" /\ i \in DOMAIN outbound
    BY <1>1, <1>4 DEF Unanswered, Replies
  <2> QED
    BY <1>4, <2>1 DEF OnItsWay
<1>5. ASSUME NEW m \in cur, m.id = k
      PROVE  OnItsWay(k)
  <2>1. worker["run"].at # "idle" /\ m = worker["run"].msg /\ m.kind = "user"
    BY <1>5 DEF Current
  <2>2. m \in Inbound
    BY <1>2, <2>1, WorkerFacts
  <2>3. m.chat = requests[m.id]
    BY <1>1, <1>5 DEF Unanswered
  <2>4. m = msg
    BY <1>3, <1>5, <2>1, <2>2, <2>3
  <2> QED
    BY <2>1, <2>4 DEF OnItsWay
<1>6. ASSUME NEW i \in Waiting(inbound), inbound[i].id = k
      PROVE  OnItsWay(k)
  <2>1. i \in DOMAIN inbound /\ inbound[i].kind = "user" /\ inbound[i] \in Inbound
    BY <1>2, <1>6, ElementOfSeq, LenProperties DEF Waiting
  <2>2. inbound[i].chat = requests[inbound[i].id]
    BY <1>1, <1>6 DEF Unanswered
  <2>3. inbound[i] = msg
    BY <1>3, <1>6, <2>1, <2>2
  <2> QED
    BY <2>1, <2>3 DEF OnItsWay
<1> QED
  BY <1>1, <1>4, <1>5, <1>6 DEF NoneLost

(* Until a user's message is answered it is in the inbound queue, in Run's *)
(* turn or, as its reply, in the outbound queue: whatever Run, the cron    *)
(* loop and the subagents do, none is dropped.                             *)
THEOREM RequestsAreNotForgotten == Spec => []RequestsAreOnTheirWay
<1>1. Init => ReplyInv
  BY InitLine
<1> QED
  BY <1>1, TypeInvariance, KindInvariance, ReplyStep, LineIsOnItsWay, PTL DEF Spec

(* In the cycle Run and the subagents stand still: only the cron loop and  *)
(* the dispatcher take steps.                                              *)
LEMMA OnlyCronAndDispatcherGoOn ==
  ASSUME TypeInv, Next, SpawnCycle
  PROVE  ExecuteJob \/ SilentTurn("cron") \/ Publish("cron") \/ Dispatch
<1>1. /\ lock # Free /\ ~(Len(inbound) < InCap) /\ worker["run"].at = "lock"
      /\ Workers = {"run", "cron"}
  BY PipelineAssumption, Constants DEF SpawnCycle
<1>2. ~Receive /\ \A t \in DOMAIN tasks : ~Subagent(t)
  BY <1>1 DEF Receive, PublishInbound, Subagent, TaskDone, Announce
<1>3. ~Consume
  BY <1>1 DEF Consume
<1>4. ~Turn("run")
  BY <1>1 DEF Turn, BeginTurn, CallMessage, ExecuteMessage, CallSpawn, ExecuteSpawn, Spawn,
             EndTurn, Publish
<1>5. Turn("cron") => SilentTurn("cron") \/ Publish("cron")
  BY DEF Turn, SilentTurn
<1> QED
  BY <1>1, <1>2, <1>3, <1>4, <1>5 DEF Next, Internal

(* What the cron loop publishes is no reply to a user. *)
LEMMA CronPublishesNoReply ==
  ASSUME TypeInv, KindInv, Publish("cron"), NoReplyWaits
  PROVE  NoReplyWaits'
<1>1. "cron" \in Workers /\ outbound \in Seq(Outbound) /\ worker["cron"].msg.kind = "job"
  BY Constants DEF TypeInv, QueueType, KindInv, Publish
<1>2. PICK m \in Outbound : outbound' = Append(outbound, m)
                            /\ Publishes(worker["cron"], m, worker'["cron"])
  BY <1>1, PublishEffect
<1>3. m.kind # "reply"
  BY <1>1, <1>2 DEF Publishes
<1>4. Replies(outbound') = Replies(outbound)
  BY <1>1, <1>2, <1>3, AppendReplies
<1> QED
  BY <1>4 DEF NoReplyWaits, Replies

LEMMA SpawnCycleStep ==
  ASSUME TypeInv, KindInv, Next, SpawnCycle
  PROVE  /\ SpawnCycle'
         /\ UNCHANGED <<inbound, worker["run"], tasks, lock, requests>>
         /\ NoReplyWaits => NoReplyWaits' /\ UNCHANGED answers
<1>1. worker \in [Workers -> WorkerStates] /\ Workers = {"run", "cron"}
  BY Constants DEF TypeInv, WorkerType
<1>2. outbound \in Seq(Outbound)
  BY DEF TypeInv, QueueType
<1>3. lock # Free
  BY DEF SpawnCycle
<1>4. SUFFICES /\ UNCHANGED <<inbound, tasks, lock, requests>>
               /\ worker'["run"] = worker["run"]
               /\ NoReplyWaits => NoReplyWaits' /\ UNCHANGED answers
  BY DEF SpawnCycle
<1>5. CASE ExecuteJob
  <2>1. UNCHANGED <<inbound, outbound, tasks, lock, requests, answers>>
    BY <1>5 DEF ExecuteJob
  <2>2. worker'["run"] = worker["run"]
    BY <1>1, <1>5 DEF ExecuteJob
  <2> QED
    BY <2>1, <2>2 DEF NoReplyWaits
<1>6. CASE SilentTurn("cron")
  <2>1. UNCHANGED <<inbound, outbound, tasks, lock, requests, answers>>
    BY <1>3, <1>6 DEF SilentTurn, BeginTurn, CallMessage, ExecuteMessage, CallSpawn,
                      ExecuteSpawn, Spawn, EndTurn
  <2>2. worker' = [worker EXCEPT !["cron"] = worker'["cron"]]
    BY <1>1, <1>6, SilentTurnEffect
  <2>3. worker'["run"] = worker["run"]
    BY <1>1, <2>2
  <2> QED
    BY <2>1, <2>3 DEF NoReplyWaits
<1>7. CASE Publish("cron")
  <2>1. UNCHANGED <<inbound, tasks, lock, requests, answers>>
    BY <1>7 DEF Publish
  <2>2. worker' = [worker EXCEPT !["cron"] = worker'["cron"]]
    BY <1>1, <1>7, PublishEffect
  <2>3. worker'["run"] = worker["run"]
    BY <1>1, <2>2
  <2> QED
    BY <1>7, <2>1, <2>3, CronPublishesNoReply
<1>8. CASE Dispatch
  <2>1. /\ UNCHANGED <<inbound, worker, tasks, lock, requests>>
        /\ outbound # <<>> /\ outbound' = Tail(outbound)
    BY <1>8 DEF Dispatch
  <2>2. ASSUME NoReplyWaits PROVE NoReplyWaits' /\ answers' = answers
    <3>1. /\ Len(outbound) \in Nat \ {0} /\ DOMAIN outbound = 1 .. Len(outbound)
          /\ outbound' \in Seq(Outbound) /\ Len(outbound') = Len(outbound) - 1
          /\ DOMAIN outbound' = 1 .. Len(outbound')
          /\ \A i \in 1 .. Len(outbound') : outbound'[i] = outbound[i + 1]
          /\ Head(outbound) = outbound[1]
      BY <1>2, <2>1, EmptySeq, LenProperties, HeadTailProperties
    <3>2. Head(outbound).kind # "reply"
      BY <2>2, <3>1 DEF NoReplyWaits
    <3>3. answers' = answers
      BY <1>8, <3>2 DEF Dispatch
    <3>4. \A i \in DOMAIN outbound' : i + 1 \in DOMAIN outbound /\ outbound'[i] = outbound[i + 1]
      BY <3>1
    <3> QED
      BY <2>2, <3>3, <3>4 DEF NoReplyWaits
  <2> QED
    BY <2>1, <2>2
<1> QED
  BY <1>5, <1>6, <1>7, <1>8, OnlyCronAndDispatcherGoOn

(* Once a subagent announces with the manager's lock, Run waits for that   *)
(* lock in Spawn and the inbound queue is full, it stays so for ever: no   *)
(* message is taken in, and after the replies already queued no user is    *)
(* answered.                                                               *)
THEOREM SpawnCycleLasts == Spec => SpawnCycleIsFinal
<1>1. ASSUME TypeInv, KindInv, [Next]_vars
      PROVE  [SpawnCycle =>
                /\ SpawnCycle'
                /\ UNCHANGED <<inbound, worker["run"], tasks, lock, requests>>
                /\ NoReplyWaits => NoReplyWaits' /\ UNCHANGED answers]_vars
  BY <1>1, SpawnCycleStep
<1> QED
  BY <1>1, TypeInvariance, KindInvariance, PTL DEF Spec, SpawnCycleIsFinal

=============================================================================
