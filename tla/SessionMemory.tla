---------------------------- MODULE SessionMemory ----------------------------
(***************************************************************************)
(* The memory of one conversation: the session of pkg/session/manager.go,  *)
(* the turns that read and extend it and the background summarizer that    *)
(* shortens it (pkg/agent/loop.go), and the file it is saved to.           *)
(*                                                                         *)
(* A session belongs to one chat, or to one cron job, so at most one turn  *)
(* uses it at a time; a summarizer runs beside that turn and later ones.   *)
(* Each section that holds the manager's lock is an action.  GetSummary in *)
(* the summarizer is joined to the GetHistory before it: nobody else sets  *)
(* a summary or shortens a history.                                        *)
(*                                                                         *)
(* A message is its position in the conversation; what is remembered of    *)
(* its content is a number of tokens.  A summary is whether there is one   *)
(* and which messages its text was made from.                              *)
(***************************************************************************)
EXTENDS Naturals, Sequences, SequencesExt

CONSTANTS
    Sizes,          \* tokens a message may be estimated at
    Window,         \* contextWindow
    SumAfter,       \* messages a history may have before it is summarized (20)
    KeepLast,       \* messages a summarized history keeps (4)
    PartLimit,      \* messages summarized in one part (10)
    MaxTools,       \* bound: tool calls in one answer of the model
    MaxMessages,    \* bound: messages in the conversation
    MaxFaults,      \* bound: crashes and failed writes
    ModelMayFail,   \* whether the provider may return an error
    Torn            \* the content of a session file that does not parse

ASSUME SessionAssumption ==
    /\ Sizes \subseteq Nat /\ Sizes # {}
    /\ Window \in Nat
    /\ SumAfter \in Nat /\ KeepLast \in Nat \ {0} /\ PartLimit \in Nat
    /\ MaxTools \in Nat /\ MaxMessages \in Nat /\ MaxFaults \in Nat
    /\ ModelMayFail \in BOOLEAN

Positions == 1 .. MaxMessages

(* "call" is an assistant message that carries tool calls. *)
Messages == [role : {"user", "assistant", "call", "tool"}, tokens : Sizes]

Summaries == [set : BOOLEAN, covers : SUBSET Positions]
NoSummary == [set |-> FALSE, covers |-> {}]

Sessions == [hist : Seq(Positions), summary : Summaries]
NewSession == [hist |-> <<>>, summary |-> NoSummary]

ASSUME TornSessionAssumption == Torn # NewSession

VARIABLES
    up,         \* a process exists
    session,    \* the session in memory
    disk,       \* its file; one that does not exist reads like a new session
    log,        \* the messages of the conversation that have not been forgotten
    turn,       \* the turn that runs in this session
    sum,        \* the summarizer goroutine of this session
    faults,     \* crashes and failed writes so far
    saved       \* history: position of the last answer whose save succeeded

vars == <<up, session, disk, log, turn, sum, faults, saved>>

(* Where a turn is in runAgentLoop:                                        *)
(*   idle      no turn                                                     *)
(*   summary   has the history, about to get the summary                   *)
(*   user      about to save the user's message                            *)
(*   model     about to call the model                                     *)
(*   tools     executing the tool calls of the model's answer              *)
(*   save, check    about to save the session, to call maybeSummarize      *)
IdleTurn == [at |-> "idle", view |-> NewSession, calls |-> 0, summarize |-> FALSE]

(* Where the summarizer is in summarizeSession. *)
NoSummarizer == [at |-> "off", hist |-> <<>>, summary |-> NoSummary]

Init ==
    /\ up = TRUE
    /\ session = NewSession
    /\ disk = NewSession
    /\ log = <<>>
    /\ turn = IdleTurn
    /\ sum = NoSummarizer
    /\ faults = 0
    /\ saved = 0

-----------------------------------------------------------------------------
(* The session manager. *)

(* AddFullMessage; a session that does not exist is created. *)
AddMessage(role) ==
    \E tokens \in Sizes :
        /\ log' = Append(log, [role |-> role, tokens |-> tokens])
        /\ session' = [session EXCEPT !.hist = Append(@, Len(log) + 1)]

(* Save marshals the session under the lock and rewrites its file; every   *)
(* caller ignores the error.                                               *)
Save ==
    \/ disk' = session /\ UNCHANGED faults
    \/ /\ faults < MaxFaults
       /\ faults' = faults + 1
       /\ disk' \in {disk, Torn}

(* Mutant: the slice is taken at the wrong end. *)
FirstMessages(hist, n) ==
    IF Len(hist) <= n THEN hist ELSE SubSeq(hist, 1, n)

(* The messages TruncateHistory leaves. *)
LastMessages(hist, n) ==
    IF Len(hist) <= n THEN hist ELSE SubSeq(hist, Len(hist) - n + 1, Len(hist))

-----------------------------------------------------------------------------
(* Turns. *)

(* Mutant: the summary is fetched before the history. *)
ReadContextSummaryFirst ==
    /\ up
    /\ \/ /\ turn.at = "idle"
          /\ \E summarize \in BOOLEAN :
               turn' = [IdleTurn EXCEPT !.at = "summary", !.summarize = summarize,
                                        !.view.summary = session.summary]
       \/ /\ turn.at = "summary"
          /\ turn' = [turn EXCEPT !.at = "user", !.view.hist = session.hist]
    /\ UNCHANGED <<up, session, disk, log, sum, faults, saved>>

(* GetHistory, then GetSummary.  A turn for a subagent's announcement does *)
(* not summarize.                                                          *)
ReadContext ==
    /\ up
    /\ \/ /\ turn.at = "idle"
          /\ Len(log) + 1 < MaxMessages
          /\ \E summarize \in BOOLEAN :
               turn' = [IdleTurn EXCEPT !.at = "summary", !.summarize = summarize,
                                        !.view.hist = session.hist]
       \/ /\ turn.at = "summary"
          /\ turn' = [turn EXCEPT !.at = "user", !.view.summary = session.summary]
    /\ UNCHANGED <<up, session, disk, log, sum, faults, saved>>

AddUser ==
    /\ turn.at = "user"
    /\ AddMessage("user")
    /\ turn' = [turn EXCEPT !.at = "model", !.view = NewSession]
    /\ UNCHANGED <<up, disk, sum, faults, saved>>

(* The model asks for tools.  Their results will follow the call. *)
AddCall ==
    /\ turn.at = "model"
    /\ \E n \in 1 .. MaxTools :
         /\ Len(log) + 1 + n < MaxMessages
         /\ turn' = [turn EXCEPT !.at = "tools", !.calls = n]
    /\ AddMessage("call")
    /\ UNCHANGED <<up, disk, sum, faults, saved>>

AddResult ==
    /\ turn.at = "tools"
    /\ AddMessage("tool")
    /\ turn' = [turn EXCEPT !.calls = @ - 1, !.at = IF turn.calls = 1 THEN "model" ELSE @]
    /\ UNCHANGED <<up, disk, sum, faults, saved>>

(* The model answers, or the iterations are used up and the default        *)
(* response stands for its answer.                                         *)
AddAnswer ==
    /\ turn.at = "model"
    /\ AddMessage("assistant")
    /\ turn' = [turn EXCEPT !.at = "save"]
    /\ UNCHANGED <<up, disk, sum, faults, saved>>

(* The model fails: the turn ends here, nothing is saved or summarized. *)
FailTurn ==
    /\ turn.at = "model"
    /\ ModelMayFail
    /\ turn' = IdleTurn
    /\ UNCHANGED <<up, session, disk, log, sum, faults, saved>>

SaveTurn ==
    /\ turn.at = "save"
    /\ Save
    /\ saved' = IF disk' = session THEN Len(log) ELSE saved
    /\ turn' = IF turn.summarize THEN [turn EXCEPT !.at = "check"] ELSE IdleTurn
    /\ UNCHANGED <<up, session, log, sum>>

(* estimateTokens. *)
Tokens(hist) == FoldLeft(LAMBDA n, i : n + log[i].tokens, 0, hist)

(* maybeSummarize: at most one summarizer per session. *)
MaybeSummarize ==
    /\ turn.at = "check"
    /\ turn' = IdleTurn
    /\ sum' = IF /\ \/ Len(session.hist) > SumAfter
                    \/ Tokens(session.hist) > (Window * 75) \div 100
                 /\ sum.at = "off"
              THEN [sum EXCEPT !.at = "started"]
              ELSE sum
    /\ UNCHANGED <<up, session, disk, log, faults, saved>>

-----------------------------------------------------------------------------
(* The summarizer. *)

(* The part of a history that summarizeSession would drop. *)
ToSummarize(hist) == SubSeq(hist, 1, Len(hist) - KeepLast)

(* What is left of it to summarize: no tool results, nothing oversized. *)
Summarizable(i) == log[i].role # "tool" /\ log[i].tokens <= Window \div 2

ValidMessages(hist) == {i \in ToSet(ToSummarize(hist)) : Summarizable(i)}

(* Mutant: an early return that leaves the session marked as summarizing. *)
BeginSummaryLeavingMark ==
    /\ sum.at = "started"
    /\ sum' = IF Len(session.hist) <= KeepLast \/ ValidMessages(session.hist) = {}
              THEN [sum EXCEPT !.at = "returned"]
              ELSE [at |-> "ask", hist |-> session.hist, summary |-> session.summary]
    /\ UNCHANGED <<up, session, disk, log, turn, faults, saved>>

BeginSummary ==
    /\ sum.at = "started"
    /\ sum' = IF Len(session.hist) <= KeepLast \/ ValidMessages(session.hist) = {}
              THEN NoSummarizer
              ELSE [at |-> "ask", hist |-> session.hist, summary |-> session.summary]
    /\ UNCHANGED <<up, session, disk, log, turn, faults, saved>>

(* summarizeBatch: the model's text, or nothing. *)
Batch(messages, existing) ==
    {NoSummary, [set |-> TRUE, covers |-> messages \cup existing.covers]}

(* finalSummary.  Of a long history each half is summarized without the    *)
(* summary there was, and a half whose call fails adds nothing; when the   *)
(* merge fails, the concatenation of the halves, never empty, takes its    *)
(* place.                                                                  *)
FinalSummaries(hist, existing) ==
    LET valid == ValidMessages(hist)
        part1 == {i \in valid : Cardinality({j \in valid : j < i}) < Cardinality(valid) \div 2}
    IN  IF Cardinality(valid) <= PartLimit
        THEN Batch(valid, existing)
        ELSE {NoSummary} \cup
             {[set |-> TRUE, covers |-> c] : c \in {{}, part1, valid \ part1, valid}}

(* The provider answers, fails, or is cut off after 120 seconds. *)
AskModel ==
    /\ sum.at = "ask"
    /\ \E s \in FinalSummaries(sum.hist, sum.summary) :
         sum' = IF s.set THEN [sum EXCEPT !.at = "set", !.summary = s] ELSE NoSummarizer
    /\ UNCHANGED <<up, session, disk, log, turn, faults, saved>>

SetSummary == session' = [session EXCEPT !.summary = sum.summary]

(* Mutant: the history the summarizer read is written back, shortened. *)
TruncateSnapshot == session' = [session EXCEPT !.hist = LastMessages(sum.hist, KeepLast)]

TruncateHistory == session' = [session EXCEPT !.hist = LastMessages(@, KeepLast)]

(* Mutant: the history is shortened before the summary is set. *)
StoreSummaryTruncatingFirst ==
    /\ \/ /\ sum.at = "set"
          /\ TruncateHistory
          /\ sum' = [sum EXCEPT !.at = "truncate"]
          /\ UNCHANGED <<disk, faults>>
       \/ /\ sum.at = "truncate"
          /\ SetSummary
          /\ sum' = [sum EXCEPT !.at = "save"]
          /\ UNCHANGED <<disk, faults>>
       \/ /\ sum.at = "save"
          /\ Save
          /\ sum' = NoSummarizer
          /\ UNCHANGED session
    /\ UNCHANGED <<up, log, turn, saved>>

(* The last steps of summarizeSession, each with the lock for itself. *)
StoreSummary ==
    /\ \/ /\ sum.at = "set"
          /\ SetSummary
          /\ sum' = [sum EXCEPT !.at = "truncate"]
          /\ UNCHANGED <<disk, faults>>
       \/ /\ sum.at = "truncate"
          /\ TruncateHistory
          /\ sum' = [sum EXCEPT !.at = "save"]
          /\ UNCHANGED <<disk, faults>>
       \/ /\ sum.at = "save"
          /\ Save
          /\ sum' = NoSummarizer
          /\ UNCHANGED session
    /\ UNCHANGED <<up, log, turn, saved>>

-----------------------------------------------------------------------------
(* The process ends, possibly while it writes the session's file. *)
Crash ==
    /\ up
    /\ faults < MaxFaults
    /\ faults' = faults + 1
    /\ up' = FALSE
    /\ disk' \in IF "save" \in {turn.at, sum.at} THEN {disk, Torn} ELSE {disk}
    /\ session' = NewSession
    /\ turn' = IdleTurn
    /\ sum' = NoSummarizer
    /\ UNCHANGED <<log, saved>>

(* loadSessions: a file that does not parse is passed over.  What is not   *)
(* in the file is forgotten.                                               *)
Restart ==
    /\ ~up
    /\ up' = TRUE
    /\ IF disk = Torn
       THEN session' = NewSession /\ log' = <<>> /\ saved' = 0
       ELSE /\ session' = disk
            /\ log' = IF disk.hist = <<>> THEN <<>> ELSE SubSeq(log, 1, Last(disk.hist))
            /\ UNCHANGED saved
    /\ UNCHANGED <<disk, turn, sum, faults>>

-----------------------------------------------------------------------------
Turn ==
    \/ ReadContext \/ AddUser
    \/ AddCall \/ AddResult \/ AddAnswer \/ FailTurn
    \/ SaveTurn \/ MaybeSummarize

Summarizer == BeginSummary \/ AskModel \/ StoreSummary

Next == Turn \/ Summarizer \/ Crash \/ Restart

Spec == Init /\ [][Next]_vars

(* The summarizer's context is cancelled after 120 seconds, so its calls   *)
(* to the provider end; nothing else makes it wait.                        *)
FairSpec == Spec /\ WF_vars(Summarizer)

-----------------------------------------------------------------------------
(* Properties. *)

(* The variables keep the shape the code gives them. *)
TypeOK ==
    /\ up \in BOOLEAN
    /\ session \in Sessions
    /\ disk = Torn \/ disk \in Sessions
    /\ log \in Seq(Messages) /\ Len(log) <= MaxMessages
    /\ turn.at \in {"idle", "summary", "user", "model", "tools", "save", "check"}
    /\ turn.view \in Sessions
    /\ turn.calls \in 0 .. MaxTools
    /\ turn.summarize \in BOOLEAN
    /\ turn.calls > 0 <=> turn.at = "tools"
    /\ sum \in [at : {"off", "started", "ask", "set", "truncate", "save"},
                hist : Seq(Positions), summary : Summaries]
    /\ faults \in 0 .. MaxFaults
    /\ saved \in 0 .. MaxMessages
    /\ ~up => turn = IdleTurn /\ sum = NoSummarizer

(* The history in memory is the end of the conversation, in order and      *)
(* without a gap: a summarizer that worked on an older copy shortens it    *)
(* from the front only and never undoes what a turn appended meanwhile.    *)
HistoryIsSuffix ==
    up => \A i \in DOMAIN session.hist :
            session.hist[i] = Len(log) - Len(session.hist) + i

(* The messages before the first one of the history are gone. *)
Shortened(s) == s.hist # <<>> /\ Head(s.hist) # 1

(* A history that lost its beginning comes with a summary, in memory and   *)
(* in every readable file, whichever steps of the summarizer a save of a   *)
(* turn, a failed write or a crash falls between.                          *)
ShortenedHasSummary ==
    /\ Shortened(session) => session.summary.set
    /\ disk # Torn => (Shortened(disk) => disk.summary.set)

(* So does the pair of history and summary a turn shows the model, which   *)
(* it reads in two sections while the summarizer may be between its own.   *)
ContextHasSummary ==
    turn.at = "user" => (Shortened(turn.view) => turn.view.summary.set)

(* An answer whose save succeeded is not taken back by a later save of the *)
(* summarizer, of another turn or of the next process: every readable file *)
(* reaches at least as far.                                                *)
SavedTurnsSurvive ==
    disk # Torn /\ saved > 0 => disk.hist # <<>> /\ Last(disk.hist) >= saved

(* A session does not stay marked as being summarized, which would keep it *)
(* from ever being summarized again.                                       *)
SummarizerEnds == (sum.at # "off") ~> (sum.at = "off")

(* What session/manager.go:68 says of AddFullMessage: it "is used to save  *)
(* the full conversation flow including tool calls and tool results".  So  *)
(* a tool result in the history comes after the message that called it.    *)
ResultsFollowTheirCall ==
    session.hist # <<>> => log[Head(session.hist)].role # "tool"

(* What loop.go:569 and 577 say of summarizeSession: it "summarizes the    *)
(* conversation history" and keeps the last messages "for continuity".  So *)
(* what the history no longer has, the summary was made from, but for the  *)
(* tool results and oversized messages the code leaves out.                *)
SummaryCoversTheRest ==
    up => \A i \in DOMAIN log :
            Summarizable(i) => i \in ToSet(session.hist) \cup session.summary.covers

=============================================================================
