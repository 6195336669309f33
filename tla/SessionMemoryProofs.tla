-------------------------- MODULE SessionMemoryProofs --------------------------
(***************************************************************************)
(* Theorems about SessionMemory: its types, that a history is the gapless  *)
(* end of its conversation, that a shortened one comes with a summary and  *)
(* keeps the recent messages, in memory, on disk and in what the model     *)
(* sees, and that saved answers stay saved.                                *)
(***************************************************************************)
EXTENDS SessionMemory, SequenceTheorems, TLAPS

(***************************************************************************)
(* TypeOK in the parts that the steps touch.  A turn that has begun has    *)
(* room for the messages it will append.                                   *)
(***************************************************************************)
MemoryType ==
    /\ up \in BOOLEAN
    /\ session \in Sessions
    /\ disk = Torn \/ disk \in Sessions
    /\ log \in Seq(Messages) /\ Len(log) <= MaxMessages
    /\ faults \in 0 .. MaxFaults
    /\ saved \in 0 .. MaxMessages

TurnPlaces == {"idle", "summary", "user", "model", "tools", "save", "check"}

Turns == [at : TurnPlaces, view : Sessions, calls : 0 .. MaxTools, summarize : BOOLEAN]

TurnType ==
    /\ turn \in Turns
    /\ turn.calls > 0 <=> turn.at = "tools"
    /\ turn.at \in {"summary", "user"} => Len(log) + 2 <= MaxMessages
    /\ turn.at = "model" => Len(log) + 1 <= MaxMessages
    /\ turn.at = "tools" => Len(log) + turn.calls + 1 <= MaxMessages

SumPlaces == {"off", "started", "ask", "set", "truncate", "save"}

Summarizers == [at : SumPlaces, hist : Seq(Positions), summary : Summaries]

ProcessType ==
    /\ sum \in Summarizers
    /\ ~up => turn = IdleTurn /\ sum = NoSummarizer

(* A history whose last message is the n-th of the conversation. *)
EndsAt(hist, n) == \A i \in DOMAIN hist : hist[i] = n - Len(hist) + i

(* The history in memory ends with the conversation, the one in the file   *)
(* somewhere before.                                                       *)
HistInv ==
    /\ up => EndsAt(session.hist, Len(log))
    /\ up /\ session.hist = <<>> => log = <<>>
    /\ disk # Torn => \E n \in 0 .. Len(log) : EndsAt(disk.hist, n)

TypeInv == MemoryType /\ TurnType /\ ProcessType /\ HistInv

(* The summarizer stores its summary before it shortens the history, and a *)
(* summary that is set stays set; a turn may have read the history between *)
(* the two and still has to read the summary.                              *)
SummaryInv ==
    /\ ShortenedHasSummary
    /\ ContextHasSummary
    /\ sum.at = "set" => sum.summary.set
    /\ sum.at \in {"truncate", "save"} => session.summary.set
    /\ turn.at = "summary" => (Shortened(turn.view) => session.summary.set)

(* What was saved last is not beyond the conversation. *)
SavedInv ==
    /\ SavedTurnsSurvive
    /\ saved <= Len(log)

-----------------------------------------------------------------------------
(* What the operations of the session manager do.                          *)

LEMMA NewSessionType == NewSession \in Sessions
  BY EmptySeq DEF NewSession, Sessions, NoSummary, Summaries

LEMMA AppendEnd ==
  ASSUME NEW hist \in Seq(Positions), NEW n \in Nat, n + 1 \in Positions, EndsAt(hist, n)
  PROVE  EndsAt(Append(hist, n + 1), n + 1)
<1> DEFINE longer == Append(hist, n + 1)
<1>1. /\ Len(longer) = Len(hist) + 1 /\ DOMAIN longer = 1 .. Len(hist) + 1
      /\ \A i \in 1 .. Len(hist) : longer[i] = hist[i]
      /\ longer[Len(hist) + 1] = n + 1
  BY AppendProperties, LenProperties
<1>2. Len(hist) \in Nat /\ \A i \in 1 .. Len(hist) : hist[i] = n - Len(hist) + i
  BY LenProperties DEF EndsAt
<1> HIDE DEF longer
<1>3. ASSUME NEW i \in DOMAIN longer
      PROVE  longer[i] = (n + 1) - Len(longer) + i
  <2>1. (n + 1) - Len(longer) + i = n - Len(hist) + i
    BY <1>1, <1>2
  <2>2. CASE i \in 1 .. Len(hist)
    BY <1>1, <1>2, <2>1, <2>2
  <2>3. CASE i = Len(hist) + 1
    BY <1>1, <1>2, <2>1, <2>3
  <2> QED
    BY <1>1, <1>2, <2>2, <2>3
<1> QED
  BY <1>3 DEF EndsAt, longer

(* A message is added at the end, and a history that was not shortened     *)
(* stays so.                                                               *)
LEMMA AddMessageEffect ==
  ASSUME TypeInv, up, NEW role \in {"user", "assistant", "call", "tool"}, AddMessage(role),
         Len(log) + 1 <= MaxMessages
  PROVE  /\ log' \in Seq(Messages) /\ Len(log') = Len(log) + 1
         /\ session' \in Sessions /\ session'.summary = session.summary
         /\ session'.hist # <<>>
         /\ EndsAt(session'.hist, Len(log'))
         /\ Shortened(session') => Shortened(session)
<1>1. /\ log \in Seq(Messages) /\ Len(log) \in Nat
      /\ session \in Sessions /\ session.hist \in Seq(Positions)
  BY DEF TypeInv, MemoryType, Sessions
<1>2. PICK tokens \in Sizes : log' = Append(log, [role |-> role, tokens |-> tokens])
  BY DEF AddMessage
<1>3. [role |-> role, tokens |-> tokens] \in Messages
  BY DEF Messages
<1>4. log' \in Seq(Messages) /\ Len(log') = Len(log) + 1
  BY <1>1, <1>2, <1>3, AppendProperties
<1>5. Len(log) + 1 \in Positions
  BY <1>1, SessionAssumption DEF Positions
<1>6. /\ session' = [session EXCEPT !.hist = Append(session.hist, Len(log) + 1)]
      /\ session' \in Sessions /\ session'.summary = session.summary
      /\ session'.hist = Append(session.hist, Len(log) + 1)
  <2>1. session' = [session EXCEPT !.hist = Append(session.hist, Len(log) + 1)]
    BY DEF AddMessage
  <2>2. Append(session.hist, Len(log) + 1) \in Seq(Positions)
    BY <1>1, <1>5, AppendProperties
  <2> QED
    BY <1>1, <2>1, <2>2 DEF Sessions
<1>7. EndsAt(session.hist, Len(log)) /\ (session.hist = <<>> => log = <<>>)
  BY DEF TypeInv, HistInv
<1>8. EndsAt(session'.hist, Len(log'))
  BY <1>1, <1>4, <1>5, <1>6, <1>7, AppendEnd
<1>9. Shortened(session') => Shortened(session)
  <2>1. CASE session.hist = <<>>
    BY <1>1, <1>6, <1>7, <2>1 DEF Shortened
  <2>2. CASE session.hist # <<>>
    BY <1>1, <1>5, <1>6, <2>2, HeadTailAppend DEF Shortened
  <2> QED
    BY <2>1, <2>2
<1> QED
  BY <1>1, <1>4, <1>5, <1>6, <1>8, <1>9, AppendProperties

(* TruncateHistory leaves the end of a history. *)
LEMMA LastMessagesEnd ==
  ASSUME NEW hist \in Seq(Positions), NEW n \in Nat, EndsAt(hist, n)
  PROVE  /\ LastMessages(hist, KeepLast) \in Seq(Positions)
         /\ EndsAt(LastMessages(hist, KeepLast), n)
         /\ hist # <<>> => LastMessages(hist, KeepLast) # <<>>
<1>1. CASE Len(hist) <= KeepLast
  BY <1>1 DEF LastMessages
<1>2. CASE Len(hist) > KeepLast
  <2> DEFINE from == Len(hist) - KeepLast + 1
             last == SubSeq(hist, from, Len(hist))
  <2>1. Len(hist) \in Nat /\ KeepLast \in Nat \ {0} /\ from \in 1 .. Len(hist)
    BY <1>2, SessionAssumption
  <2>2. /\ last \in Seq(Positions) /\ Len(last) = KeepLast
        /\ \A i \in 1 .. KeepLast : last[i] = hist[from + i - 1]
    <3>1. \A i \in from .. Len(hist) : hist[i] \in Positions
      BY <2>1
    <3> QED
      BY <2>1, <3>1, SubSeqProperties
  <2>3. EndsAt(last, n)
    BY <2>1, <2>2 DEF EndsAt
  <2>4. LastMessages(hist, KeepLast) = last
    BY <1>2, <2>1 DEF LastMessages
  <2>5. last # <<>>
    BY <2>1, <2>2, EmptySeq
  <2> HIDE DEF last
  <2> QED
    BY <2>2, <2>3, <2>4, <2>5
<1> QED
  BY <1>1, <1>2, LenProperties, SessionAssumption

(* After Save the file holds the session, what it held, or garbage. *)
LEMMA SaveEffect ==
  ASSUME TypeInv, Save
  PROVE  disk' \in {session, disk, Torn} /\ faults' \in 0 .. MaxFaults
  BY SessionAssumption DEF Save, TypeInv, MemoryType

(* A summary is made from messages of the conversation. *)
LEMMA FinalSummariesType ==
  ASSUME NEW hist \in Seq(Positions), NEW existing \in Summaries
  PROVE  FinalSummaries(hist, existing) \subseteq Summaries
<1>1. ToSummarize(hist) \in Seq(Positions)
  <2>1. Len(hist) \in Nat /\ KeepLast \in Nat
    BY SessionAssumption
  <2>2. \A i \in 1 .. Len(hist) - KeepLast : hist[i] \in Positions
    BY <2>1, LenProperties
  <2> QED
    BY <2>1, <2>2, SubSeqProperties DEF ToSummarize
<1>2. ValidMessages(hist) \subseteq Positions
  BY <1>1 DEF ValidMessages, ToSet
<1>3. \A c \in SUBSET Positions : [set |-> TRUE, covers |-> c] \in Summaries
  BY DEF Summaries
<1>4. NoSummary \in Summaries
  BY DEF NoSummary, Summaries
<1>5. ASSUME NEW s \in FinalSummaries(hist, existing)
      PROVE  s = NoSummary \/ \E c \in SUBSET Positions : s = [set |-> TRUE, covers |-> c]
  BY <1>2, <1>5 DEF FinalSummaries, Batch, Summaries
<1> QED
  BY <1>3, <1>4, <1>5

(* A new process has the conversation up to the last message in the file. *)
LEMMA RestartEffect ==
  ASSUME TypeInv, Restart
  PROVE  /\ session' \in Sessions
         /\ log' \in Seq(Messages) /\ Len(log') <= Len(log)
         /\ EndsAt(session'.hist, Len(log'))
         /\ session'.hist = <<>> => log' = <<>>
         /\ disk = Torn => log' = <<>> /\ session' = NewSession /\ saved' = 0
         /\ disk # Torn => session' = disk /\ saved' = saved
         /\ disk # Torn /\ disk.hist # <<>> => Len(log') = Last(disk.hist)
<1>1. log \in Seq(Messages) /\ Len(log) \in Nat
  BY DEF TypeInv, MemoryType
<1>2. CASE disk = Torn
  BY <1>1, <1>2, NewSessionType, EmptySeq DEF Restart, NewSession, EndsAt
<1>3. CASE disk # Torn /\ disk.hist = <<>>
  BY <1>1, <1>3, EmptySeq DEF Restart, TypeInv, MemoryType, EndsAt
<1>4. CASE disk # Torn /\ disk.hist # <<>>
  <2>1. disk \in Sessions /\ disk.hist \in Seq(Positions) /\ Len(disk.hist) \in Nat \ {0}
    BY <1>4, EmptySeq DEF TypeInv, MemoryType, Sessions
  <2>2. PICK n \in 0 .. Len(log) : EndsAt(disk.hist, n)
    BY <1>4 DEF TypeInv, HistInv
  <2>3. Last(disk.hist) = n
    BY <2>1, <2>2, LenProperties DEF EndsAt, Last
  <2>4. session' = disk /\ log' = SubSeq(log, 1, n) /\ saved' = saved
    BY <1>4, <2>3 DEF Restart
  <2>5. log' \in Seq(Messages) /\ Len(log') = n
    <3>1. \A i \in 1 .. n : log[i] \in Messages
      BY <1>1, <2>2, LenProperties
    <3> QED
      BY <2>2, <2>4, <3>1, SubSeqProperties
  <2> QED
    BY <1>4, <2>1, <2>2, <2>3, <2>4, <2>5
<1> QED
  BY <1>2, <1>3, <1>4

-----------------------------------------------------------------------------
LEMMA TypeInvImplies == TypeInv => TypeOK
  BY DEF TypeInv, TypeOK, MemoryType, TurnType, ProcessType, Turns, TurnPlaces, Summarizers, SumPlaces

LEMMA Constants ==
  /\ NewSession \in Sessions /\ NoSummary \in Summaries
  /\ IdleTurn \in Turns /\ IdleTurn.at = "idle" /\ IdleTurn.calls = 0
  /\ NoSummarizer \in Summarizers /\ NoSummarizer.at = "off"
  /\ MaxMessages \in Nat /\ MaxTools \in Nat /\ MaxFaults \in Nat
  BY NewSessionType, EmptySeq, SessionAssumption
     DEF IdleTurn, Turns, TurnPlaces, NoSummarizer, Summarizers, SumPlaces, Sessions, NewSession

LEMMA InitType == Init => TypeInv
<1> SUFFICES ASSUME Init PROVE TypeInv
  OBVIOUS
<1>1. MemoryType
  BY Constants, EmptySeq DEF Init, MemoryType
<1>2. TurnType /\ ProcessType
  BY Constants DEF Init, TurnType, ProcessType
<1>3. HistInv
  BY Constants, EmptySeq DEF Init, HistInv, NewSession, EndsAt
<1> QED
  BY <1>1, <1>2, <1>3 DEF TypeInv

(* What a turn in progress may rely on. *)
LEMMA TurnFacts ==
  ASSUME TypeInv
  PROVE  /\ turn \in Turns /\ turn.calls \in 0 .. MaxTools /\ turn.view \in Sessions
         /\ session \in Sessions /\ session.hist \in Seq(Positions)
         /\ session.summary \in Summaries
         /\ log \in Seq(Messages) /\ Len(log) \in Nat
         /\ MaxMessages \in Nat /\ MaxTools \in Nat
         /\ turn.at # "idle" => up
<1>1. turn \in Turns /\ session \in Sessions /\ log \in Seq(Messages)
  BY DEF TypeInv, TurnType, MemoryType
<1>2. turn.calls \in 0 .. MaxTools /\ turn.view \in Sessions
  BY <1>1 DEF Turns
<1>3. session.hist \in Seq(Positions) /\ session.summary \in Summaries
  BY <1>1 DEF Sessions
<1>4. turn.at # "idle" => up
  BY Constants DEF TypeInv, ProcessType, MemoryType
<1> QED
  BY <1>1, <1>2, <1>3, <1>4, Constants, LenProperties

(* The ways a turn goes on. *)
LEMMA TurnGoesOn ==
  ASSUME NEW t \in Turns, NEW at \in TurnPlaces, NEW u,
         u = [t EXCEPT !.at = at]
  PROVE  u \in Turns /\ u.at = at /\ u.calls = t.calls
  BY DEF Turns

LEMMA TurnForgetsView ==
  ASSUME NEW t \in Turns, NEW u,
         u = [t EXCEPT !.at = "model", !.view = NewSession]
  PROVE  u \in Turns /\ u.at = "model" /\ u.calls = t.calls
  BY NewSessionType DEF Turns, TurnPlaces

LEMMA TurnReadsSummary ==
  ASSUME NEW t \in Turns, NEW s \in Summaries, NEW u,
         u = [t EXCEPT !.at = "user", !.view.summary = s]
  PROVE  u \in Turns /\ u.at = "user" /\ u.calls = t.calls
<1>1. t.view \in Sessions /\ [t.view EXCEPT !.summary = s] \in Sessions
  BY DEF Turns, Sessions
<1> QED
  BY <1>1 DEF Turns, TurnPlaces

(* The actions that add a message; each has room for it. *)
Adding == AddUser \/ AddCall \/ AddResult \/ AddAnswer

LEMMA AddingEffect ==
  ASSUME TypeInv, Adding
  PROVE  /\ up /\ Len(log) + 1 <= MaxMessages
         /\ log' \in Seq(Messages) /\ Len(log') = Len(log) + 1
         /\ session' \in Sessions /\ session'.summary = session.summary
         /\ session'.hist # <<>> /\ EndsAt(session'.hist, Len(log'))
         /\ Shortened(session') => Shortened(session)
         /\ UNCHANGED <<up, disk, sum, faults, saved>>
<1>1. up /\ turn.at \in {"user", "model", "tools"}
  BY TurnFacts DEF Adding, AddUser, AddCall, AddResult, AddAnswer
<1>2. Len(log) + 1 <= MaxMessages
  BY <1>1, TurnFacts DEF TypeInv, TurnType
<1>3. PICK role \in {"user", "assistant", "call", "tool"} : AddMessage(role)
  BY DEF Adding, AddUser, AddCall, AddResult, AddAnswer
<1>4. UNCHANGED <<up, disk, sum, faults, saved>>
  BY DEF Adding, AddUser, AddCall, AddResult, AddAnswer
<1> QED
  BY <1>1, <1>2, <1>3, <1>4, AddMessageEffect

(* A step of a turn leaves a turn that has begun room for what it will     *)
(* still append.                                                           *)
LEMMA TurnTypeStep ==
  ASSUME TypeInv, Turn
  PROVE  up /\ TurnType'
<1>1. up
  BY TurnFacts
     DEF Turn, ReadContext, AddUser, AddCall, AddResult, AddAnswer, FailTurn, SaveTurn, MaybeSummarize
<1> SUFFICES TurnType'
  BY <1>1
<1> DEFINE n == Len(log)
<1>2. /\ turn.calls > 0 <=> turn.at = "tools"
      /\ turn.at \in {"summary", "user"} => n + 2 <= MaxMessages
      /\ turn.at = "model" => n + 1 <= MaxMessages
      /\ turn.at = "tools" => n + turn.calls + 1 <= MaxMessages
      /\ n \in Nat /\ MaxMessages \in Nat /\ MaxTools \in Nat
      /\ turn \in Turns /\ turn.calls \in 0 .. MaxTools
  BY TurnFacts DEF TypeInv, TurnType
<1>3. CASE ReadContext /\ turn.at = "idle"
  <2>1. PICK b \in BOOLEAN :
          turn' = [IdleTurn EXCEPT !.at = "summary", !.summarize = b, !.view.hist = session.hist]
    BY <1>3 DEF ReadContext
  <2>2. turn' \in Turns /\ turn'.at = "summary" /\ turn'.calls = 0
    <3>1. IdleTurn \in Turns /\ IdleTurn.calls = 0 /\ session.hist \in Seq(Positions)
      BY TurnFacts, Constants
    <3>2. /\ IdleTurn.view \in Sessions
          /\ [IdleTurn.view EXCEPT !.hist = session.hist] \in Sessions
      BY <3>1 DEF Turns, Sessions
    <3> QED
      BY <2>1, <3>1, <3>2 DEF Turns, TurnPlaces
  <2>3. Len(log) + 1 < MaxMessages /\ log' = log
    BY <1>3 DEF ReadContext
  <2>4. n + 2 <= MaxMessages
    BY <1>2, <2>3
  <2> QED
    BY <1>2, <2>2, <2>3, <2>4 DEF TurnType
<1>4. CASE ReadContext /\ turn.at = "summary"
  <2>1. turn' = [turn EXCEPT !.at = "user", !.view.summary = session.summary] /\ log' = log
    BY <1>4 DEF ReadContext
  <2>2. turn' \in Turns /\ turn'.at = "user" /\ turn'.calls = turn.calls
    BY <2>1, TurnFacts, TurnReadsSummary
  <2> QED
    BY <1>2, <1>4, <2>1, <2>2 DEF TurnType
<1>5. CASE AddUser
  <2>1. turn.at = "user" /\ turn' = [turn EXCEPT !.at = "model", !.view = NewSession]
    BY <1>5 DEF AddUser
  <2>2. turn' \in Turns /\ turn'.at = "model" /\ turn'.calls = turn.calls
    BY <1>2, <2>1, TurnForgetsView
  <2>3. Len(log') = n + 1
    BY <1>5, AddingEffect DEF Adding
  <2>4. n + 1 + 1 <= MaxMessages /\ ~(turn.calls > 0)
    BY <1>2, <2>1
  <2> QED
    BY <2>2, <2>3, <2>4 DEF TurnType
<1>6. CASE AddCall
  <2>1. PICK c \in 1 .. MaxTools : /\ Len(log) + 1 + c < MaxMessages
                                   /\ turn' = [turn EXCEPT !.at = "tools", !.calls = c]
    BY <1>6 DEF AddCall
  <2>2. turn' \in Turns /\ turn'.at = "tools" /\ turn'.calls = c
    <3>1. c \in 0 .. MaxTools /\ "tools" \in TurnPlaces
      BY <1>2 DEF TurnPlaces
    <3> QED
      BY <1>2, <2>1, <3>1 DEF Turns
  <2>3. Len(log') = n + 1
    BY <1>6, AddingEffect DEF Adding
  <2>4. n + 1 + c + 1 <= MaxMessages /\ c > 0
    BY <1>2, <2>1
  <2> QED
    BY <2>2, <2>3, <2>4 DEF TurnType
<1>7. CASE AddResult
  <2> DEFINE at == IF turn.calls = 1 THEN "model" ELSE "tools"
  <2>1. turn.at = "tools" /\ turn' = [turn EXCEPT !.at = at, !.calls = turn.calls - 1]
    BY <1>2, <1>7 DEF AddResult, Turns
  <2>2. turn' \in Turns /\ turn'.at = at /\ turn'.calls = turn.calls - 1
    <3>1. turn.calls - 1 \in 0 .. MaxTools /\ at \in TurnPlaces
      BY <1>2, <2>1 DEF TurnPlaces
    <3> HIDE DEF at
    <3> QED
      BY <1>2, <2>1, <3>1 DEF Turns
  <2>3. Len(log') = n + 1
    BY <1>7, AddingEffect DEF Adding
  <2> QED
    BY <1>2, <2>1, <2>2, <2>3 DEF TurnType
<1>8. CASE AddAnswer
  <2>1. turn.at = "model" /\ turn' = [turn EXCEPT !.at = "save"]
    BY <1>8 DEF AddAnswer
  <2>2. turn' \in Turns /\ turn'.at = "save" /\ turn'.calls = turn.calls
    BY <1>2, <2>1, TurnGoesOn DEF TurnPlaces
  <2> QED
    BY <1>2, <2>1, <2>2 DEF TurnType
<1>9. ASSUME turn' = IdleTurn PROVE TurnType'
  BY <1>9, Constants DEF TurnType
<1>10. CASE SaveTurn /\ turn.summarize
  <2>1. turn.at = "save" /\ turn' = [turn EXCEPT !.at = "check"]
    BY <1>10 DEF SaveTurn
  <2>2. turn' \in Turns /\ turn'.at = "check" /\ turn'.calls = turn.calls
    BY <1>2, <2>1, TurnGoesOn DEF TurnPlaces
  <2> QED
    BY <1>2, <2>1, <2>2 DEF TurnType
<1>11. CASE FailTurn \/ MaybeSummarize \/ (SaveTurn /\ ~turn.summarize)
  BY <1>9, <1>11 DEF FailTurn, MaybeSummarize, SaveTurn
<1> QED
  BY <1>3, <1>4, <1>5, <1>6, <1>7, <1>8, <1>10, <1>11 DEF Turn, ReadContext

(* A save puts in the file a history that ends in the conversation. *)
LEMMA SaveKeepsFile ==
  ASSUME TypeInv, up, Save, UNCHANGED <<up, session, log>>
  PROVE  /\ disk' = Torn \/ disk' \in Sessions
         /\ HistInv'
<1>1. disk' \in {session, disk, Torn}
  BY SaveEffect
<1>2. Len(log) \in 0 .. Len(log) /\ EndsAt(session.hist, Len(log))
  BY TurnFacts DEF TypeInv, HistInv
<1>3. disk' # Torn => \E n \in 0 .. Len(log) : EndsAt(disk'.hist, n)
  BY <1>1, <1>2 DEF TypeInv, HistInv
<1> QED
  BY <1>1, <1>3 DEF TypeInv, MemoryType, HistInv

LEMMA TurnStep ==
  ASSUME TypeInv, Turn
  PROVE  TypeInv'
<1>1. up /\ TurnType'
  BY TurnTypeStep
<1>2. CASE Adding
  <2>1. MemoryType'
    BY <1>2, AddingEffect DEF TypeInv, MemoryType
  <2>2. HistInv'
    <3>1. 0 .. Len(log) \subseteq 0 .. Len(log')
      BY <1>2, AddingEffect, TurnFacts
    <3> QED
      BY <1>2, <3>1, AddingEffect DEF TypeInv, HistInv
  <2>3. ProcessType'
    BY <1>1, <1>2, AddingEffect DEF TypeInv, ProcessType
  <2> QED
    BY <1>1, <2>1, <2>2, <2>3 DEF TypeInv
<1>3. CASE ReadContext \/ FailTurn
  <2>1. UNCHANGED <<up, session, disk, log, sum, faults, saved>>
    BY <1>3 DEF ReadContext, FailTurn
  <2> QED
    BY <1>1, <2>1 DEF TypeInv, MemoryType, ProcessType, HistInv
<1>4. CASE SaveTurn
  <2>1. Save /\ UNCHANGED <<up, session, log, sum>> /\ saved' \in {saved, Len(log)}
    BY <1>4 DEF SaveTurn
  <2>2. Len(log) \in 0 .. MaxMessages
    BY TurnFacts DEF TypeInv, MemoryType
  <2>3. MemoryType' /\ HistInv'
    BY <1>1, <2>1, <2>2, SaveEffect, SaveKeepsFile DEF TypeInv, MemoryType
  <2> QED
    BY <1>1, <2>1, <2>3 DEF TypeInv, ProcessType
<1>5. CASE MaybeSummarize
  <2>1. UNCHANGED <<up, session, disk, log, faults, saved>>
    BY <1>5 DEF MaybeSummarize
  <2>2. sum' = sum \/ sum' = [sum EXCEPT !.at = "started"]
    BY <1>5 DEF MaybeSummarize
  <2>3. sum' \in Summarizers
    BY <2>2 DEF TypeInv, ProcessType, Summarizers, SumPlaces
  <2> QED
    BY <1>1, <2>1, <2>3 DEF TypeInv, MemoryType, ProcessType, HistInv
<1> QED
  BY <1>2, <1>3, <1>4, <1>5 DEF Turn, Adding

(* What a summarizer in progress may rely on. *)
LEMMA SummarizerFacts ==
  ASSUME TypeInv, Summarizer
  PROVE  /\ up /\ UNCHANGED <<up, log, turn, saved>>
         /\ sum \in Summarizers /\ sum.hist \in Seq(Positions) /\ sum.summary \in Summaries
<1>1. sum \in Summarizers /\ up \in BOOLEAN /\ (~up => sum = NoSummarizer)
  BY DEF TypeInv, ProcessType, MemoryType
<1>2. sum.hist \in Seq(Positions) /\ sum.summary \in Summaries
  BY <1>1 DEF Summarizers
<1>3. up
  BY <1>1, Constants DEF Summarizer, BeginSummary, AskModel, StoreSummary
<1>4. UNCHANGED <<up, log, turn, saved>>
  BY DEF Summarizer, BeginSummary, AskModel, StoreSummary
<1> QED
  BY <1>1, <1>2, <1>3, <1>4

LEMMA SummarizerStep ==
  ASSUME TypeInv, Summarizer
  PROVE  TypeInv'
<1>1. up /\ UNCHANGED <<up, log, turn, saved>> /\ sum \in Summarizers
  BY SummarizerFacts
<1>2. TurnType'
  BY <1>1 DEF TypeInv, TurnType
<1>3. CASE BeginSummary \/ AskModel
  <2>1. UNCHANGED <<session, disk, faults>>
    BY <1>3 DEF BeginSummary, AskModel
  <2>2. ASSUME BeginSummary PROVE sum' \in Summarizers
    <3>1. \/ sum' = NoSummarizer
          \/ sum' = [at |-> "ask", hist |-> session.hist, summary |-> session.summary]
      BY <2>2 DEF BeginSummary
    <3>2. session.hist \in Seq(Positions) /\ session.summary \in Summaries
      BY TurnFacts
    <3> QED
      BY <3>1, <3>2, Constants DEF Summarizers, SumPlaces
  <2>3. ASSUME AskModel PROVE sum' \in Summarizers
    <3>1. PICK s \in FinalSummaries(sum.hist, sum.summary) :
            sum' = IF s.set THEN [sum EXCEPT !.at = "set", !.summary = s] ELSE NoSummarizer
      BY <2>3 DEF AskModel
    <3>2. s \in Summaries
      BY <3>1, SummarizerFacts, FinalSummariesType
    <3>3. [sum EXCEPT !.at = "set", !.summary = s] \in Summarizers
      BY <1>1, <3>2 DEF Summarizers, SumPlaces
    <3> QED
      BY <3>1, <3>3, Constants
  <2>4. sum' \in Summarizers
    BY <1>3, <2>2, <2>3
  <2> QED
    BY <1>1, <1>2, <2>1, <2>4 DEF TypeInv, MemoryType, ProcessType, HistInv
<1>4. CASE StoreSummary /\ sum.at \in {"set", "truncate"}
  <2>1. UNCHANGED <<disk, faults>>
    BY <1>4 DEF StoreSummary
  <2>2. sum' \in Summarizers
    BY <1>1, <1>4 DEF StoreSummary, Summarizers, SumPlaces
  <2>3. /\ session' \in Sessions
        /\ EndsAt(session'.hist, Len(log))
        /\ session'.hist = <<>> => session.hist = <<>>
    <3>1. session \in Sessions /\ EndsAt(session.hist, Len(log))
      BY <1>1 DEF TypeInv, MemoryType, HistInv
    <3>2. CASE SetSummary
      BY <3>1, <3>2, SummarizerFacts DEF SetSummary, Sessions
    <3>3. CASE TruncateHistory
      <4>1. LET h == LastMessages(session.hist, KeepLast)
            IN  h \in Seq(Positions) /\ EndsAt(h, Len(log)) /\ (session.hist # <<>> => h # <<>>)
        BY <3>1, TurnFacts, LastMessagesEnd
      <4> QED
        BY <3>1, <3>3, <4>1 DEF TruncateHistory, Sessions
    <3> QED
      BY <1>4, <3>2, <3>3 DEF StoreSummary
  <2>4. MemoryType'
    BY <1>1, <2>1, <2>3 DEF TypeInv, MemoryType
  <2>5. HistInv'
    BY <1>1, <2>1, <2>3 DEF TypeInv, HistInv
  <2> QED
    BY <1>1, <1>2, <2>2, <2>4, <2>5 DEF TypeInv, ProcessType
<1>5. CASE StoreSummary /\ sum.at = "save"
  <2>1. Save /\ sum' = NoSummarizer /\ UNCHANGED <<up, session, log>>
    BY <1>1, <1>5 DEF StoreSummary
  <2>2. MemoryType' /\ HistInv'
    BY <1>1, <2>1, SaveEffect, SaveKeepsFile DEF TypeInv, MemoryType
  <2> QED
    BY <1>1, <1>2, <2>1, <2>2, Constants DEF TypeInv, ProcessType
<1> QED
  BY <1>3, <1>4, <1>5 DEF Summarizer, StoreSummary

LEMMA ProcessStep ==
  ASSUME TypeInv, Crash \/ Restart
  PROVE  TypeInv'
<1>1. CASE Crash
  <2>1. /\ disk' \in {disk, Torn} /\ session' = NewSession /\ UNCHANGED <<log, saved>>
        /\ up' = FALSE /\ turn' = IdleTurn /\ sum' = NoSummarizer
        /\ faults' = faults + 1 /\ faults < MaxFaults
    BY <1>1 DEF Crash
  <2>2. MemoryType'
    <3>1. faults' \in 0 .. MaxFaults
      BY <2>1, Constants DEF TypeInv, MemoryType
    <3> QED
      BY <2>1, <3>1, NewSessionType DEF TypeInv, MemoryType
  <2>3. TurnType' /\ ProcessType'
    BY <2>1, Constants DEF TurnType, ProcessType
  <2>4. HistInv'
    BY <2>1 DEF TypeInv, HistInv
  <2> QED
    BY <2>2, <2>3, <2>4 DEF TypeInv
<1>2. CASE Restart
  <2>1. /\ up' = TRUE /\ UNCHANGED <<disk, turn, sum, faults>>
        /\ turn = IdleTurn /\ sum = NoSummarizer
    BY <1>2 DEF Restart, TypeInv, ProcessType
  <2>2. /\ session' \in Sessions /\ log' \in Seq(Messages)
        /\ Len(log') \in Nat /\ Len(log') <= Len(log)
        /\ EndsAt(session'.hist, Len(log'))
        /\ session'.hist = <<>> => log' = <<>>
        /\ disk # Torn => session' = disk
        /\ saved' \in {0, saved}
    BY <1>2, RestartEffect
  <2>3. MemoryType'
    BY <2>1, <2>2, TurnFacts DEF TypeInv, MemoryType
  <2>4. TurnType' /\ ProcessType'
    BY <2>1, Constants DEF TurnType, ProcessType
  <2>5. HistInv'
    <3>1. Len(log') \in 0 .. Len(log')
      BY <2>2
    <3> QED
      BY <2>1, <2>2, <3>1 DEF HistInv
  <2> QED
    BY <2>3, <2>4, <2>5 DEF TypeInv
<1> QED
  BY <1>1, <1>2

LEMMA TypeStep == TypeInv /\ [Next]_vars => TypeInv'
<1> SUFFICES ASSUME TypeInv, [Next]_vars PROVE TypeInv'
  OBVIOUS
<1>1. CASE Turn
  BY <1>1, TurnStep
<1>2. CASE Summarizer
  BY <1>2, SummarizerStep
<1>3. CASE Crash \/ Restart
  BY <1>3, ProcessStep
<1>4. CASE UNCHANGED vars
  BY <1>4 DEF vars, TypeInv, MemoryType, TurnType, ProcessType, HistInv
<1> QED
  BY <1>1, <1>2, <1>3, <1>4 DEF Next

LEMMA TypeInvariance == Spec => []TypeInv
  BY InitType, TypeStep, PTL DEF Spec

(* Sessions, files, turns and summarizers keep the shape the code gives    *)
(* them, and without a process there is neither turn nor summarizer.       *)
THEOREM TypeCorrect == Spec => []TypeOK
  BY TypeInvariance, TypeInvImplies, PTL

(* The history in memory is always the end of the conversation, in order   *)
(* and without a gap, wherever a summarizer that works on an older copy    *)
(* shortens it and wherever a crash brings back an older file.             *)
THEOREM HistoriesAreSuffixes == Spec => []HistoryIsSuffix
<1>1. TypeInv => HistoryIsSuffix
  BY DEF TypeInv, HistInv, EndsAt, HistoryIsSuffix
<1> QED
  BY <1>1, TypeInvariance, PTL

-----------------------------------------------------------------------------
(* A shortened history comes with a summary.                               *)

LEMMA NewSessionNotShortened == ~Shortened(NewSession)
  BY DEF Shortened, NewSession

LEMMA InitSummary == Init => SummaryInv
  BY NewSessionNotShortened, Constants
     DEF Init, SummaryInv, ShortenedHasSummary, ContextHasSummary

LEMMA TurnKeepsSummary ==
  ASSUME TypeInv, SummaryInv, Turn
  PROVE  SummaryInv'
<1>1. CASE Adding
  <2>1. turn'.at \in {"model", "tools", "save"}
    BY <1>1, TurnFacts DEF Adding, AddUser, AddCall, AddResult, AddAnswer, Turns
  <2> QED
    BY <1>1, <2>1, AddingEffect DEF SummaryInv, ShortenedHasSummary, ContextHasSummary
<1>2. CASE ReadContext
  <2>1. UNCHANGED <<session, disk, sum>>
    BY <1>2 DEF ReadContext
  <2>2. CASE turn.at = "idle"
    <3>1. turn'.at = "summary" /\ turn'.view.hist = session.hist
      BY <1>2, <2>2, Constants DEF ReadContext, IdleTurn, NewSession
    <3> QED
      BY <2>1, <3>1 DEF SummaryInv, ShortenedHasSummary, ContextHasSummary, Shortened
  <2>3. CASE turn.at = "summary"
    <3>1. /\ turn'.at = "user" /\ turn'.view.hist = turn.view.hist
          /\ turn'.view.summary = session.summary
      <4>1. turn' = [turn EXCEPT !.at = "user", !.view.summary = session.summary]
        BY <1>2, <2>3 DEF ReadContext
      <4>2. turn \in Turns /\ turn.view \in Sessions
        BY TurnFacts
      <4> QED
        BY <4>1, <4>2 DEF Turns, Sessions
    <3> QED
      BY <2>1, <2>3, <3>1 DEF SummaryInv, ShortenedHasSummary, ContextHasSummary, Shortened
  <2> QED
    BY <1>2, <2>2, <2>3 DEF ReadContext
<1>3. CASE FailTurn
  BY <1>3, Constants DEF FailTurn, SummaryInv, ShortenedHasSummary, ContextHasSummary
<1>4. CASE SaveTurn
  <2>1. disk' \in {session, disk, Torn} /\ UNCHANGED <<session, sum>>
    BY <1>4, SaveEffect DEF SaveTurn
  <2>2. turn'.at \in {"idle", "check"}
    BY <1>4, TurnFacts, Constants DEF SaveTurn, Turns
  <2> QED
    BY <2>1, <2>2 DEF SummaryInv, ShortenedHasSummary, ContextHasSummary
<1>5. CASE MaybeSummarize
  <2>1. UNCHANGED <<session, disk>> /\ turn'.at = "idle"
    BY <1>5, Constants DEF MaybeSummarize
  <2>2. sum' = sum \/ sum'.at = "started"
    BY <1>5 DEF MaybeSummarize, TypeInv, ProcessType, Summarizers
  <2> QED
    BY <2>1, <2>2 DEF SummaryInv, ShortenedHasSummary, ContextHasSummary
<1> QED
  BY <1>1, <1>2, <1>3, <1>4, <1>5 DEF Turn, Adding

LEMMA SummarizerKeepsSummary ==
  ASSUME TypeInv, SummaryInv, Summarizer
  PROVE  SummaryInv'
<1>1. UNCHANGED turn /\ up /\ session \in Sessions /\ sum \in Summarizers
  BY SummarizerFacts, TurnFacts
<1>2. CASE BeginSummary
  <2>1. sum'.at \in {"off", "ask"} /\ UNCHANGED <<session, disk>>
    BY <1>2, Constants DEF BeginSummary
  <2> QED
    BY <1>1, <2>1 DEF SummaryInv, ShortenedHasSummary, ContextHasSummary
<1>3. CASE AskModel
  <2>1. UNCHANGED <<session, disk>>
    BY <1>3 DEF AskModel
  <2>2. sum'.at = "off" \/ (sum'.at = "set" /\ sum'.summary.set)
    BY <1>1, <1>3, Constants DEF AskModel, Summarizers
  <2> QED
    BY <1>1, <2>1, <2>2 DEF SummaryInv, ShortenedHasSummary, ContextHasSummary
<1>4. CASE StoreSummary /\ sum.at = "set"
  <2>1. /\ session' = [session EXCEPT !.summary = sum.summary]
        /\ sum' = [sum EXCEPT !.at = "truncate"] /\ UNCHANGED disk
    BY <1>4 DEF StoreSummary, SetSummary
  <2>2. session'.summary.set /\ session'.hist = session.hist /\ sum'.at = "truncate"
    BY <1>1, <1>4, <2>1 DEF Sessions, Summarizers, SummaryInv
  <2> QED
    BY <1>1, <2>1, <2>2 DEF SummaryInv, ShortenedHasSummary, ContextHasSummary
<1>5. CASE StoreSummary /\ sum.at = "truncate"
  <2>1. /\ session' = [session EXCEPT !.hist = LastMessages(session.hist, KeepLast)]
        /\ sum' = [sum EXCEPT !.at = "save"] /\ UNCHANGED disk
    BY <1>5 DEF StoreSummary, TruncateHistory
  <2>2. session'.summary = session.summary /\ session.summary.set /\ sum'.at = "save"
    BY <1>1, <1>5, <2>1 DEF Sessions, Summarizers, SummaryInv
  <2> QED
    BY <1>1, <2>1, <2>2 DEF SummaryInv, ShortenedHasSummary, ContextHasSummary
<1>6. CASE StoreSummary /\ sum.at = "save"
  <2>1. disk' \in {session, disk, Torn} /\ UNCHANGED session /\ sum'.at = "off"
    BY <1>6, SaveEffect, Constants DEF StoreSummary
  <2> QED
    BY <1>1, <2>1 DEF SummaryInv, ShortenedHasSummary, ContextHasSummary
<1> QED
  BY <1>2, <1>3, <1>4, <1>5, <1>6 DEF Summarizer, StoreSummary

LEMMA ProcessKeepsSummary ==
  ASSUME TypeInv, SummaryInv, Crash \/ Restart
  PROVE  SummaryInv'
<1>1. CASE Crash
  <2>1. /\ disk' \in {disk, Torn} /\ session' = NewSession
        /\ turn'.at = "idle" /\ sum'.at = "off"
    BY <1>1, Constants DEF Crash
  <2> QED
    BY <2>1, NewSessionNotShortened DEF SummaryInv, ShortenedHasSummary, ContextHasSummary
<1>2. CASE Restart
  <2>1. UNCHANGED <<disk, turn, sum>> /\ turn.at = "idle" /\ sum.at = "off"
    BY <1>2, Constants DEF Restart, TypeInv, ProcessType
  <2>2. session' = NewSession \/ (disk # Torn /\ session' = disk)
    BY <1>2 DEF Restart
  <2> QED
    BY <2>1, <2>2, NewSessionNotShortened DEF SummaryInv, ShortenedHasSummary, ContextHasSummary
<1> QED
  BY <1>1, <1>2

LEMMA SummaryStep == TypeInv /\ SummaryInv /\ [Next]_vars => SummaryInv'
<1> SUFFICES ASSUME TypeInv, SummaryInv, [Next]_vars PROVE SummaryInv'
  OBVIOUS
<1>1. CASE UNCHANGED vars
  BY <1>1 DEF vars, SummaryInv, ShortenedHasSummary, ContextHasSummary
<1> QED
  BY <1>1, TurnKeepsSummary, SummarizerKeepsSummary, ProcessKeepsSummary DEF Next

LEMMA SummaryInvariance == Spec => []SummaryInv
  BY TypeInvariance, InitSummary, SummaryStep, PTL DEF Spec

(* A history that lost its beginning has a summary, in memory and in every *)
(* readable file, between any two steps of summarizeSession and after any  *)
(* crash.                                                                  *)
THEOREM ShortenedHistoriesHaveSummaries == Spec => []ShortenedHasSummary
<1>1. SummaryInv => ShortenedHasSummary
  BY DEF SummaryInv
<1> QED
  BY <1>1, SummaryInvariance, PTL

(* A turn that reads the history and then the summary, with steps of the   *)
(* summarizer between the two, never shows the model a shortened history   *)
(* without a summary.                                                      *)
THEOREM ContextsHaveSummaries == Spec => []ContextHasSummary
<1>1. SummaryInv => ContextHasSummary
  BY DEF SummaryInv
<1> QED
  BY <1>1, SummaryInvariance, PTL

-----------------------------------------------------------------------------
(* Saved answers stay saved.                                               *)

LEMMA LastOfEnd ==
  ASSUME NEW hist \in Seq(Positions), NEW n \in Nat, EndsAt(hist, n), hist # <<>>
  PROVE  Last(hist) = n
<1>1. Len(hist) \in Nat \ {0} /\ DOMAIN hist = 1 .. Len(hist)
  BY EmptySeq, LenProperties
<1> QED
  BY <1>1 DEF EndsAt, Last

(* What is in memory reaches the end of the conversation. *)
LEMMA MemoryReachesEnd ==
  ASSUME TypeInv, up, Len(log) > 0
  PROVE  session.hist # <<>> /\ Last(session.hist) = Len(log)
<1>1. session.hist # <<>>
  BY DEF TypeInv, HistInv
<1> QED
  BY <1>1, TurnFacts, LastOfEnd DEF TypeInv, HistInv

LEMMA SaveKeepsSaved ==
  ASSUME TypeInv, SavedInv, up, Save, log' = log, session' = session,
         saved' = saved \/ (disk' = session /\ saved' = Len(log))
  PROVE  SavedInv'
<1>1. disk' \in {session, disk, Torn} /\ Len(log) \in Nat /\ saved \in Nat
  BY SaveEffect, TurnFacts DEF TypeInv, MemoryType
<1>2. saved <= Len(log) /\ saved' <= Len(log)
  BY <1>1 DEF SavedInv
<1>3. CASE disk' = session
  <2>1. saved' > 0 => session.hist # <<>> /\ Last(session.hist) >= saved'
    BY <1>1, <1>2, MemoryReachesEnd
  <2> QED
    BY <1>2, <1>3, <2>1 DEF SavedInv, SavedTurnsSurvive
<1>4. CASE disk' # session
  BY <1>1, <1>2, <1>4 DEF SavedInv, SavedTurnsSurvive
<1> QED
  BY <1>3, <1>4

LEMMA SavedStep == TypeInv /\ SavedInv /\ [Next]_vars => SavedInv'
<1> SUFFICES ASSUME TypeInv, SavedInv, [Next]_vars PROVE SavedInv'
  OBVIOUS
<1>1. Len(log) \in Nat /\ saved \in Nat /\ saved <= Len(log)
  BY TurnFacts DEF TypeInv, MemoryType, SavedInv
<1>2. ASSUME disk' \in {disk, Torn}, UNCHANGED saved, Len(log') \in Nat, Len(log') >= Len(log)
      PROVE  SavedInv'
  BY <1>1, <1>2 DEF SavedInv, SavedTurnsSurvive
<1>3. CASE Adding
  BY <1>1, <1>2, <1>3, AddingEffect
<1>4. CASE ReadContext \/ FailTurn \/ MaybeSummarize
  <2>1. UNCHANGED <<disk, log, saved>>
    BY <1>4 DEF ReadContext, FailTurn, MaybeSummarize
  <2> QED
    BY <1>1, <1>2, <2>1
<1>5. CASE SaveTurn
  <2>1. /\ up /\ Save /\ log' = log /\ session' = session
        /\ saved' = saved \/ (disk' = session /\ saved' = Len(log))
    BY <1>5, TurnFacts DEF SaveTurn
  <2> QED
    BY <2>1, SaveKeepsSaved
<1>6. CASE BeginSummary \/ AskModel
  <2>1. UNCHANGED <<disk, log, saved>>
    BY <1>6 DEF BeginSummary, AskModel
  <2> QED
    BY <1>1, <1>2, <2>1
<1>7. CASE StoreSummary /\ sum.at \in {"set", "truncate"}
  BY <1>1, <1>2, <1>7 DEF StoreSummary
<1>8. CASE StoreSummary /\ sum.at = "save"
  <2>1. up /\ Save /\ log' = log /\ session' = session /\ saved' = saved
    BY <1>8, SummarizerFacts DEF StoreSummary, Summarizer
  <2> QED
    BY <2>1, SaveKeepsSaved
<1>9. CASE Crash
  BY <1>1, <1>2, <1>9 DEF Crash
<1>10. CASE Restart
  <2>1. CASE disk = Torn
    BY <1>10, <2>1, RestartEffect DEF Restart, SavedInv, SavedTurnsSurvive
  <2>2. CASE disk # Torn
    <3>1. saved' = saved /\ disk' = disk /\ Len(log') \in Nat
      BY <1>10, <2>2, RestartEffect DEF Restart
    <3>2. saved > 0 => Len(log') >= saved
      BY <1>10, <2>2, RestartEffect DEF SavedInv, SavedTurnsSurvive
    <3> QED
      BY <1>1, <3>1, <3>2 DEF SavedInv, SavedTurnsSurvive
  <2> QED
    BY <2>1, <2>2
<1>11. CASE UNCHANGED vars
  BY <1>1, <1>2, <1>11 DEF vars
<1> QED
  BY <1>3, <1>4, <1>5, <1>6, <1>7, <1>8, <1>9, <1>10, <1>11
     DEF Next, Turn, Adding, Summarizer, StoreSummary

(* An answer whose save succeeded is in every readable file there will be, *)
(* whatever a summarizer, later turns and crashes write, until a process   *)
(* starts from a file that does not parse.                                 *)
THEOREM SavedAnswersSurvive == Spec => []SavedTurnsSurvive
<1>1. Init => SavedInv
  BY EmptySeq DEF Init, SavedInv, SavedTurnsSurvive
<1>2. SavedInv => SavedTurnsSurvive
  BY DEF SavedInv
<1> QED
  BY <1>1, <1>2, TypeInvariance, SavedStep, PTL DEF Spec

-----------------------------------------------------------------------------
(* The recent messages are never lost.                                     *)

(* The last KeepLast messages of a conversation of n are in a history. *)
KeepsRecent(hist, n) == \A i \in 1 .. n : n < i + KeepLast => i \in ToSet(hist)

(* What the comment at loop.go:577 says, "Keep last 4 messages for         *)
(* continuity", of everything that is made from a history: the session in  *)
(* memory, the file as far as it reaches, and what a turn hands to the     *)
(* model.  The summarizer cuts a history that turns have extended since    *)
(* it read its own copy, and a turn reads in between.                      *)
RecentMessagesKept ==
    /\ up => KeepsRecent(session.hist, Len(log))
    /\ disk # Torn /\ disk.hist # <<>> => KeepsRecent(disk.hist, Last(disk.hist))
    /\ turn.at \in {"summary", "user"} => KeepsRecent(turn.view.hist, Len(log))

(* A history that was shortened has as many messages as a truncation       *)
(* leaves.                                                                 *)
LongEnough(s) == Shortened(s) => Len(s.hist) >= KeepLast

(* While a turn reads its context nobody adds to the conversation: its     *)
(* copy of the history still ends where the conversation does.             *)
KeptInv ==
    /\ LongEnough(session)
    /\ disk # Torn => LongEnough(disk)
    /\ turn.at \in {"summary", "user"} =>
         /\ LongEnough(turn.view)
         /\ EndsAt(turn.view.hist, Len(log))
         /\ turn.view.hist = <<>> => log = <<>>

LEMMA InitKept == Init => KeptInv
  BY NewSessionNotShortened, Constants DEF Init, KeptInv, LongEnough

(* Cutting leaves enough. *)
LEMMA TruncationKeepsEnough ==
  ASSUME NEW s \in Sessions, LongEnough(s), NEW t,
         t = [s EXCEPT !.hist = LastMessages(s.hist, KeepLast)]
  PROVE  LongEnough(t)
<1>1. /\ s.hist \in Seq(Positions) /\ Len(s.hist) \in Nat
      /\ t.hist = LastMessages(s.hist, KeepLast) /\ KeepLast \in Nat \ {0}
  BY LenProperties, SessionAssumption DEF Sessions
<1>2. CASE Len(s.hist) <= KeepLast
  BY <1>1, <1>2 DEF LastMessages, LongEnough, Shortened
<1>3. CASE Len(s.hist) > KeepLast
  <2>1. Len(s.hist) - KeepLast + 1 \in 1 .. Len(s.hist)
    BY <1>1, <1>3
  <2>2. ~(Len(s.hist) <= KeepLast)
    BY <1>1, <1>3
  <2>3. t.hist = SubSeq(s.hist, Len(s.hist) - KeepLast + 1, Len(s.hist))
    BY <1>1, <2>2 DEF LastMessages
  <2>4. \A i \in Len(s.hist) - KeepLast + 1 .. Len(s.hist) : s.hist[i] \in Positions
    BY <1>1, <1>3, <2>1
  <2>5. Len(t.hist) = KeepLast
    BY <1>1, <1>3, <2>1, <2>3, <2>4, SubSeqProperties
  <2> QED
    BY <1>1, <2>5 DEF LongEnough
<1> QED
  BY <1>1, <1>2, <1>3

(* Adding a message makes a history longer and does not shorten it. *)
LEMMA AddingKeepsEnough ==
  ASSUME TypeInv, Adding, LongEnough(session)
  PROVE  LongEnough(session')
<1>1. /\ session \in Sessions /\ session.hist \in Seq(Positions)
      /\ Len(session.hist) \in Nat /\ KeepLast \in Nat
      /\ Len(log) + 1 \in Positions
      /\ Shortened(session') => Shortened(session)
  BY TurnFacts, AddingEffect, LenProperties, SessionAssumption DEF Positions
<1>2. session' = [session EXCEPT !.hist = Append(session.hist, Len(log) + 1)]
  BY DEF Adding, AddUser, AddCall, AddResult, AddAnswer, AddMessage
<1>3. session'.hist = Append(session.hist, Len(log) + 1)
  BY <1>1, <1>2 DEF Sessions
<1>4. Len(session'.hist) = Len(session.hist) + 1
  BY <1>1, <1>3, AppendProperties
<1> QED
  BY <1>1, <1>4 DEF LongEnough

LEMMA TurnKeepsEnough ==
  ASSUME TypeInv, KeptInv, Turn
  PROVE  KeptInv'
<1>1. CASE Adding
  <2>1. turn'.at \in {"model", "tools", "save"}
    BY <1>1, TurnFacts DEF Adding, AddUser, AddCall, AddResult, AddAnswer, Turns
  <2>2. disk' = disk /\ LongEnough(session)'
    BY <1>1, AddingEffect, AddingKeepsEnough DEF KeptInv, LongEnough, Shortened
  <2> QED
    BY <2>1, <2>2 DEF KeptInv, LongEnough, Shortened
<1>2. CASE ReadContext
  <2>1. UNCHANGED <<up, session, disk, log>> /\ up
    BY <1>2 DEF ReadContext
  <2>2. CASE turn.at = "idle"
    <3>1. turn'.at = "summary" /\ turn'.view.hist = session.hist
      BY <1>2, <2>2, Constants DEF ReadContext, IdleTurn, NewSession
    <3>2. EndsAt(session.hist, Len(log)) /\ (session.hist = <<>> => log = <<>>)
      BY <2>1 DEF TypeInv, HistInv
    <3> QED
      BY <2>1, <3>1, <3>2 DEF KeptInv, LongEnough, Shortened, EndsAt
  <2>3. CASE turn.at = "summary"
    <3>1. turn'.at = "user" /\ turn'.view.hist = turn.view.hist
      <4>1. turn' = [turn EXCEPT !.at = "user", !.view.summary = session.summary]
        BY <1>2, <2>3 DEF ReadContext
      <4>2. turn \in Turns /\ turn.view \in Sessions
        BY TurnFacts
      <4> QED
        BY <4>1, <4>2 DEF Turns, Sessions
    <3> QED
      BY <2>1, <2>3, <3>1 DEF KeptInv, LongEnough, Shortened, EndsAt
  <2> QED
    BY <1>2, <2>2, <2>3 DEF ReadContext
<1>3. CASE FailTurn
  BY <1>3, Constants DEF FailTurn, KeptInv, LongEnough, Shortened
<1>4. CASE SaveTurn
  <2>1. disk' \in {session, disk, Torn} /\ UNCHANGED session
    BY <1>4, SaveEffect DEF SaveTurn
  <2>2. turn'.at \in {"idle", "check"}
    BY <1>4, TurnFacts, Constants DEF SaveTurn, Turns
  <2> QED
    BY <2>1, <2>2 DEF KeptInv, LongEnough, Shortened
<1>5. CASE MaybeSummarize
  BY <1>5, Constants DEF MaybeSummarize, KeptInv, LongEnough, Shortened
<1> QED
  BY <1>1, <1>2, <1>3, <1>4, <1>5 DEF Turn, Adding

LEMMA SummarizerKeepsEnough ==
  ASSUME TypeInv, KeptInv, Summarizer
  PROVE  KeptInv'
<1>1. UNCHANGED <<turn, log>> /\ session \in Sessions
  BY SummarizerFacts, TurnFacts
<1>2. CASE BeginSummary \/ AskModel
  <2>1. UNCHANGED <<session, disk>>
    BY <1>2 DEF BeginSummary, AskModel
  <2> QED
    BY <1>1, <2>1 DEF KeptInv, LongEnough, Shortened, EndsAt
<1>3. CASE StoreSummary /\ sum.at = "set"
  <2>1. session' = [session EXCEPT !.summary = sum.summary] /\ disk' = disk
    BY <1>3 DEF StoreSummary, SetSummary
  <2>2. session'.hist = session.hist
    BY <1>1, <2>1 DEF Sessions
  <2> QED
    BY <1>1, <2>1, <2>2 DEF KeptInv, LongEnough, Shortened, EndsAt
<1>4. CASE StoreSummary /\ sum.at = "truncate"
  <2>1. session' = [session EXCEPT !.hist = LastMessages(session.hist, KeepLast)] /\ disk' = disk
    BY <1>4 DEF StoreSummary, TruncateHistory
  <2>2. LongEnough(session')
    BY <1>1, <2>1, TruncationKeepsEnough DEF KeptInv
  <2> QED
    BY <1>1, <2>1, <2>2 DEF KeptInv, LongEnough, Shortened, EndsAt
<1>5. CASE StoreSummary /\ sum.at = "save"
  <2>1. disk' \in {session, disk, Torn} /\ UNCHANGED session
    BY <1>5, SaveEffect DEF StoreSummary
  <2> QED
    BY <1>1, <2>1 DEF KeptInv, LongEnough, Shortened, EndsAt
<1> QED
  BY <1>2, <1>3, <1>4, <1>5 DEF Summarizer, StoreSummary

LEMMA ProcessKeepsEnough ==
  ASSUME TypeInv, KeptInv, Crash \/ Restart
  PROVE  KeptInv'
<1>1. CASE Crash
  <2>1. disk' \in {disk, Torn} /\ session' = NewSession /\ turn'.at = "idle"
    BY <1>1, Constants DEF Crash
  <2> QED
    BY <2>1, NewSessionNotShortened DEF KeptInv, LongEnough, Shortened
<1>2. CASE Restart
  <2>1. UNCHANGED <<disk, turn>> /\ turn.at = "idle"
    BY <1>2, Constants DEF Restart, TypeInv, ProcessType
  <2>2. session' = NewSession \/ (disk # Torn /\ session' = disk)
    BY <1>2 DEF Restart
  <2> QED
    BY <2>1, <2>2, NewSessionNotShortened DEF KeptInv, LongEnough, Shortened
<1> QED
  BY <1>1, <1>2

LEMMA KeptStep == TypeInv /\ KeptInv /\ [Next]_vars => KeptInv'
<1> SUFFICES ASSUME TypeInv, KeptInv, [Next]_vars PROVE KeptInv'
  OBVIOUS
<1>1. CASE UNCHANGED vars
  BY <1>1 DEF vars, KeptInv, LongEnough, Shortened, EndsAt
<1> QED
  BY <1>1, TurnKeepsEnough, SummarizerKeepsEnough, ProcessKeepsEnough DEF Next

(* A history without a gap that is long enough has the recent messages. *)
LEMMA LongEnoughKeepsRecent ==
  ASSUME NEW hist \in Seq(Positions), NEW n \in Nat, EndsAt(hist, n),
         hist # <<>> /\ Head(hist) # 1 => Len(hist) >= KeepLast,
         hist = <<>> => n = 0
  PROVE  KeepsRecent(hist, n)
<1> DEFINE len == Len(hist)
<1> SUFFICES ASSUME NEW i \in 1 .. n, n < i + KeepLast
             PROVE  i \in ToSet(hist)
  BY DEF KeepsRecent
<1>1. hist # <<>> /\ len \in Nat \ {0} /\ DOMAIN hist = 1 .. len /\ KeepLast \in Nat
  BY EmptySeq, LenProperties, SessionAssumption
<1>2. \A k \in 1 .. len : hist[k] = n - len + k
  BY <1>1 DEF EndsAt
<1>3. n < i + len
  <2>1. CASE Head(hist) # 1
    BY <1>1, <2>1
  <2>2. CASE Head(hist) = 1
    <3>1. n - len + 1 = 1
      BY <1>1, <1>2, <2>2
    <3> QED
      BY <1>1, <3>1
  <2> QED
    BY <2>1, <2>2
<1>4. i <= n /\ n \in Nat /\ i \in Nat
  OBVIOUS
<1>5. i - n + len \in 1 .. len
  BY <1>1, <1>3, <1>4
<1>6. hist[i - n + len] = i
  BY <1>1, <1>2, <1>4, <1>5
<1> QED
  BY <1>1, <1>5, <1>6 DEF ToSet

LEMMA KeptImplies == TypeInv /\ KeptInv => RecentMessagesKept
<1> SUFFICES ASSUME TypeInv, KeptInv PROVE RecentMessagesKept
  OBVIOUS
<1>1. Len(log) \in Nat /\ (log = <<>> => Len(log) = 0)
  BY TurnFacts, EmptySeq
<1>2. up => KeepsRecent(session.hist, Len(log))
  BY <1>1, TurnFacts, LongEnoughKeepsRecent DEF TypeInv, HistInv, KeptInv, LongEnough, Shortened
<1>3. ASSUME disk # Torn, disk.hist # <<>>
      PROVE  KeepsRecent(disk.hist, Last(disk.hist))
  <2>1. disk \in Sessions /\ disk.hist \in Seq(Positions)
    BY <1>3 DEF TypeInv, MemoryType, Sessions
  <2>2. PICK n \in 0 .. Len(log) : EndsAt(disk.hist, n)
    BY <1>3 DEF TypeInv, HistInv
  <2>3. n \in Nat /\ Last(disk.hist) = n
    BY <1>1, <1>3, <2>1, <2>2, LastOfEnd
  <2> QED
    BY <1>3, <2>1, <2>2, <2>3, LongEnoughKeepsRecent DEF KeptInv, LongEnough, Shortened
<1>4. ASSUME turn.at \in {"summary", "user"}
      PROVE  KeepsRecent(turn.view.hist, Len(log))
  <2>1. turn.view.hist \in Seq(Positions)
    BY TurnFacts DEF Sessions
  <2> QED
    BY <1>1, <1>4, <2>1, LongEnoughKeepsRecent DEF KeptInv, LongEnough, Shortened
<1> QED
  BY <1>2, <1>3, <1>4 DEF RecentMessagesKept

(* The last messages of a conversation, as many as a truncation keeps, are *)
(* in its history, in every readable file as far as it reaches, and in     *)
(* what a turn shows the model, whatever was appended while the summarizer *)
(* waited for its summary.                                                 *)
THEOREM RecentMessagesStay == Spec => []RecentMessagesKept
  BY TypeInvariance, InitKept, KeptStep, KeptImplies, PTL DEF Spec

=============================================================================
