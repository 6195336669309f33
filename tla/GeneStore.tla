------------------------------ MODULE GeneStore ------------------------------
(***************************************************************************)
(* The gene engine (pkg/gene): genes and capsules in memory, the three     *)
(* files of the store, and the turns that solidify an experience.          *)
(*                                                                         *)
(* Two goroutines run turns, Run and the cron loop, and both end up in     *)
(* Solidify: on their own after a tool (afterToolExecution) or because the *)
(* model calls report_gene.  Every call of the store takes its lock; the   *)
(* calls of one Solidify are separate actions here.  The store belongs to  *)
(* one process.                                                            *)
(*                                                                         *)
(* A strategy is whether it has steps; of several matching genes any one   *)
(* is selected, whatever the scores.  Confidence is counted in thousandths *)
(* and rounded down.                                                       *)
(***************************************************************************)
EXTENDS Integers, Sequences, FiniteSets

CONSTANTS
    Workers,        \* the goroutines that run turns
    Seeds,          \* identifiers of the seed genes
    Signals,        \* signals that may be seen or reported
    Intent,         \* [Signals -> category or NoIntent], inferIntent's table
    SeedGenes,      \* [Seeds -> Genes]
    MinConfidence, MinVerifiedBy, AllowUnverified, Categories,   \* the preset
    NoGene,         \* the empty gene id
    NoIntent,       \* a signal inferIntent does not know
    Torn,           \* the content of a file that does not parse
    MaxTime,        \* bound: the clock
    MaxExperiences, \* bound: experiences that are solidified
    MaxFaults       \* bound: crashes, failed writes and files that could not be read

Intents == {"repair", "optimize", "innovate"}
Outcomes == {"success", "partial", "failed"}

Genes == [confidence : 0 .. 1000, verified : Nat,
          category : Intents, match : SUBSET Signals]

ASSUME PresetAssumption ==
    /\ MinConfidence \in 0 .. 1000 /\ MinVerifiedBy \in Nat
    /\ AllowUnverified \in BOOLEAN /\ Categories \subseteq Intents

ASSUME SeedAssumption ==
    /\ SeedGenes \in [Seeds -> Genes] /\ Seeds # {}
    /\ \A s \in Seeds : SeedGenes[s].verified = 0
    /\ Intent \in [Signals -> Intents \union {NoIntent}]
    /\ NoIntent \notin Intents

ASSUME WorkersAssumption == IsFiniteSet(Workers)

ASSUME BoundAssumption ==
    MaxTime \in Nat /\ MaxExperiences \in Nat /\ MaxFaults \in Nat

(* gene_learned_<ms> and cap_<ms>: a learned gene and a capsule are named  *)
(* by the instant of their Solidify.                                       *)
Times == 0 .. MaxTime
GeneIds == Seeds \union Times

ASSUME IdAssumption ==
    Seeds \intersect Times = {} /\ NoGene \notin GeneIds

IsTable(t) == \E ids \in SUBSET GeneIds : t \in [ids -> Genes]
NoGenes == [g \in {} |-> SeedGenes[g]]


(* GeneID of a capsule is the gene that was selected, if any. *)
Capsules == [id : Times, gene : GeneIds \union {NoGene}, outcome : Outcomes]

ASSUME TornAssumption == ~IsTable(Torn) /\ Torn \notin Seq(Capsules)

VARIABLES
    now,            \* milliseconds
    up,             \* the gateway's process exists
    ready,          \* it has an engine: the store could be read
    genes,          \* s.genes: from gene id to gene
    capsules,       \* s.capsules
    genesFile,      \* genes.json; one that does not exist reads like an empty one
    capsulesFile,   \* capsules.json
    events,         \* what was written to events.jsonl
    worker,         \* where each goroutine is in Solidify
    faults,         \* crashes and failed writes so far
    learned,        \* history: ids of the genes whose creation succeeded
    misread,        \* history: the files that a boot failed to read
    experiences     \* how many there were so far

vars == <<now, up, ready, genes, capsules, genesFile, capsulesFile, events,
          worker, faults, learned, misread, experiences>>
memory == <<genes, capsules>>
files == <<genesFile, capsulesFile, events>>

(* Places in Solidify: about to call AddCapsule, GetGene, UpdateGene,      *)
(* AddGene, AppendEvent.  "then" is where it goes after AddCapsule; "gene" *)
(* is GeneID of the result and "copy" the gene GetGene returned, adjusted. *)
(* The signals are kept if a new gene will get them.                       *)
Places == {"idle", "capsule", "get", "update", "create", "event"}

Works == [at : Places, then : {"get", "create", "event"}, capsule : Capsules,
          signals : SUBSET Signals, gene : GeneIds \union {NoGene}, copy : Genes]

IdleWorker == [at |-> "idle",
               capsule |-> [id |-> 0, gene |-> NoGene, outcome |-> "success"],
               then |-> "event", signals |-> {}, gene |-> NoGene,
               copy |-> SeedGenes[CHOOSE s \in Seeds : TRUE]]

Init ==
    /\ now = 0
    /\ up = FALSE /\ ready = FALSE
    /\ genes = NoGenes /\ capsules = <<>>
    /\ genesFile = NoGenes /\ capsulesFile = <<>> /\ events = {}
    /\ worker = [w \in Workers |-> IdleWorker]
    /\ faults = 0
    /\ learned = {}
    /\ misread = {} /\ experiences = 0

-----------------------------------------------------------------------------
(* Selection. *)

Eligible(gene) ==
    /\ AllowUnverified \/ gene.verified >= MinVerifiedBy
    /\ gene.confidence >= MinConfidence
    /\ gene.category \in Categories

(* ScoreGene is positive when the gene asks for one of the signals. *)
Matches(gene, signals) == gene.match \intersect signals # {}

Selected(signals) ==
    {g \in DOMAIN genes : Eligible(genes[g]) /\ Matches(genes[g], signals)}

(* The first known signal decides; signals come in any order. *)
InferredIntents(signals) ==
    LET known == {Intent[s] : s \in signals} \ {NoIntent}
    IN  IF known = {} THEN {"optimize"} ELSE known

(* Mutant: the boost grows with the confidence. *)
AdjustedConfidenceGrowing(c, outcome) ==
    CASE outcome = "success" -> c + ((1000 + c) * 10) \div 100
      [] outcome = "partial" -> c + ((1000 - c) * 3) \div 100
      [] outcome = "failed"  -> c - (c * 15) \div 100

(* The clamps that follow in the code never apply. *)
AdjustedConfidence(c, outcome) ==
    CASE outcome = "success" -> c + ((1000 - c) * 10) \div 100
      [] outcome = "partial" -> c + ((1000 - c) * 3) \div 100
      [] outcome = "failed"  -> c - (c * 15) \div 100

(* What a capsule does to its gene. *)
Adjusted(gene, outcome) ==
    [gene EXCEPT !.confidence = AdjustedConfidence(@, outcome),
                 !.verified = IF outcome = "success" THEN @ + 1 ELSE @]

NewGene(category, signals) ==
    [confidence |-> 500, verified |-> 1, category |-> category, match |-> signals]

-----------------------------------------------------------------------------
(* Files.  os.WriteFile truncates and writes: a failure leaves the old     *)
(* content or one that does not parse.                                     *)

Fault == faults + Cardinality(misread) < MaxFaults /\ faults' = faults + 1

GenesSaved(table) == genesFile' = table /\ UNCHANGED faults
GenesNotSaved == Fault /\ genesFile' \in {genesFile, Torn}

CapsulesSaved(list) == capsulesFile' = list /\ UNCHANGED faults
CapsulesNotSaved == Fault /\ capsulesFile' \in {capsulesFile, Torn}

-----------------------------------------------------------------------------
(* A turn decides to solidify. *)

(* A gene that was used is updated, a novel success with a strategy makes  *)
(* a new one.                                                              *)
AfterCapsule(gene, steps, outcome) ==
    CASE gene # NoGene -> "get"
      [] gene = NoGene /\ outcome = "success" /\ steps -> "create"
      [] OTHER -> "event"

Solidify(w, gene, signals, steps, outcome) ==
    /\ ready /\ worker[w].at = "idle"
    /\ experiences < MaxExperiences /\ experiences' = experiences + 1
    /\ LET then == AfterCapsule(gene, steps, outcome)
       IN  worker' = [worker EXCEPT
             ![w] = [IdleWorker EXCEPT !.at = "capsule", !.then = then,
                       !.capsule = [id |-> now, gene |-> gene, outcome |-> outcome],
                       !.signals = IF then = "create" THEN signals ELSE {}]]
    /\ UNCHANGED <<now, up, ready, memory, files, faults, learned, misread>>

(* ConsiderSolidify: the copy of the genes it selects from is old by the   *)
(* time the selected gene is updated.                                      *)
ConsiderSolidify(w, signals, outcome) ==
    \E gene \in IF Selected(signals) = {} THEN {NoGene} ELSE Selected(signals) :
        Solidify(w, gene, signals, TRUE, outcome)

(* ExtractSignalsFromText finds any set of signals in a tool's result. *)
ExtractedSignals == SUBSET Signals

(* afterToolExecution: a result with signals is good, or, when it speaks   *)
(* of errors, partly good; its strategy is "executed that tool".           *)
AfterToolExecution(w) ==
    \E signals \in ExtractedSignals \ {{}}, outcome \in {"success", "partial"} :
        ConsiderSolidify(w, signals, outcome)

(* The report_gene tool: no gene is ever named. *)
ReportGene(w) ==
    \E signals \in SUBSET Signals, steps \in BOOLEAN, outcome \in Outcomes :
        Solidify(w, NoGene, signals, steps, outcome)

-----------------------------------------------------------------------------
(* The calls of Solidify. *)

(* Mutant: a capsule that could not be saved is only logged. *)
AddCapsuleLogged(w) ==
    /\ worker[w].at = "capsule"
    /\ capsules' = Append(capsules, worker[w].capsule)
    /\ CapsulesSaved(capsules') \/ CapsulesNotSaved
    /\ worker' = [worker EXCEPT ![w].at = worker[w].then]
    /\ UNCHANGED <<now, up, ready, genes, genesFile, events,
                   learned, misread, experiences>>

(* AddCapsule.  When the save fails the capsule stays in memory, and       *)
(* Solidify returns the error.                                             *)
AddCapsule(w) ==
    /\ worker[w].at = "capsule"
    /\ capsules' = Append(capsules, worker[w].capsule)
    /\ \/ /\ CapsulesSaved(capsules')
          /\ worker' = [worker EXCEPT ![w].at = worker[w].then]
       \/ /\ CapsulesNotSaved
          /\ worker' = [worker EXCEPT ![w] = IdleWorker]
    /\ UNCHANGED <<now, up, ready, genes, genesFile, events,
                   learned, misread, experiences>>

(* GetGene returns a copy; updateGeneFromCapsule changes it.  No gene is   *)
(* ever removed, so that one that was selected is found.                   *)
GetGene(w) ==
    /\ worker[w].at = "get"
    /\ LET capsule == worker[w].capsule
       IN  worker' = [worker EXCEPT
             ![w].at = "update", ![w].gene = capsule.gene,
             ![w].copy = Adjusted(genes[capsule.gene], capsule.outcome)]
    /\ UNCHANGED <<now, up, ready, memory, files, faults,
                   learned, misread, experiences>>

UpdateGene(w) ==
    /\ worker[w].at = "update"
    /\ genes' = [genes EXCEPT ![worker[w].gene] = worker[w].copy]
    /\ \/ /\ GenesSaved(genes')
          /\ worker' = [worker EXCEPT ![w].at = "event", ![w].copy = IdleWorker.copy]
       \/ /\ GenesNotSaved
          /\ worker' = [worker EXCEPT ![w] = IdleWorker]
    /\ UNCHANGED <<now, up, ready, capsules, capsulesFile, events,
                   learned, misread, experiences>>

WithGene(id, gene) ==
    [g \in DOMAIN genes \union {id} |-> IF g = id THEN gene ELSE genes[g]]

(* Mutant: Solidify goes on when the gene could not be saved. *)
CreateGeneLogged(w) ==
    /\ worker[w].at = "create"
    /\ LET id == worker[w].capsule.id IN
       /\ \E category \in InferredIntents(worker[w].signals) :
            genes' = WithGene(id, NewGene(category, worker[w].signals))
       /\ \/ GenesSaved(genes') /\ learned' = learned \union {id}
          \/ GenesNotSaved /\ UNCHANGED learned
       /\ worker' = [worker EXCEPT ![w].at = "event", ![w].gene = id]
    /\ UNCHANGED <<now, up, ready, capsules, capsulesFile, events,
                   misread, experiences>>

(* createGeneFromExperience and AddGene: a gene with the same id is        *)
(* replaced.  The stored capsule keeps its empty gene id: only a local     *)
(* copy gets the new one.                                                  *)
CreateGene(w) ==
    /\ worker[w].at = "create"
    /\ LET id == worker[w].capsule.id IN
       /\ \E category \in InferredIntents(worker[w].signals) :
            genes' = WithGene(id, NewGene(category, worker[w].signals))
       /\ \/ /\ GenesSaved(genes')
             /\ learned' = learned \union {id}
             /\ worker' = [worker EXCEPT ![w].at = "event", ![w].gene = id]
          \/ /\ GenesNotSaved
             /\ worker' = [worker EXCEPT ![w] = IdleWorker]
             /\ UNCHANGED learned
    /\ UNCHANGED <<now, up, ready, capsules, capsulesFile, events,
                   misread, experiences>>

(* AppendEvent.  A failed write loses the event. *)
AppendEvent(w) ==
    /\ worker[w].at = "event"
    /\ \/ /\ events' = events \union {[capsule |-> worker[w].capsule.id, gene |-> worker[w].gene]}
          /\ UNCHANGED faults
       \/ Fault /\ UNCHANGED events
    /\ worker' = [worker EXCEPT ![w] = IdleWorker]
    /\ UNCHANGED <<now, up, ready, memory, genesFile, capsulesFile,
                   learned, misread, experiences>>

-----------------------------------------------------------------------------
(* The process. *)

(* Mutant: a file that does not parse is taken for an empty one. *)
ReadReseeding(lost) ==
    /\ capsules' = IF capsulesFile = Torn THEN <<>> ELSE capsulesFile
    /\ IF genesFile \in {Torn, NoGenes}
       THEN /\ genes' = SeedGenes
            /\ GenesSaved(SeedGenes) \/ GenesNotSaved
       ELSE /\ genes' = genesFile
            /\ UNCHANGED <<genesFile, faults>>

(* Init of the store and SeedIfEmpty.  Init looks at no error of ReadFile: *)
(* a file in "lost" is there and cannot be read, and is taken for one that *)
(* is not.  That the seeds could not be saved is only logged.              *)
Read(lost) ==
    /\ "genes" \in lost \/ genesFile # Torn
    /\ "capsules" \in lost \/ capsulesFile # Torn
    /\ capsules' = IF "capsules" \in lost THEN <<>> ELSE capsulesFile
    /\ \/ /\ "genes" \in lost \/ genesFile = NoGenes
          /\ genes' = SeedGenes
          /\ GenesSaved(SeedGenes) \/ GenesNotSaved
       \/ /\ "genes" \notin lost /\ genesFile # NoGenes
          /\ genes' = genesFile
          /\ UNCHANGED <<genesFile, faults>>

FilesThere ==
    {f \in {"genes", "capsules"} :
        IF f = "genes" THEN genesFile # NoGenes ELSE capsulesFile # <<>>}

(* The gateway starts, with an engine. *)
Boot ==
    /\ ~up /\ up' = TRUE /\ ready' = TRUE
    /\ \E lost \in SUBSET FilesThere :
         /\ Read(lost)
         /\ misread' = misread \union lost
         /\ faults' + Cardinality(misread') <= MaxFaults
    /\ UNCHANGED <<now, capsulesFile, events, worker, learned, experiences>>

(* Init of the store fails: the gateway runs without an engine. *)
BootUnreadable ==
    /\ ~up /\ up' = TRUE
    /\ genesFile = Torn \/ capsulesFile = Torn
    /\ UNCHANGED <<now, ready, memory, files, worker, faults,
                   learned, misread, experiences>>

(* The process ends, maybe in the middle of a write. *)
Crash ==
    /\ up /\ Fault
    /\ up' = FALSE /\ ready' = FALSE
    /\ genes' = NoGenes /\ capsules' = <<>>
    /\ worker' = [w \in Workers |-> IdleWorker]
    /\ \/ UNCHANGED <<genesFile, capsulesFile>>
       \/ /\ \E w \in Workers : worker[w].at = "capsule"
          /\ capsulesFile' = Torn /\ UNCHANGED genesFile
       \/ /\ \E w \in Workers : worker[w].at \in {"update", "create"}
          /\ genesFile' = Torn /\ UNCHANGED capsulesFile
    /\ UNCHANGED <<now, events, learned, misread, experiences>>

Tick ==
    /\ now < MaxTime /\ now' = now + 1
    /\ UNCHANGED <<up, ready, memory, files, worker, faults,
                   learned, misread, experiences>>

Next ==
    \/ \E w \in Workers :
         \/ AfterToolExecution(w) \/ ReportGene(w)
         \/ AddCapsule(w) \/ GetGene(w) \/ UpdateGene(w) \/ CreateGene(w) \/ AppendEvent(w)
    \/ Boot \/ BootUnreadable \/ Crash
    \/ Tick

Spec == Init /\ [][Next]_vars

-----------------------------------------------------------------------------
(* Only an engine that is there is used, and the gene that is about to be  *)
(* fetched or updated exists.                                              *)
Consistent(work) ==
    /\ work.at # "idle" => ready
    /\ work.at = "capsule" => (work.then = "get" <=> work.capsule.gene # NoGene)
    /\ work.at \in {"capsule", "get"} => work.capsule.gene \in DOMAIN genes \union {NoGene}
    /\ work.at = "get" => work.capsule.gene # NoGene
    /\ work.at = "update" => work.gene = work.capsule.gene /\ work.gene \in DOMAIN genes

(* Types: work under way is consistent, and every confidence stays between *)
(* 0 and 1, also without the clamps.                                       *)
TypeOK ==
    /\ now \in Times /\ up \in BOOLEAN /\ ready \in BOOLEAN /\ (ready => up)
    /\ IsTable(genes) /\ capsules \in Seq(Capsules)
    /\ genesFile # Torn => IsTable(genesFile)
    /\ capsulesFile # Torn => capsulesFile \in Seq(Capsules)
    /\ events \subseteq [capsule : Times, gene : GeneIds \union {NoGene}]
    /\ worker \in [Workers -> Works] /\ \A w \in Workers : Consistent(worker[w])
    /\ faults \in 0 .. MaxFaults /\ experiences \in 0 .. MaxExperiences
    /\ learned \subseteq Times /\ misread \subseteq {"genes", "capsules"}

(* VerifiedBy of a gene when it comes into being. *)
InitialVerified(g) == IF g \in Seeds THEN 0 ELSE 1

Successes(list, g) ==
    Cardinality({i \in DOMAIN list : list[i].gene = g /\ list[i].outcome = "success"})

Backed(table, list) ==
    \A g \in DOMAIN table : table[g].verified <= InitialVerified(g) + Successes(list, g)

(* No gene claims a verification for which no successful capsule is kept,  *)
(* in memory or between the two files, whatever turns overlap, writes fail *)
(* or crashes come between the capsule and the gene, also when the genes   *)
(* could not be read: only a capsules.json that could not be read takes    *)
(* the capsules away.                                                      *)
VerificationsBacked ==
  "capsules" \notin misread =>
    /\ Backed(genes, capsules)
    /\ genesFile # Torn /\ capsulesFile # Torn => Backed(genesFile, capsulesFile)

HasCapsule(list, id) == \E i \in DOMAIN list : list[i].id = id

(* Stored, unless the file could not be read: the next save then replaces  *)
(* it by what little there is in memory.                                   *)
CapsuleStored(id) ==
  "capsules" \notin misread =>
    /\ ready => HasCapsule(capsules, id)
    /\ capsulesFile # Torn => HasCapsule(capsulesFile, id)

GeneStored(g) ==
  "genes" \notin misread =>
    /\ ready => g \in DOMAIN genes
    /\ genesFile # Torn => g \in DOMAIN genesFile

(* The audit trail names nothing that is not stored: the capsule and the   *)
(* gene of an event are in their files, and in memory when there is one,   *)
(* unless that file could not be read.                                     *)
EventsBacked ==
    \A e \in events :
      CapsuleStored(e.capsule) /\ (e.gene # NoGene => GeneStored(e.gene))

(* A gene whose creation was reported as done is never lost again: it is   *)
(* in memory, and in every genes.json that parses, unless a genes.json     *)
(* could not be read.                                                      *)
LearnedGenesKept == \A g \in learned : GeneStored(g)

(* What "Increment verified_by for successful capsules" (solidify.go)      *)
(* says: with nothing failed and no Solidify under way, a gene counts      *)
(* every successful capsule that names it.                                 *)
SuccessesCounted ==
    (faults = 0 /\ misread = {} /\ \A w \in Workers : worker[w].at = "idle") =>
      \A g \in DOMAIN genes : genes[g].verified = InitialVerified(g) + Successes(capsules, g)

=============================================================================
