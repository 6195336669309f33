--------------------------- MODULE GeneStoreProofs ---------------------------
(***************************************************************************)
(* Theorems about GeneStore: its types, and that verifications, events and *)
(* learned genes are backed by what is stored.                             *)
(***************************************************************************)
EXTENDS GeneStore, FiniteSetTheorems, TLAPS

(* The empty store and the seeds are gene tables; a worker that does       *)
(* nothing has a value.                                                    *)
LEMMA Constants ==
  /\ IsTable(NoGenes) /\ DOMAIN NoGenes = {}
  /\ IsTable(SeedGenes) /\ DOMAIN SeedGenes = Seeds
  /\ IdleWorker \in Works /\ IdleWorker.at = "idle" /\ IdleWorker.gene = NoGene
  /\ 0 \in Times
<1>1. 0 \in Times
  BY BoundAssumption DEF Times
<1>2. IsTable(NoGenes) /\ DOMAIN NoGenes = {}
  <2>1. NoGenes \in [{} -> Genes] /\ DOMAIN NoGenes = {}
    BY DEF NoGenes
  <2>2. {} \in SUBSET GeneIds
    OBVIOUS
  <2> QED
    BY <2>1, <2>2 DEF IsTable
<1>3. IsTable(SeedGenes) /\ DOMAIN SeedGenes = Seeds
  BY SeedAssumption DEF IsTable, GeneIds
<1>4. SeedGenes[CHOOSE s \in Seeds : TRUE] \in Genes
  BY SeedAssumption
<1>5. IdleWorker \in Works /\ IdleWorker.at = "idle" /\ IdleWorker.gene = NoGene
  BY <1>1, <1>4 DEF IdleWorker, Works, Places, Capsules, Outcomes
<1> QED
  BY <1>1, <1>2, <1>3, <1>5

(* Confidence stays between 0 and 1. *)
LEMMA ConfidenceBounds ==
  ASSUME NEW c \in 0 .. 1000, NEW outcome \in Outcomes
  PROVE  AdjustedConfidence(c, outcome) \in 0 .. 1000
<1> DEFINE success == c + ((1000 - c) * 10) \div 100
           partial == c + ((1000 - c) * 3) \div 100
           failed == c - (c * 15) \div 100
           values == 0 .. 1000
<1>1. success \in values
  OBVIOUS
<1>2. partial \in values
  OBVIOUS
<1>3. failed \in values
  OBVIOUS
<1>4. AdjustedConfidence(c, outcome) =
        CASE outcome = "success" -> success
          [] outcome = "partial" -> partial
          [] outcome = "failed"  -> failed
  BY Zenon DEF AdjustedConfidence
<1> HIDE DEF success, partial, failed, values
<1>5. AdjustedConfidence(c, outcome) \in values
  BY <1>1, <1>2, <1>3, <1>4 DEF Outcomes
<1> QED
  BY <1>5 DEF values

(* A capsule keeps a gene a gene. *)
LEMMA AdjustedType ==
  ASSUME NEW gene \in Genes, NEW outcome \in Outcomes
  PROVE  Adjusted(gene, outcome) \in Genes
<1> DEFINE c == AdjustedConfidence(gene.confidence, outcome)
           v == IF outcome = "success" THEN gene.verified + 1 ELSE gene.verified
<1>1. c \in 0 .. 1000
  <2> DEFINE confidence == gene.confidence
  <2>1. confidence \in 0 .. 1000
    BY DEF Genes
  <2> HIDE DEF confidence
  <2> DEFINE values == 0 .. 1000
  <2>2. \A x \in values, o \in Outcomes : AdjustedConfidence(x, o) \in values
    BY ConfidenceBounds
  <2>3. confidence \in values
    BY <2>1
  <2> HIDE DEF values
  <2>4. AdjustedConfidence(confidence, outcome) \in values
    BY <2>2, <2>3, Zenon
  <2> QED
    BY <2>4 DEF confidence, values
<1>2. v \in Nat
  <2>1. gene.verified \in Nat
    BY DEF Genes
  <2> QED
    BY <2>1
<1> DEFINE g == [gene EXCEPT !.confidence = c]
<1>3. Adjusted(gene, outcome) = [g EXCEPT !.verified = v]
  BY Zenon DEF Adjusted
<1> HIDE DEF c, v
<1>4. g \in Genes
  BY <1>1 DEF Genes
<1> HIDE DEF g
<1>5. [g EXCEPT !.verified = v] \in Genes
  BY <1>2, <1>4 DEF Genes
<1> QED
  BY <1>3, <1>5

(* What a capsule does to the number of verifications. *)
LEMMA AdjustedVerified ==
  ASSUME NEW gene \in Genes, NEW outcome \in Outcomes
  PROVE  Adjusted(gene, outcome).verified =
           IF outcome = "success" THEN gene.verified + 1 ELSE gene.verified
BY DEF Adjusted, Genes

(* Replacing or adding a gene leaves a gene table. *)
LEMMA TableUpdate ==
  ASSUME IsTable(genes), NEW id \in GeneIds, NEW gene \in Genes
  PROVE  /\ IsTable([genes EXCEPT ![id] = gene])
         /\ DOMAIN [genes EXCEPT ![id] = gene] = DOMAIN genes
         /\ IsTable(WithGene(id, gene))
         /\ DOMAIN WithGene(id, gene) = DOMAIN genes \union {id}
<1> PICK ids \in SUBSET GeneIds : genes \in [ids -> Genes]
  BY DEF IsTable
<1>1. [genes EXCEPT ![id] = gene] \in [ids -> Genes]
  OBVIOUS
<1>2. WithGene(id, gene) \in [ids \union {id} -> Genes]
  BY DEF WithGene
<1> QED
  BY <1>1, <1>2 DEF IsTable

(* The new gene of an experience is a gene. *)
LEMMA NewGeneType ==
  ASSUME NEW signals \in SUBSET Signals, NEW category \in InferredIntents(signals)
  PROVE  NewGene(category, signals) \in Genes
<1>1. category \in Intents
  BY SeedAssumption DEF InferredIntents, Intents
<1> QED
  BY <1>1 DEF NewGene, Genes

-----------------------------------------------------------------------------
(* The effects of the actions: the value a goroutine gets, and what        *)
(* becomes of the rest.                                                    *)
Others == <<now, up, ready, genes, capsules, files, learned, faults>>

(* Solidify begins: the goroutine is about to add a capsule, nothing else  *)
(* changes.                                                                *)
LEMMA SolidifyEffect ==
  ASSUME TypeOK, NEW w \in Workers,
         NEW gene \in DOMAIN genes \union {NoGene}, NEW signals \in SUBSET Signals,
         NEW steps, NEW outcome \in Outcomes,
         Solidify(w, gene, signals, steps, outcome)
  PROVE  \E work \in Works :
           /\ worker' = [worker EXCEPT ![w] = work]
           /\ work.at = "capsule" /\ work.gene = NoGene
           /\ work.then = "get" <=> gene # NoGene
           /\ work.capsule = [id |-> now, gene |-> gene, outcome |-> outcome]
           /\ ready /\ UNCHANGED Others
<1> DEFINE then == AfterCapsule(gene, steps, outcome)
           capsule == [id |-> now, gene |-> gene, outcome |-> outcome]
           work == [IdleWorker EXCEPT !.at = "capsule", !.then = then,
                      !.capsule = capsule,
                      !.signals = IF then = "create" THEN signals ELSE {}]
<1>1. then \in {"get", "create", "event"} /\ (then = "get" <=> gene # NoGene)
  BY DEF AfterCapsule
<1>2. worker' = [worker EXCEPT ![w] = work] /\ ready /\ UNCHANGED Others
  BY DEF Solidify, Others, memory, files
<1> HIDE DEF then
<1>3. capsule \in Capsules
  BY DEF TypeOK, Capsules, IsTable
<1>4. work \in Works
  BY <1>1, <1>3, Constants DEF Works, Places
<1>5. /\ work.at = "capsule" /\ work.then = then
      /\ work.capsule = capsule /\ work.gene = NoGene
  BY Constants DEF Works
<1> QED
  BY <1>1, <1>2, <1>4, <1>5

(* A fault keeps to the bound, whatever could not be read. *)
LEMMA FaultBound ==
  ASSUME TypeOK, Fault
  PROVE  faults' \in 0 .. MaxFaults
<1>1. Cardinality(misread) \in Nat
  <2>1. IsFiniteSet({"genes", "capsules"})
    <3>1. IsFiniteSet({"capsules"})
      BY FS_Singleton
    <3>2. IsFiniteSet({"capsules"} \union {"genes"})
      BY <3>1, FS_AddElement
    <3>3. {"genes", "capsules"} = {"capsules"} \union {"genes"}
      OBVIOUS
    <3> QED
      BY <3>2, <3>3
  <2>2. misread \subseteq {"genes", "capsules"}
    BY DEF TypeOK
  <2>3. IsFiniteSet(misread)
    BY <2>1, <2>2, FS_Subset
  <2> QED
    BY <2>3, FS_CardinalityType
<1>2. faults \in 0 .. MaxFaults /\ MaxFaults \in Nat
  BY BoundAssumption DEF TypeOK
<1>3. faults + Cardinality(misread) < MaxFaults /\ faults' = faults + 1
  BY DEF Fault
<1> QED
  BY <1>1, <1>2, <1>3

(* AddCapsule puts one capsule at the end; when the save fails Solidify     *)
(* ends there.                                                             *)
LEMMA AddCapsuleEffect ==
  ASSUME TypeOK, NEW w \in Workers, AddCapsule(w)
  PROVE  /\ ready /\ capsules' = Append(capsules, worker[w].capsule)
         /\ UNCHANGED <<now, up, ready, genes, genesFile, events, learned>>
         /\ \/ /\ capsulesFile' = capsules'
               /\ faults' = faults
               /\ \E work \in Works :
                    /\ worker' = [worker EXCEPT ![w] = work]
                    /\ work.at = worker[w].then /\ work.capsule = worker[w].capsule
                    /\ work.gene = worker[w].gene /\ work.copy = worker[w].copy
            \/ /\ capsulesFile' \in {capsulesFile, Torn}
               /\ faults' \in 0 .. MaxFaults
               /\ worker' = [worker EXCEPT ![w] = IdleWorker]
<1> DEFINE work == [worker[w] EXCEPT !.at = worker[w].then]
<1>1. ready
  BY DEF TypeOK, Consistent, AddCapsule
<1>2. work \in Works /\ work.at = worker[w].then /\ work.capsule = worker[w].capsule
      /\ work.gene = worker[w].gene /\ work.copy = worker[w].copy
  BY DEF TypeOK, Works, Places
<1>3. CASE CapsulesSaved(capsules') /\ worker' = [worker EXCEPT ![w].at = worker[w].then]
  <2>1. worker' = [worker EXCEPT ![w] = work]
    BY <1>3 DEF TypeOK
  <2> QED
    BY <1>1, <1>2, <1>3, <2>1 DEF AddCapsule, CapsulesSaved
<1>4. CASE CapsulesNotSaved /\ worker' = [worker EXCEPT ![w] = IdleWorker]
  BY <1>1, <1>4, FaultBound DEF AddCapsule, CapsulesNotSaved, TypeOK
<1> QED
  BY <1>3, <1>4 DEF AddCapsule

(* GetGene takes an adjusted copy of a gene that exists.                   *)
LEMMA GetGeneEffect ==
  ASSUME TypeOK, NEW w \in Workers, GetGene(w)
  PROVE  /\ ready /\ worker[w].at = "get" /\ worker[w].capsule.gene \in DOMAIN genes
         /\ UNCHANGED Others
         /\ \E work \in Works :
              /\ worker' = [worker EXCEPT ![w] = work]
              /\ work.at = "update" /\ work.capsule = worker[w].capsule
              /\ work.gene = worker[w].capsule.gene
              /\ work.copy = Adjusted(genes[worker[w].capsule.gene],
                                      worker[w].capsule.outcome)
<1> DEFINE gene == worker[w].capsule.gene
           copy == Adjusted(genes[gene], worker[w].capsule.outcome)
           work == [worker[w] EXCEPT !.at = "update", !.gene = gene, !.copy = copy]
<1>1. worker[w].at = "get" /\ ready /\ gene \in DOMAIN genes /\ UNCHANGED Others
  BY DEF TypeOK, Consistent, GetGene, Others, memory
<1>2. worker' = [worker EXCEPT ![w] = work]
  BY DEF GetGene, TypeOK, Works
<1>3. copy \in Genes
  <2>1. genes[gene] \in Genes
    BY <1>1 DEF TypeOK, IsTable
  <2>2. worker[w].capsule.outcome \in Outcomes
    BY DEF TypeOK, Works, Capsules
  <2> QED
    BY <2>1, <2>2, AdjustedType
<1>4. gene \in GeneIds \union {NoGene}
  BY DEF TypeOK, Works, Capsules
<1> HIDE DEF copy, gene
<1>5. work \in Works /\ work.at = "update" /\ work.capsule = worker[w].capsule
      /\ work.gene = gene /\ work.copy = copy
  BY <1>3, <1>4 DEF TypeOK, Works, Places
<1> QED
  BY <1>1, <1>2, <1>5 DEF copy, gene

(* UpdateGene and AddGene both replace the table; "table" is the new one.  *)
LEMMA UpdateGeneEffect ==
  ASSUME TypeOK, NEW w \in Workers, UpdateGene(w)
  PROVE  /\ ready /\ worker[w].at = "update"
         /\ genes' = [genes EXCEPT ![worker[w].gene] = worker[w].copy]
         /\ IsTable(genes') /\ DOMAIN genes' = DOMAIN genes
         /\ worker[w].gene \in DOMAIN genes
         /\ UNCHANGED <<now, up, ready, capsules, capsulesFile, events, learned>>
         /\ \/ /\ genesFile' = genes' /\ faults' = faults
               /\ \E work \in Works :
                    /\ worker' = [worker EXCEPT ![w] = work]
                    /\ work.at = "event" /\ work.capsule = worker[w].capsule
                    /\ work.gene = worker[w].gene
            \/ /\ genesFile' \in {genesFile, Torn}
               /\ faults' \in 0 .. MaxFaults
               /\ worker' = [worker EXCEPT ![w] = IdleWorker]
<1> DEFINE work == [worker[w] EXCEPT !.at = "event", !.copy = IdleWorker.copy]
<1>1. ready /\ worker[w].at = "update" /\ worker[w].gene \in DOMAIN genes
  BY DEF TypeOK, Consistent, UpdateGene
<1>2. worker[w].copy \in Genes /\ worker[w].gene \in GeneIds
  BY <1>1 DEF TypeOK, Works, IsTable
<1>3. /\ genes' = [genes EXCEPT ![worker[w].gene] = worker[w].copy]
      /\ IsTable(genes') /\ DOMAIN genes' = DOMAIN genes
  BY <1>2, TableUpdate DEF UpdateGene, TypeOK
<1>4. work \in Works /\ work.at = "event" /\ work.capsule = worker[w].capsule
      /\ work.gene = worker[w].gene
  BY Constants DEF TypeOK, Works, Places
<1>5. CASE /\ GenesSaved(genes')
           /\ worker' = [worker EXCEPT ![w].at = "event", ![w].copy = IdleWorker.copy]
  <2>1. worker' = [worker EXCEPT ![w] = work]
    BY <1>5 DEF TypeOK, Works
  <2> QED
    BY <1>1, <1>3, <1>4, <1>5, <2>1 DEF UpdateGene, GenesSaved
<1>6. CASE GenesNotSaved /\ worker' = [worker EXCEPT ![w] = IdleWorker]
  BY <1>1, <1>3, <1>6, FaultBound DEF UpdateGene, GenesNotSaved, TypeOK
<1> QED
  BY <1>5, <1>6 DEF UpdateGene

(* CreateGene puts in a gene with one verification, named by the instant   *)
(* of its capsule.                                                         *)
LEMMA CreateGeneEffect ==
  ASSUME TypeOK, NEW w \in Workers, CreateGene(w)
  PROVE  /\ ready /\ worker[w].at = "create" /\ worker[w].capsule.id \in Times
         /\ \E gene \in Genes :
              genes' = WithGene(worker[w].capsule.id, gene) /\ gene.verified = 1
         /\ IsTable(genes') /\ DOMAIN genes' = DOMAIN genes \union {worker[w].capsule.id}
         /\ UNCHANGED <<now, up, ready, capsules, capsulesFile, events>>
         /\ \/ /\ genesFile' = genes' /\ faults' = faults
               /\ learned' = learned \union {worker[w].capsule.id}
               /\ \E work \in Works :
                    /\ worker' = [worker EXCEPT ![w] = work]
                    /\ work.at = "event" /\ work.capsule = worker[w].capsule
                    /\ work.gene = worker[w].capsule.id
            \/ /\ genesFile' \in {genesFile, Torn}
               /\ faults' \in 0 .. MaxFaults /\ learned' = learned
               /\ worker' = [worker EXCEPT ![w] = IdleWorker]
<1> DEFINE id == worker[w].capsule.id
           work == [worker[w] EXCEPT !.at = "event", !.gene = id]
<1>1. ready /\ worker[w].at = "create" /\ worker[w].signals \in SUBSET Signals
  BY DEF TypeOK, Consistent, CreateGene, Works
<1>2. id \in Times /\ id \in GeneIds
  BY DEF TypeOK, Works, Capsules, GeneIds
<1>3. PICK category \in InferredIntents(worker[w].signals) :
        genes' = WithGene(id, NewGene(category, worker[w].signals))
  BY DEF CreateGene
<1> DEFINE gene == NewGene(category, worker[w].signals)
<1>4. gene \in Genes /\ gene.verified = 1
  BY <1>1, NewGeneType DEF NewGene
<1> HIDE DEF gene
<1>5. IsTable(genes') /\ DOMAIN genes' = DOMAIN genes \union {id}
  BY <1>2, <1>3, <1>4, TableUpdate DEF TypeOK, gene
<1>6. work \in Works /\ work.at = "event" /\ work.capsule = worker[w].capsule
      /\ work.gene = id
  BY <1>2 DEF TypeOK, Works, Places
<1>7. genes' = WithGene(id, gene)
  BY <1>3 DEF gene
<1>8. CASE /\ GenesSaved(genes') /\ learned' = learned \union {id}
           /\ worker' = [worker EXCEPT ![w].at = "event", ![w].gene = id]
  <2>1. worker' = [worker EXCEPT ![w] = work]
    BY <1>8 DEF TypeOK, Works
  <2> HIDE DEF work
  <2> QED
    BY <1>1, <1>2, <1>4, <1>5, <1>6, <1>7, <1>8, <2>1 DEF CreateGene, GenesSaved
<1>9. CASE /\ GenesNotSaved /\ learned' = learned
           /\ worker' = [worker EXCEPT ![w] = IdleWorker]
  BY <1>1, <1>2, <1>4, <1>5, <1>7, <1>9, FaultBound
     DEF CreateGene, GenesNotSaved, TypeOK
<1> QED
  BY <1>8, <1>9 DEF CreateGene

(* AppendEvent records at most one event, of this capsule, and ends.       *)
LEMMA AppendEventEffect ==
  ASSUME TypeOK, NEW w \in Workers, AppendEvent(w)
  PROVE  /\ worker[w].at = "event"
         /\ UNCHANGED <<now, up, ready, genes, capsules, genesFile, capsulesFile, learned>>
         /\ worker' = [worker EXCEPT ![w] = IdleWorker]
         /\ faults' \in 0 .. MaxFaults
         /\ events' \in {events, events \union
                {[capsule |-> worker[w].capsule.id, gene |-> worker[w].gene]}}
BY FaultBound DEF AppendEvent, TypeOK, memory

(* Boot takes over the files it can read; an empty store gets the seeds.   *)
LEMMA BootEffect ==
  ASSUME TypeOK, Boot
  PROVE  /\ ~ready /\ up' = TRUE /\ ready' = TRUE
         /\ \A w \in Workers : worker[w].at = "idle"
         /\ UNCHANGED <<now, capsulesFile, events, worker, learned>>
         /\ faults' \in 0 .. MaxFaults
         /\ misread' \subseteq {"genes", "capsules"}
         /\ capsules' \in Seq(Capsules) /\ IsTable(genes')
         /\ genesFile' # Torn => IsTable(genesFile')
         /\ "capsules" \notin misread' => capsulesFile # Torn /\ capsules' = capsulesFile
         /\ \/ /\ genes' = SeedGenes /\ genesFile' \in {genesFile, genes', Torn}
               /\ "genes" \notin misread' => genesFile = NoGenes
            \/ /\ genesFile # Torn /\ genes' = genesFile /\ genesFile' = genesFile
<1>1. ~ready /\ \A w \in Workers : worker[w].at = "idle"
  BY DEF Boot, TypeOK, Consistent
<1>2. PICK lost \in SUBSET {"genes", "capsules"} :
        Read(lost) /\ misread' = misread \union lost
  BY DEF Boot, FilesThere
<1>3. <<>> \in Seq(Capsules)
  OBVIOUS
<1>4. /\ capsules' \in Seq(Capsules) /\ misread' \subseteq {"genes", "capsules"}
      /\ "capsules" \notin misread' => capsulesFile # Torn /\ capsules' = capsulesFile
  BY <1>2, <1>3 DEF Read, TypeOK
<1>5. CASE /\ "genes" \in lost \/ genesFile = NoGenes
           /\ genes' = SeedGenes
           /\ GenesSaved(SeedGenes) \/ GenesNotSaved
  <2>1. /\ faults' \in 0 .. MaxFaults
        /\ genesFile' \in {genesFile, genes', Torn}
    BY <1>5, FaultBound DEF TypeOK, GenesSaved, GenesNotSaved
  <2>2. IsTable(genes') /\ (genesFile' # Torn => IsTable(genesFile'))
    BY <1>5, <2>1, Constants DEF TypeOK
  <2> QED
    BY <1>1, <1>2, <1>4, <1>5, <2>1, <2>2 DEF Boot
<1>6. CASE /\ "genes" \notin lost /\ genes' = genesFile
           /\ UNCHANGED <<genesFile, faults>>
  BY <1>1, <1>2, <1>4, <1>6 DEF Boot, Read, TypeOK
<1> QED
  BY <1>2, <1>5, <1>6 DEF Read

(* That a read has failed is not forgotten, and only Boot adds to it. *)
LEMMA MisreadStays ==
  ASSUME [Next]_vars
  PROVE  /\ misread \subseteq misread'
         /\ Boot \/ misread' = misread
<1>1. CASE \E w \in Workers : AfterToolExecution(w) \/ ReportGene(w)
  BY <1>1 DEF AfterToolExecution, ConsiderSolidify, ReportGene, Solidify
<1>2. CASE \E w \in Workers : \/ AddCapsule(w) \/ GetGene(w) \/ UpdateGene(w)
                              \/ CreateGene(w) \/ AppendEvent(w)
  BY <1>2 DEF AddCapsule, GetGene, UpdateGene, CreateGene, AppendEvent
<1>3. CASE Boot
  BY <1>3 DEF Boot
<1>4. CASE BootUnreadable \/ Crash \/ Tick \/ UNCHANGED vars
  BY <1>4 DEF BootUnreadable, Crash, Tick, vars
<1> QED
  BY <1>1, <1>2, <1>3, <1>4 DEF Next

(* Experiences are counted up to their bound. *)
LEMMA ExperiencesCounted ==
  ASSUME TypeOK, [Next]_vars
  PROVE  experiences' \in 0 .. MaxExperiences
<1>1. CASE \E w \in Workers : AfterToolExecution(w) \/ ReportGene(w)
  <2>1. experiences < MaxExperiences /\ experiences' = experiences + 1
    BY <1>1 DEF AfterToolExecution, ConsiderSolidify, ReportGene, Solidify
  <2> QED
    BY <2>1, BoundAssumption DEF TypeOK
<1>2. CASE ~\E w \in Workers : AfterToolExecution(w) \/ ReportGene(w)
  <2>1. experiences' = experiences
    BY <1>2 DEF Next, vars, AddCapsule, GetGene, UpdateGene, CreateGene, AppendEvent, Boot,
       BootUnreadable, Crash, Tick
  <2> QED
    BY <2>1 DEF TypeOK
<1> QED
  BY <1>1, <1>2

(* A crash empties the memory and at worst tears the files.               *)
LEMMA CrashEffect ==
  ASSUME TypeOK, Crash
  PROVE  /\ up' = FALSE /\ ready' = FALSE /\ genes' = NoGenes /\ capsules' = <<>>
         /\ worker' = [w \in Workers |-> IdleWorker]
         /\ genesFile' \in {genesFile, Torn} /\ capsulesFile' \in {capsulesFile, Torn}
         /\ faults' \in 0 .. MaxFaults
         /\ UNCHANGED <<now, events, learned>>
BY FaultBound DEF Crash, TypeOK

-----------------------------------------------------------------------------
(* A step of one goroutine leaves the work of the others consistent.       *)
LEMMA WorkerStep ==
  ASSUME TypeOK, NEW w \in Workers, NEW work \in Works,
         worker' = [worker EXCEPT ![w] = work], ready' = ready,
         DOMAIN genes \subseteq DOMAIN genes', Consistent(work)'
  PROVE  worker' \in [Workers -> Works] /\ \A v \in Workers : Consistent(worker[v])'
<1>1. worker' \in [Workers -> Works]
  BY DEF TypeOK
<1>2. ASSUME NEW v \in Workers PROVE Consistent(worker[v])'
  <2>1. CASE v = w
    BY <2>1 DEF TypeOK
  <2>2. CASE v # w
    BY <2>2 DEF TypeOK, Consistent
  <2> QED
    BY <2>1, <2>2
<1> QED
  BY <1>1, <1>2

(* A goroutine that has returned from Solidify has nothing to do. *)
LEMMA IdleIsConsistent == Consistent(IdleWorker) /\ Consistent(IdleWorker)'
BY Constants DEF Consistent

(* Every reachable state of the engine has the shape TypeOK describes: the *)
(* gene of an update under way exists, and confidences stay in range.      *)
THEOREM TypeCorrect == Spec => []TypeOK
<1>1. Init => TypeOK
  <2> SUFFICES ASSUME Init PROVE TypeOK
    OBVIOUS
  <2>1. worker \in [Workers -> Works] /\ \A w \in Workers : worker[w] = IdleWorker
    BY Constants DEF Init
  <2>2. \A w \in Workers : Consistent(worker[w])
    BY <2>1, IdleIsConsistent
  <2>3. <<>> \in Seq(Capsules)
    OBVIOUS
  <2>4. IsTable(genes) /\ IsTable(genesFile)
    BY Constants DEF Init
  <2>5. 0 \in 0 .. MaxFaults /\ 0 \in 0 .. MaxExperiences /\ 0 \in Times
    BY BoundAssumption DEF Times
  <2> QED
    BY <2>1, <2>2, <2>3, <2>4, <2>5, Constants DEF Init, TypeOK
<1>2. TypeOK /\ [Next]_vars => TypeOK'
  <2> SUFFICES ASSUME TypeOK, [Next]_vars PROVE TypeOK'
    OBVIOUS
  <2>0. misread' \subseteq {"genes", "capsules"} /\ experiences' \in 0 .. MaxExperiences
    BY MisreadStays, BootEffect, ExperiencesCounted DEF TypeOK
  <2>1. ASSUME NEW w \in Workers, NEW gene \in DOMAIN genes \union {NoGene},
               NEW signals \in SUBSET Signals, NEW steps,
               NEW outcome \in Outcomes, Solidify(w, gene, signals, steps, outcome)
        PROVE  TypeOK'
    <3>1. PICK work \in Works :
            /\ worker' = [worker EXCEPT ![w] = work]
            /\ work.at = "capsule" /\ work.gene = NoGene
            /\ work.then = "get" <=> gene # NoGene
            /\ work.capsule = [id |-> now, gene |-> gene, outcome |-> outcome]
            /\ ready /\ UNCHANGED Others
      BY <2>1, SolidifyEffect
    <3>2. Consistent(work)'
      BY <3>1 DEF Consistent, Others
    <3>3. worker' \in [Workers -> Works] /\ \A v \in Workers : Consistent(worker[v])'
      BY <3>1, <3>2, WorkerStep DEF Others
    <3> QED
      BY <2>0, <3>1, <3>3 DEF TypeOK, Others, files
  <2>2. ASSUME NEW w \in Workers, AfterToolExecution(w) PROVE TypeOK'
    <3>1. PICK signals \in SUBSET Signals, outcome \in Outcomes :
            ConsiderSolidify(w, signals, outcome)
      BY <2>2 DEF AfterToolExecution, ExtractedSignals, Outcomes
    <3>2. PICK gene \in DOMAIN genes \union {NoGene} :
            Solidify(w, gene, signals, TRUE, outcome)
      BY <3>1 DEF ConsiderSolidify, Selected
    <3> QED
      BY <2>1, <3>2
  <2>3. ASSUME NEW w \in Workers, ReportGene(w) PROVE TypeOK'
    BY <2>1, <2>3 DEF ReportGene
  <2>4. ASSUME NEW w \in Workers, AddCapsule(w) PROVE TypeOK'
    <3>1. capsules' \in Seq(Capsules) /\ (capsulesFile' # Torn => capsulesFile' \in Seq(Capsules))
      <4>1. worker[w].capsule \in Capsules
        BY DEF TypeOK, Works
      <4>2. Append(capsules, worker[w].capsule) \in Seq(Capsules)
        BY <4>1 DEF TypeOK
      <4> QED
        BY <2>4, <4>2, AddCapsuleEffect DEF TypeOK
    <3>2. worker' \in [Workers -> Works] /\ \A v \in Workers : Consistent(worker[v])'
      <4>1. CASE worker' = [worker EXCEPT ![w] = IdleWorker]
        BY <2>4, <4>1, AddCapsuleEffect, WorkerStep, IdleIsConsistent, Constants
      <4>2. ASSUME NEW work \in Works, worker' = [worker EXCEPT ![w] = work],
                   work.at = worker[w].then, work.capsule = worker[w].capsule
            PROVE  worker' \in [Workers -> Works] /\ \A v \in Workers : Consistent(worker[v])'
        <5>1. work.at \in {"get", "create", "event"} /\ worker[w].at = "capsule"
          BY <2>4, <4>2 DEF TypeOK, Works, AddCapsule
        <5>2. Consistent(worker[w])
          BY DEF TypeOK
        <5>3. Consistent(work)'
          BY <2>4, <4>2, <5>1, <5>2, AddCapsuleEffect DEF Consistent
        <5> QED
          BY <2>4, <4>2, <5>3, AddCapsuleEffect, WorkerStep
      <4> QED
        BY <2>4, <4>1, <4>2, AddCapsuleEffect
    <3> QED
      BY <2>0, <2>4, <3>1, <3>2, AddCapsuleEffect DEF TypeOK
  <2>5. ASSUME NEW w \in Workers, GetGene(w) PROVE TypeOK'
    <3>1. PICK work \in Works :
            /\ worker' = [worker EXCEPT ![w] = work]
            /\ work.at = "update" /\ work.capsule = worker[w].capsule
            /\ work.gene = worker[w].capsule.gene
      BY <2>5, GetGeneEffect
    <3>2. Consistent(work)'
      BY <2>5, <3>1, GetGeneEffect DEF Consistent, Others
    <3>3. worker' \in [Workers -> Works] /\ \A v \in Workers : Consistent(worker[v])'
      BY <2>5, <3>1, <3>2, GetGeneEffect, WorkerStep DEF Others
    <3> QED
      BY <2>0, <2>5, <3>3, GetGeneEffect DEF TypeOK, Others, files
  <2>6. ASSUME NEW w \in Workers, UpdateGene(w) PROVE TypeOK'
    <3>1. ASSUME NEW work \in Works, worker' = [worker EXCEPT ![w] = work],
                 work.at \in {"idle", "event"}
          PROVE  worker' \in [Workers -> Works] /\ \A v \in Workers : Consistent(worker[v])'
      <4>1. Consistent(work)'
        <5>1. ready'
          BY <2>6, UpdateGeneEffect
        <5> QED
          BY <3>1, <5>1 DEF Consistent
      <4> QED
        BY <2>6, <3>1, <4>1, UpdateGeneEffect, WorkerStep
    <3>2. worker' \in [Workers -> Works] /\ \A v \in Workers : Consistent(worker[v])'
      BY <2>6, <3>1, UpdateGeneEffect, Constants
    <3> QED
      BY <2>0, <2>6, <3>2, UpdateGeneEffect DEF TypeOK
  <2>7. ASSUME NEW w \in Workers, CreateGene(w) PROVE TypeOK'
    <3>1. ASSUME NEW work \in Works, worker' = [worker EXCEPT ![w] = work],
                 work.at \in {"idle", "event"}
          PROVE  worker' \in [Workers -> Works] /\ \A v \in Workers : Consistent(worker[v])'
      <4>1. Consistent(work)'
        <5>1. ready'
          BY <2>7 DEF CreateGene, TypeOK, Consistent
        <5> QED
          BY <3>1, <5>1 DEF Consistent
      <4> QED
        BY <2>7, <3>1, <4>1, CreateGeneEffect, WorkerStep
    <3>2. worker' \in [Workers -> Works] /\ \A v \in Workers : Consistent(worker[v])'
      BY <2>7, <3>1, CreateGeneEffect, Constants
    <3>3. /\ worker[w].capsule.id \in Times /\ IsTable(genes')
          /\ UNCHANGED <<now, up, ready, capsules, capsulesFile, events>>
      BY <2>7, CreateGeneEffect
    <3>4. /\ genesFile' \in {genesFile, genes', Torn} /\ faults' \in 0 .. MaxFaults
          /\ learned' \in {learned, learned \union {worker[w].capsule.id}}
      <4>1. faults \in 0 .. MaxFaults
        BY DEF TypeOK
      <4> QED
        BY <2>7, <4>1, CreateGeneEffect
    <3>5. /\ now' \in Times /\ up' \in BOOLEAN /\ ready' \in BOOLEAN /\ (ready' => up')
          /\ IsTable(genes') /\ capsules' \in Seq(Capsules)
          /\ capsulesFile' # Torn => capsulesFile' \in Seq(Capsules)
          /\ events' \subseteq [capsule : Times, gene : GeneIds \union {NoGene}]
      BY <3>3 DEF TypeOK
    <3>6. genesFile' # Torn => IsTable(genesFile')
      BY <3>3, <3>4 DEF TypeOK
    <3>7. learned' \subseteq Times
      BY <3>3, <3>4 DEF TypeOK
    <3> QED
      BY <2>0, <3>2, <3>4, <3>5, <3>6, <3>7 DEF TypeOK
  <2>8. ASSUME NEW w \in Workers, AppendEvent(w) PROVE TypeOK'
    <3>1. worker' \in [Workers -> Works] /\ \A v \in Workers : Consistent(worker[v])'
      BY <2>8, AppendEventEffect, WorkerStep, IdleIsConsistent, Constants
    <3>2. [capsule |-> worker[w].capsule.id, gene |-> worker[w].gene]
            \in [capsule : Times, gene : GeneIds \union {NoGene}]
      BY DEF TypeOK, Works, Capsules
    <3> QED
      BY <2>0, <2>8, <3>1, <3>2, AppendEventEffect, Constants DEF TypeOK
  <2>9. CASE Boot
    <3>1. \A v \in Workers : Consistent(worker[v])'
      BY <2>9, BootEffect DEF Consistent
    <3>2. /\ now' \in Times /\ up' \in BOOLEAN /\ ready' \in BOOLEAN /\ (ready' => up')
          /\ (capsulesFile' # Torn => capsulesFile' \in Seq(Capsules))
          /\ events' \subseteq [capsule : Times, gene : GeneIds \union {NoGene}]
          /\ worker' \in [Workers -> Works] /\ learned' \subseteq Times
      BY <2>9, BootEffect DEF TypeOK
    <3> QED
      BY <2>0, <2>9, <3>1, <3>2, BootEffect DEF TypeOK
  <2>10. CASE BootUnreadable
    BY <2>10 DEF BootUnreadable, TypeOK, Consistent, memory, files
  <2>11. CASE Crash
    <3>1. worker' \in [Workers -> Works] /\ \A v \in Workers : Consistent(worker[v])'
      BY <2>11, CrashEffect, IdleIsConsistent, Constants
    <3>2. <<>> \in Seq(Capsules)
      OBVIOUS
    <3> QED
      BY <2>0, <2>11, <3>1, <3>2, CrashEffect, Constants DEF TypeOK
  <2>12. CASE Tick
    BY <2>12, BoundAssumption DEF Tick, TypeOK, Consistent, Times, memory, files
  <2>13. CASE UNCHANGED vars
    BY <2>13 DEF vars, TypeOK, Consistent, memory, files
  <2> QED
    BY <2>2, <2>3, <2>4, <2>5, <2>6, <2>7, <2>8, <2>9, <2>10, <2>11, <2>12, <2>13
       DEF Next
<1> QED
  BY <1>1, <1>2, PTL DEF Spec

-----------------------------------------------------------------------------
(* The ways in which a step may change the capsules and their file: not at *)
(* all, by adding one, by reading the file, by losing the memory.          *)
LEMMA CapsuleSteps ==
  ASSUME TypeOK, [Next]_vars
  PROVE  \/ UNCHANGED <<ready, capsules, capsulesFile>>
         \/ /\ ready
            /\ \E c \in Capsules : capsules' = Append(capsules, c)
            /\ capsulesFile' \in {capsules', capsulesFile, Torn}
         \/ capsulesFile # Torn /\ capsules' = capsulesFile /\ capsulesFile' = capsulesFile
         \/ ready' = FALSE /\ capsulesFile' \in {capsulesFile, Torn}
         \/ "capsules" \in misread'
<1>1. ASSUME NEW w \in Workers, AddCapsule(w)
      PROVE  /\ ready
             /\ \E c \in Capsules : capsules' = Append(capsules, c)
             /\ capsulesFile' \in {capsules', capsulesFile, Torn}
  <2>1. worker[w].capsule \in Capsules
    BY DEF TypeOK, Works
  <2> QED
    BY <1>1, <2>1, AddCapsuleEffect
<1>2. ASSUME NEW w \in Workers,
             AfterToolExecution(w) \/ ReportGene(w) \/ GetGene(w) \/ UpdateGene(w)
               \/ CreateGene(w) \/ AppendEvent(w)
      PROVE  UNCHANGED <<ready, capsules, capsulesFile>>
  BY <1>2 DEF AfterToolExecution, ConsiderSolidify, ReportGene, Solidify, GetGene,
              UpdateGene, CreateGene, AppendEvent, memory, files
<1>3. CASE Boot
  BY <1>3, BootEffect
<1>4. CASE Crash
  BY <1>4, CrashEffect
<1>5. CASE BootUnreadable \/ Tick \/ UNCHANGED vars
  BY <1>5 DEF BootUnreadable, Tick, vars, memory, files
<1> QED
  BY <1>1, <1>2, <1>3, <1>4, <1>5 DEF Next

(* The same for the genes. *)
LEMMA GeneSteps ==
  ASSUME TypeOK, [Next]_vars
  PROVE  \/ UNCHANGED <<ready, genes, genesFile>>
         \/ /\ ready /\ DOMAIN genes \subseteq DOMAIN genes'
            /\ genesFile' \in {genes', genesFile, Torn}
         \/ /\ genesFile # Torn
            /\ \/ genesFile = NoGenes /\ genesFile' \in {genesFile, genes', Torn}
               \/ genes' = genesFile /\ genesFile' = genesFile
         \/ ready' = FALSE /\ genesFile' \in {genesFile, Torn}
         \/ "genes" \in misread'
<1>1. ASSUME NEW w \in Workers, UpdateGene(w) \/ CreateGene(w)
      PROVE  /\ ready /\ DOMAIN genes \subseteq DOMAIN genes'
             /\ genesFile' \in {genes', genesFile, Torn}
  BY <1>1, UpdateGeneEffect, CreateGeneEffect
<1>2. ASSUME NEW w \in Workers,
             AfterToolExecution(w) \/ ReportGene(w) \/ GetGene(w) \/ AddCapsule(w)
               \/ AppendEvent(w)
      PROVE  UNCHANGED <<ready, genes, genesFile>>
  BY <1>2 DEF AfterToolExecution, ConsiderSolidify, ReportGene, Solidify, GetGene,
              AddCapsule, AppendEvent, memory, files
<1>3. CASE Boot
  <2>1. NoGenes # Torn
    BY Constants, TornAssumption
  <2> QED
    BY <1>3, <2>1, BootEffect
<1>4. CASE Crash
  BY <1>4, CrashEffect
<1>5. CASE BootUnreadable \/ Tick \/ UNCHANGED vars
  BY <1>5 DEF BootUnreadable, Tick, vars, memory, files
<1> QED
  BY <1>1, <1>2, <1>3, <1>4, <1>5 DEF Next

(* A capsule that is stored stays stored. *)
LEMMA CapsulesStay ==
  ASSUME TypeOK, [Next]_vars, NEW id, CapsuleStored(id)
  PROVE  CapsuleStored(id)'
<1> SUFFICES ASSUME "capsules" \notin misread' PROVE CapsuleStored(id)'
  BY DEF CapsuleStored
<1>0. "capsules" \notin misread
  BY MisreadStays
<1>1. ASSUME NEW c \in Capsules, HasCapsule(capsules, id)
      PROVE  HasCapsule(Append(capsules, c), id)
  BY <1>1 DEF HasCapsule, TypeOK
<1>2. CASE UNCHANGED <<ready, capsules, capsulesFile>>
  BY <1>0, <1>2 DEF CapsuleStored, HasCapsule
<1>3. ASSUME ready, NEW c \in Capsules, capsules' = Append(capsules, c),
             capsulesFile' \in {capsules', capsulesFile, Torn}
      PROVE  CapsuleStored(id)'
  <2>1. HasCapsule(capsules', id)
    BY <1>0, <1>1, <1>3 DEF CapsuleStored
  <2> QED
    BY <1>0, <1>3, <2>1 DEF CapsuleStored, HasCapsule
<1>4. CASE capsulesFile # Torn /\ capsules' = capsulesFile /\ capsulesFile' = capsulesFile
  BY <1>0, <1>4 DEF CapsuleStored, HasCapsule
<1>5. CASE ready' = FALSE /\ capsulesFile' \in {capsulesFile, Torn}
  BY <1>0, <1>5 DEF CapsuleStored, HasCapsule
<1> QED
  BY <1>2, <1>3, <1>4, <1>5, CapsuleSteps

(* A gene that is stored stays stored. *)
LEMMA GenesStay ==
  ASSUME TypeOK, [Next]_vars, NEW g, GeneStored(g)
  PROVE  GeneStored(g)'
<1> SUFFICES ASSUME "genes" \notin misread' PROVE GeneStored(g)'
  BY DEF GeneStored
<1>0. "genes" \notin misread
  BY MisreadStays
<1>1. CASE UNCHANGED <<ready, genes, genesFile>>
  BY <1>0, <1>1 DEF GeneStored
<1>2. CASE /\ ready /\ DOMAIN genes \subseteq DOMAIN genes'
           /\ genesFile' \in {genes', genesFile, Torn}
  BY <1>0, <1>2 DEF GeneStored
<1>3. CASE genesFile # Torn /\ genesFile = NoGenes
  BY <1>0, <1>3, Constants DEF GeneStored
<1>4. CASE genesFile # Torn /\ genes' = genesFile /\ genesFile' = genesFile
  BY <1>0, <1>4 DEF GeneStored
<1>5. CASE ready' = FALSE /\ genesFile' \in {genesFile, Torn}
  BY <1>0, <1>5 DEF GeneStored
<1> QED
  BY <1>1, <1>2, <1>3, <1>4, <1>5, GeneSteps

-----------------------------------------------------------------------------
(* The capsule of an experience under way is stored once AddCapsule is     *)
(* behind it, and the gene its event will name once it is saved.           *)
WorkBacked(work) ==
    /\ work.at = "capsule" => work.gene = NoGene
    /\ work.at \in {"get", "update", "create", "event"} => CapsuleStored(work.capsule.id)
    /\ work.at = "event" /\ work.gene # NoGene => GeneStored(work.gene)

StoredInv ==
    /\ LearnedGenesKept /\ EventsBacked
    /\ \A w \in Workers : WorkBacked(worker[w])

(* What is backed stays backed. *)
LEMMA WorkStaysBacked ==
  ASSUME TypeOK, [Next]_vars, NEW work \in Works, WorkBacked(work)
  PROVE  WorkBacked(work)'
BY CapsulesStay, GenesStay DEF WorkBacked

(* A step of one goroutine leaves the work of the others backed. *)
LEMMA BackedStep ==
  ASSUME TypeOK, [Next]_vars, StoredInv, NEW w \in Workers, NEW work \in Works,
         worker' = [worker EXCEPT ![w] = work], WorkBacked(work)'
  PROVE  \A v \in Workers : WorkBacked(worker[v])'
<1> SUFFICES ASSUME NEW v \in Workers PROVE WorkBacked(worker[v])'
  OBVIOUS
<1>1. CASE v = w
  BY <1>1 DEF TypeOK, WorkBacked
<1>2. CASE v # w
  <2>1. worker[v] \in Works /\ WorkBacked(worker[v])
    BY DEF TypeOK, StoredInv
  <2>2. PICK old \in Works : old = worker[v]
    BY <2>1
  <2>3. WorkBacked(old)'
    BY <2>1, <2>2, WorkStaysBacked
  <2>4. worker'[v] = old
    BY <1>2, <2>2 DEF TypeOK
  <2> QED
    BY <2>3, <2>4 DEF WorkBacked
<1> QED
  BY <1>1, <1>2

(* A goroutine that has returned from Solidify owes nothing. *)
LEMMA IdleIsBacked == WorkBacked(IdleWorker) /\ WorkBacked(IdleWorker)'
BY Constants DEF WorkBacked

(* Every step leaves what the goroutines are about to report stored.       *)
LEMMA WorkIsBacked ==
  ASSUME TypeOK, [Next]_vars, StoredInv
  PROVE  \A v \in Workers : WorkBacked(worker[v])'
<1>1. ASSUME NEW w \in Workers, NEW gene \in DOMAIN genes \union {NoGene},
             NEW signals \in SUBSET Signals, NEW steps,
             NEW outcome \in Outcomes, Solidify(w, gene, signals, steps, outcome)
      PROVE  \A v \in Workers : WorkBacked(worker[v])'
  <2>1. PICK work \in Works :
          /\ worker' = [worker EXCEPT ![w] = work]
          /\ work.at = "capsule" /\ work.gene = NoGene
          /\ work.then = "get" <=> gene # NoGene
          /\ work.capsule = [id |-> now, gene |-> gene, outcome |-> outcome]
          /\ ready /\ UNCHANGED Others
    BY <1>1, SolidifyEffect
  <2>2. WorkBacked(work)'
    BY <2>1 DEF WorkBacked
  <2> QED
    BY <2>1, <2>2, BackedStep
<1>2. ASSUME NEW w \in Workers, AfterToolExecution(w)
      PROVE  \A v \in Workers : WorkBacked(worker[v])'
  <2>1. PICK signals \in SUBSET Signals, outcome \in Outcomes :
          ConsiderSolidify(w, signals, outcome)
    BY <1>2 DEF AfterToolExecution, ExtractedSignals, Outcomes
  <2>2. PICK gene \in DOMAIN genes \union {NoGene} :
          Solidify(w, gene, signals, TRUE, outcome)
    BY <2>1 DEF ConsiderSolidify, Selected
  <2> QED
    BY <1>1, <2>2
<1>3. ASSUME NEW w \in Workers, ReportGene(w)
      PROVE  \A v \in Workers : WorkBacked(worker[v])'
  BY <1>1, <1>3 DEF ReportGene
<1>4. ASSUME NEW w \in Workers, AddCapsule(w)
      PROVE  \A v \in Workers : WorkBacked(worker[v])'
  <2>1. CASE worker' = [worker EXCEPT ![w] = IdleWorker]
    BY <2>1, IdleIsBacked, BackedStep, Constants
  <2>2. ASSUME NEW work \in Works, worker' = [worker EXCEPT ![w] = work],
               work.at = worker[w].then, work.capsule = worker[w].capsule,
               work.gene = worker[w].gene, capsulesFile' = capsules'
        PROVE  \A v \in Workers : WorkBacked(worker[v])'
    <3>1. HasCapsule(capsules', work.capsule.id)
      <4>1. capsules' = Append(capsules, work.capsule) /\ work.capsule \in Capsules
        BY <1>4, <2>2, AddCapsuleEffect DEF TypeOK, Works
      <4>2. /\ Len(capsules) + 1 \in DOMAIN Append(capsules, work.capsule)
            /\ Append(capsules, work.capsule)[Len(capsules) + 1] = work.capsule
        BY <4>1 DEF TypeOK
      <4> QED
        BY <4>1, <4>2 DEF HasCapsule
    <3>2. CapsuleStored(work.capsule.id)'
      BY <2>2, <3>1 DEF CapsuleStored, HasCapsule
    <3>3. work.gene = NoGene /\ work.at # "capsule"
      BY <1>4, <2>2 DEF StoredInv, WorkBacked, AddCapsule, TypeOK, Works
    <3>4. WorkBacked(work)'
      BY <3>2, <3>3 DEF WorkBacked
    <3> QED
      BY <2>2, <3>4, BackedStep
  <2> QED
    BY <1>4, <2>1, <2>2, AddCapsuleEffect
<1>5. ASSUME NEW w \in Workers, NEW work \in Works, worker' = [worker EXCEPT ![w] = work],
             work.at \in {"update", "event"}, work.capsule = worker[w].capsule,
             worker[w].at \in {"get", "update", "create"},
             work.at = "event" => GeneStored(work.gene)'
      PROVE  \A v \in Workers : WorkBacked(worker[v])'
  <2>1. CapsuleStored(work.capsule.id)
    BY <1>5 DEF StoredInv, WorkBacked
  <2>2. CapsuleStored(work.capsule.id)'
    BY <2>1, CapsulesStay
  <2>3. WorkBacked(work)'
    BY <1>5, <2>2 DEF WorkBacked
  <2> QED
    BY <1>5, <2>3, BackedStep
<1>6. ASSUME NEW w \in Workers, GetGene(w)
      PROVE  \A v \in Workers : WorkBacked(worker[v])'
  BY <1>5, <1>6, GetGeneEffect
<1>7. ASSUME NEW w \in Workers, UpdateGene(w)
      PROVE  \A v \in Workers : WorkBacked(worker[v])'
  <2>1. CASE worker' = [worker EXCEPT ![w] = IdleWorker]
    BY <2>1, IdleIsBacked, BackedStep, Constants
  <2>2. ASSUME NEW work \in Works, worker' = [worker EXCEPT ![w] = work],
               work.at = "event", work.capsule = worker[w].capsule,
               work.gene = worker[w].gene, genesFile' = genes'
        PROVE  \A v \in Workers : WorkBacked(worker[v])'
    <3>1. work.gene \in DOMAIN genes'
      BY <1>7, <2>2, UpdateGeneEffect
    <3>2. GeneStored(work.gene)'
      BY <2>2, <3>1 DEF GeneStored
    <3>3. worker[w].at = "update"
      BY <1>7, UpdateGeneEffect
    <3> QED
      BY <1>5, <2>2, <3>2, <3>3
  <2> QED
    BY <1>7, <2>1, <2>2, UpdateGeneEffect
<1>8. ASSUME NEW w \in Workers, CreateGene(w)
      PROVE  \A v \in Workers : WorkBacked(worker[v])'
  <2>1. CASE worker' = [worker EXCEPT ![w] = IdleWorker]
    BY <2>1, IdleIsBacked, BackedStep, Constants
  <2>2. ASSUME NEW work \in Works, worker' = [worker EXCEPT ![w] = work],
               work.at = "event", work.capsule = worker[w].capsule,
               work.gene = worker[w].capsule.id, genesFile' = genes'
        PROVE  \A v \in Workers : WorkBacked(worker[v])'
    <3>1. work.gene \in DOMAIN genes'
      BY <1>8, <2>2, CreateGeneEffect
    <3>2. GeneStored(work.gene)'
      BY <2>2, <3>1 DEF GeneStored
    <3>3. worker[w].at = "create"
      BY <1>8, CreateGeneEffect
    <3> QED
      BY <1>5, <2>2, <3>2, <3>3
  <2> QED
    BY <1>8, <2>1, <2>2, CreateGeneEffect
<1>9. ASSUME NEW w \in Workers, AppendEvent(w)
      PROVE  \A v \in Workers : WorkBacked(worker[v])'
  BY <1>9, AppendEventEffect, IdleIsBacked, BackedStep, Constants
<1>10. CASE Crash
  <2>1. \A v \in Workers : worker'[v] = IdleWorker
    BY <1>10, CrashEffect
  <2> QED
    BY <2>1, IdleIsBacked DEF WorkBacked
<1>11. CASE worker' = worker
  <2> SUFFICES ASSUME NEW v \in Workers PROVE WorkBacked(worker[v])'
    OBVIOUS
  <2>1. worker' = [worker EXCEPT ![v] = worker[v]] /\ worker[v] \in Works
    BY <1>11 DEF TypeOK
  <2>2. PICK old \in Works : old = worker[v]
    BY <2>1
  <2>3. WorkBacked(old)'
    BY <2>2, WorkStaysBacked DEF StoredInv
  <2> QED
    BY <1>11, <2>2, <2>3 DEF WorkBacked
<1> QED
  BY <1>2, <1>3, <1>4, <1>6, <1>7, <1>8, <1>9, <1>10, <1>11
     DEF Next, Boot, BootUnreadable, Tick, vars

(* The invariant behind the two theorems that follow: events, learned      *)
(* genes and work under way name only what is stored.                      *)
THEOREM StoredInvariance == Spec => []StoredInv
<1>1. Init => StoredInv
  <2> SUFFICES ASSUME Init PROVE StoredInv
    OBVIOUS
  <2>1. \A w \in Workers : WorkBacked(worker[w])
    BY IdleIsBacked DEF Init
  <2> QED
    BY <2>1 DEF Init, StoredInv, LearnedGenesKept, EventsBacked
<1>2. TypeOK /\ StoredInv /\ [Next]_vars => StoredInv'
  <2> SUFFICES ASSUME TypeOK, StoredInv, [Next]_vars PROVE StoredInv'
    OBVIOUS
  <2>1. LearnedGenesKept'
    <3>1. \A g \in learned : GeneStored(g)'
      BY GenesStay DEF StoredInv, LearnedGenesKept
    <3>2. ASSUME NEW w \in Workers, CreateGene(w) PROVE LearnedGenesKept'
      <4>1. ASSUME NEW g, genesFile' = genes', g \in DOMAIN genes' PROVE GeneStored(g)'
        BY <4>1 DEF GeneStored
      <4> QED
        BY <3>1, <3>2, <4>1, CreateGeneEffect DEF LearnedGenesKept
    <3>3. CASE learned' = learned
      BY <3>1, <3>3 DEF LearnedGenesKept
    <3> QED
      BY <3>2, <3>3 DEF Next, vars, AfterToolExecution, ConsiderSolidify, ReportGene,
         Solidify, AddCapsule, GetGene, UpdateGene, AppendEvent, Boot, BootUnreadable,
         Crash, Tick
  <2>2. EventsBacked'
    <3>1. \A e \in events :
            CapsuleStored(e.capsule)' /\ (e.gene # NoGene => GeneStored(e.gene)')
      BY CapsulesStay, GenesStay DEF StoredInv, EventsBacked
    <3>2. ASSUME NEW w \in Workers, AppendEvent(w) PROVE EventsBacked'
      <4>1. /\ CapsuleStored(worker[w].capsule.id)
            /\ worker[w].gene # NoGene => GeneStored(worker[w].gene)
        BY <3>2 DEF AppendEvent, StoredInv, WorkBacked
      <4>2. PICK id, g : id = worker[w].capsule.id /\ g = worker[w].gene
        OBVIOUS
      <4>3. CapsuleStored(id)' /\ (g # NoGene => GeneStored(g)')
        BY <4>1, <4>2, CapsulesStay, GenesStay
      <4>4. events' \in {events, events \union {[capsule |-> id, gene |-> g]}}
        BY <3>2, <4>2, AppendEventEffect
      <4> QED
        BY <3>1, <4>3, <4>4 DEF EventsBacked
    <3>3. CASE events' = events
      BY <3>1, <3>3 DEF EventsBacked
    <3> QED
      BY <3>2, <3>3 DEF Next, vars, files, AfterToolExecution, ConsiderSolidify, ReportGene,
         Solidify, AddCapsule, GetGene, UpdateGene, CreateGene, Boot, BootUnreadable,
         Crash, Tick
  <2> QED
    BY <2>1, <2>2, WorkIsBacked DEF StoredInv
<1> QED
  BY <1>1, <1>2, TypeCorrect, PTL DEF Spec

(* No failed write, crash or restart makes the engine forget a gene whose  *)
(* creation it reported.                                                   *)
THEOREM LearnedGenesAreKept == Spec => []LearnedGenesKept
<1>1. StoredInv => LearnedGenesKept
  BY DEF StoredInv
<1> QED
  BY <1>1, StoredInvariance, PTL

(* Whatever was written to the audit trail is there to be looked up.       *)
THEOREM EventsAreBacked == Spec => []EventsBacked
<1>1. StoredInv => EventsBacked
  BY DEF StoredInv
<1> QED
  BY <1>1, StoredInvariance, PTL

-----------------------------------------------------------------------------
(* Counting: a goroutine between AddCapsule and UpdateGene owes its gene a *)
(* verification.  The verifications there are, those owed included, are    *)
(* covered by a list of capsules.                                          *)
Owes(work, g) ==
    /\ work.at \in {"get", "update"}
    /\ work.capsule.outcome = "success" /\ work.capsule.gene = g

Owing(g) == {w \in Workers : Owes(worker[w], g)}

CoversGenes(list) ==
    \A g \in DOMAIN genes :
      genes[g].verified + Cardinality(Owing(g)) <= InitialVerified(g) + Successes(list, g)

CoversCopies(list) ==
    \A w \in Workers : worker[w].at = "update" =>
      LET g == worker[w].gene
      IN  worker[w].copy.verified + Cardinality(Owing(g) \ {w})
            <= InitialVerified(g) + Successes(list, g)

Covers(list) ==
    /\ \A g \in GeneIds : Cardinality(Owing(g)) <= Successes(list, g)
    /\ CoversGenes(list) /\ CoversCopies(list)
    /\ genesFile # Torn => Backed(genesFile, list)

CountInv ==
    /\ ready => Covers(capsules)
    /\ capsulesFile # Torn => Covers(capsulesFile)
    /\ ~ready => genes = NoGenes

(* A list has finitely many successes, and one more capsule adds at most   *)
(* one, to its own gene.                                                   *)
LEMMA SuccessesAppend ==
  ASSUME NEW list \in Seq(Capsules), NEW c \in Capsules, NEW g
  PROVE  /\ Successes(list, g) \in Nat
         /\ Successes(Append(list, c), g) =
              IF c.gene = g /\ c.outcome = "success"
              THEN Successes(list, g) + 1 ELSE Successes(list, g)
<1> DEFINE Hits(l) == {i \in DOMAIN l : l[i].gene = g /\ l[i].outcome = "success"}
           n == Len(list) + 1
           more == Append(list, c)
<1>1. IsFiniteSet(Hits(list)) /\ Cardinality(Hits(list)) \in Nat
  <2>1. IsFiniteSet(1 .. Len(list)) /\ Hits(list) \in SUBSET (1 .. Len(list))
    BY FS_Interval
  <2> QED
    BY <2>1, FS_Subset, FS_CardinalityType
<1>2. /\ DOMAIN more = DOMAIN list \union {n} /\ n \notin DOMAIN list
      /\ more[n] = c /\ \A i \in DOMAIN list : more[i] = list[i]
  OBVIOUS
<1> HIDE DEF more, n
<1>3. CASE c.gene = g /\ c.outcome = "success"
  <2>1. Hits(more) = Hits(list) \union {n} /\ n \notin Hits(list)
    BY <1>2, <1>3
  <2> QED
    BY <1>1, <1>3, <2>1, FS_AddElement DEF Successes, more
<1>4. CASE ~(c.gene = g /\ c.outcome = "success")
  <2>1. Hits(more) = Hits(list)
    BY <1>2, <1>4
  <2> QED
    BY <1>1, <1>4, <2>1 DEF Successes, more
<1> QED
  BY <1>3, <1>4

(* The successes in a list are counted by a number.                        *)
LEMMA SuccessesType ==
  ASSUME NEW list \in Seq(Capsules), NEW g
  PROVE  Successes(list, g) \in Nat
<1>1. [id |-> 0, gene |-> NoGene, outcome |-> "success"] \in Capsules
  BY Constants DEF Capsules, Outcomes
<1> QED
  BY <1>1, SuccessesAppend

(* The goroutines are finitely many. *)
LEMMA OwingFinite ==
  ASSUME NEW set \in SUBSET Workers, NEW part \in SUBSET set
  PROVE  /\ IsFiniteSet(set) /\ Cardinality(set) \in Nat /\ Cardinality(part) \in Nat
         /\ Cardinality(part) <= Cardinality(set)
BY WorkersAssumption, FS_Subset, FS_CardinalityType

(* A set of goroutines without one of them.                                *)
LEMMA OneLess ==
  ASSUME NEW set \in SUBSET Workers, NEW w \in Workers
  PROVE  Cardinality(set \ {w}) =
           IF w \in set THEN Cardinality(set) - 1 ELSE Cardinality(set)
BY WorkersAssumption, FS_Subset, FS_RemoveElement

(* A gene's count is a number. *)
LEMMA CountTypes ==
  ASSUME TypeOK
  PROVE  /\ \A g \in DOMAIN genes : g \in GeneIds /\ genes[g] \in Genes
                                    /\ genes[g].verified \in Nat
         /\ genesFile # Torn => \A g \in DOMAIN genesFile :
              g \in GeneIds /\ genesFile[g].verified \in Nat
         /\ \A w \in Workers : worker[w] \in Works /\ worker[w].copy.verified \in Nat
         /\ \A g : InitialVerified(g) \in {0, 1}
<1>1. \A gene \in Genes : gene.verified \in Nat
  BY DEF Genes
<1>2. ASSUME NEW t, IsTable(t), NEW g \in DOMAIN t
      PROVE  g \in GeneIds /\ t[g] \in Genes
  BY <1>2 DEF IsTable
<1>3. IsTable(genes) /\ (genesFile # Torn => IsTable(genesFile)) /\ worker \in [Workers -> Works]
  BY DEF TypeOK
<1>4. \A work \in Works : work.copy \in Genes
  BY DEF Works
<1>5. \A g : InitialVerified(g) \in {0, 1}
  BY DEF InitialVerified
<1>6. \A g \in DOMAIN genes : g \in GeneIds /\ genes[g] \in Genes
  BY <1>2, <1>3
<1>7. genesFile # Torn => \A g \in DOMAIN genesFile : g \in GeneIds /\ genesFile[g] \in Genes
  BY <1>2, <1>3
<1>8. \A w \in Workers : worker[w] \in Works
  BY <1>3
<1> QED
  BY <1>1, <1>4, <1>5, <1>6, <1>7, <1>8

(* Who owes a verification after one goroutine's step. *)
LEMMA OwingStep ==
  ASSUME TypeOK, NEW w \in Workers, NEW work \in Works,
         worker' = [worker EXCEPT ![w] = work], NEW g
  PROVE  Owing(g)' = IF Owes(work, g) THEN Owing(g) \union {w} ELSE Owing(g) \ {w}
<1>1. /\ worker'[w] = work
      /\ \A v \in Workers \ {w} : worker'[v] = worker[v]
  BY DEF TypeOK
<1> QED
  BY <1>1 DEF Owing, Owes

(* Steps that change no gene: a list covers what another covered, when it  *)
(* has the success of whoever begins to owe.                               *)
LEMMA CoversStep ==
  ASSUME TypeOK, NEW L \in Seq(Capsules), NEW M \in Seq(Capsules), Covers(L),
         NEW w \in Workers, NEW work \in Works,
         worker' = [worker EXCEPT ![w] = work], work.at # "update",
         \A g : Successes(L, g) <= Successes(M, g),
         \A g : Owes(work, g) =>
           w \notin Owing(g) /\ Successes(L, g) + 1 <= Successes(M, g),
         genes' = genes, genesFile' \in {genesFile, Torn}
  PROVE  Covers(M)'
<1>1. /\ worker'[w] = work
      /\ \A v \in Workers \ {w} : worker'[v] = worker[v]
  BY DEF TypeOK
<1>2. ASSUME NEW g
      PROVE  /\ Successes(L, g) \in Nat /\ Successes(M, g) \in Nat
             /\ Cardinality(Owing(g)) \in Nat /\ Cardinality(Owing(g)') \in Nat
             /\ Cardinality(Owing(g)') - Cardinality(Owing(g))
                  <= Successes(M, g) - Successes(L, g)
             /\ \A v \in Workers \ {w} : v \in Owing(g)' <=> v \in Owing(g)
  <2> DEFINE before == Owing(g)
             after == Owing(g)'
  <2>1. before \in SUBSET Workers /\ after \in SUBSET Workers
    BY DEF Owing
  <2>2. after = IF Owes(work, g) THEN before \union {w} ELSE before \ {w}
    BY OwingStep
  <2>3. Successes(L, g) \in Nat /\ Successes(M, g) \in Nat
    BY SuccessesType
  <2>4. Successes(L, g) <= Successes(M, g)
    OBVIOUS
  <2>5. Owes(work, g) => w \notin before /\ Successes(L, g) + 1 <= Successes(M, g)
    OBVIOUS
  <2> HIDE DEF before, after
  <2>6. Cardinality(before) \in Nat /\ Cardinality(after) \in Nat
    BY <2>1, OwingFinite
  <2>7. CASE Owes(work, g)
    <3>1. before = after \ {w} /\ w \in after
      BY <2>2, <2>5, <2>7
    <3>2. Cardinality(before) = Cardinality(after) - 1
      BY <2>1, <3>1, OneLess
    <3> QED
      BY <2>2, <2>3, <2>5, <2>6, <2>7, <3>2 DEF before, after
  <2>8. CASE ~Owes(work, g)
    <3>1. Cardinality(after) <= Cardinality(before)
      BY <2>1, <2>2, <2>8, OwingFinite
    <3>2. Cardinality(after) - Cardinality(before) <= Successes(M, g) - Successes(L, g)
      BY <2>3, <2>4, <2>6, <3>1
    <3> QED
      BY <2>2, <2>3, <2>6, <2>8, <3>2 DEF before, after
  <2> QED
    BY <2>7, <2>8
<1>3. \A g \in GeneIds : Cardinality(Owing(g)') <= Successes(M, g)
  BY <1>2 DEF Covers
<1>4. CoversGenes(M)'
  <2> SUFFICES ASSUME NEW g \in DOMAIN genes
               PROVE  genes[g].verified + Cardinality(Owing(g)')
                        <= InitialVerified(g) + Successes(M, g)
    BY DEF CoversGenes
  <2>1. genes[g].verified + Cardinality(Owing(g)) <= InitialVerified(g) + Successes(L, g)
    BY DEF Covers, CoversGenes
  <2>2. genes[g].verified \in Nat /\ InitialVerified(g) \in {0, 1}
    BY CountTypes
  <2> QED
    BY <1>2, <2>1, <2>2
<1>5. CoversCopies(M)'
  <2> SUFFICES ASSUME NEW v \in Workers, worker'[v].at = "update", NEW g, g = worker'[v].gene
               PROVE  worker'[v].copy.verified + Cardinality(Owing(g)' \ {v})
                        <= InitialVerified(g) + Successes(M, g)
    BY DEF CoversCopies
  <2>1. v # w /\ worker'[v] = worker[v]
    BY <1>1
  <2>2. worker[v].copy.verified + Cardinality(Owing(g) \ {v})
          <= InitialVerified(g) + Successes(L, g)
    BY <2>1 DEF Covers, CoversCopies
  <2>3. worker[v].copy.verified \in Nat /\ InitialVerified(g) \in {0, 1}
    BY CountTypes
  <2>4. Owing(g) \in SUBSET Workers /\ Owing(g)' \in SUBSET Workers
    BY DEF Owing
  <2>5. Cardinality(Owing(g) \ {v}) =
          IF v \in Owing(g) THEN Cardinality(Owing(g)) - 1 ELSE Cardinality(Owing(g))
    BY <2>4, OneLess
  <2>6. Cardinality(Owing(g)' \ {v}) =
          IF v \in Owing(g)' THEN Cardinality(Owing(g)') - 1 ELSE Cardinality(Owing(g)')
    BY <2>4, OneLess
  <2>7. v \in Owing(g)' <=> v \in Owing(g)
    BY <1>2, <2>1
  <2>8. /\ Cardinality(Owing(g) \ {v}) \in Nat /\ Cardinality(Owing(g)' \ {v}) \in Nat
        /\ Successes(L, g) \in Nat /\ Successes(M, g) \in Nat
    BY <1>2, <2>4, OwingFinite
  <2>9. Cardinality(Owing(g)' \ {v}) - Cardinality(Owing(g) \ {v})
          <= Successes(M, g) - Successes(L, g)
    BY <1>2, <2>5, <2>6, <2>7
  <2> DEFINE count == worker[v].copy.verified
             before == Cardinality(Owing(g) \ {v})
             after == Cardinality(Owing(g)' \ {v})
             some == Successes(L, g)
             more == Successes(M, g)
             initial == InitialVerified(g)
  <2>10. /\ count + before <= initial + some /\ after - before <= more - some
         /\ count \in Nat /\ before \in Nat /\ after \in Nat
         /\ some \in Nat /\ more \in Nat /\ initial \in Nat
    BY <2>2, <2>3, <2>8, <2>9
  <2>11. worker'[v].copy.verified = count
    BY <2>1
  <2> HIDE DEF count, before, after, some, more, initial
  <2>12. count + after <= initial + more
    BY <2>10
  <2> QED
    BY <2>11, <2>12 DEF count, before, after, some, more, initial
<1>6. (genesFile # Torn => Backed(genesFile, M))'
  <2>1. ASSUME genesFile' # Torn, NEW g \in DOMAIN genesFile'
        PROVE  genesFile'[g].verified <= InitialVerified(g) + Successes(M, g)
    <3>1. genesFile' = genesFile /\ genesFile # Torn
      BY <2>1
    <3>2. genesFile[g].verified <= InitialVerified(g) + Successes(L, g)
      BY <2>1, <3>1 DEF Covers, Backed
    <3>3. genesFile[g].verified \in Nat /\ InitialVerified(g) \in {0, 1}
      BY <2>1, <3>1, CountTypes
    <3>4. Successes(L, g) \in Nat /\ Successes(M, g) \in Nat
          /\ Successes(L, g) <= Successes(M, g)
      BY SuccessesType
    <3> QED
      BY <3>1, <3>2, <3>3, <3>4
  <2> QED
    BY <2>1 DEF Backed
<1> QED
  BY <1>3, <1>4, <1>5, <1>6 DEF Covers

(* GetGene: the copy has the verification its goroutine owed. *)
LEMMA GetGeneCovers ==
  ASSUME TypeOK, NEW L \in Seq(Capsules), Covers(L), NEW w \in Workers, GetGene(w)
  PROVE  Covers(L)'
<1>1. PICK work \in Works :
        /\ worker' = [worker EXCEPT ![w] = work]
        /\ work.at = "update" /\ work.capsule = worker[w].capsule
        /\ work.gene = worker[w].capsule.gene
        /\ work.copy = Adjusted(genes[worker[w].capsule.gene],
                                worker[w].capsule.outcome)
  BY GetGeneEffect
<1>2. /\ worker[w].at = "get" /\ worker[w].capsule.gene \in DOMAIN genes
      /\ genes' = genes /\ genesFile' = genesFile
  BY GetGeneEffect DEF Others, files
<1>3. /\ worker'[w] = work
      /\ \A v \in Workers \ {w} : worker'[v] = worker[v]
  BY <1>1 DEF TypeOK
<1>4. \A g : Owing(g)' = Owing(g)
  BY <1>1, <1>2, <1>3 DEF Owing, Owes
<1>5. CoversCopies(L)'
  <2> SUFFICES ASSUME NEW v \in Workers, worker'[v].at = "update", NEW g, g = worker'[v].gene
               PROVE  worker'[v].copy.verified + Cardinality(Owing(g) \ {v})
                        <= InitialVerified(g) + Successes(L, g)
    BY <1>4 DEF CoversCopies
  <2>1. CASE v # w
    BY <1>3, <2>1 DEF Covers, CoversCopies
  <2>2. CASE v = w
    <3>1. g = worker[w].capsule.gene /\ g \in DOMAIN genes
      BY <1>1, <1>2, <1>3, <2>2
    <3>2. genes[g].verified + Cardinality(Owing(g)) <= InitialVerified(g) + Successes(L, g)
      BY <3>1 DEF Covers, CoversGenes
    <3>3. /\ genes[g] \in Genes /\ genes[g].verified \in Nat
          /\ InitialVerified(g) \in {0, 1} /\ worker[w].capsule.outcome \in Outcomes
      BY <3>1, CountTypes DEF Works, Capsules
    <3>4. worker'[v].copy.verified =
            IF worker[w].capsule.outcome = "success"
            THEN genes[g].verified + 1 ELSE genes[g].verified
      BY <1>1, <1>3, <2>2, <3>1, <3>3, AdjustedVerified
    <3>5. w \in Owing(g) <=> worker[w].capsule.outcome = "success"
      BY <1>2, <3>1 DEF Owing, Owes
    <3>6. Owing(g) \in SUBSET Workers
      BY DEF Owing
    <3>7. Cardinality(Owing(g) \ {v}) =
            IF v \in Owing(g) THEN Cardinality(Owing(g)) - 1 ELSE Cardinality(Owing(g))
      BY <3>6, OneLess
    <3>8. Cardinality(Owing(g)) \in Nat /\ Successes(L, g) \in Nat
      BY <3>6, OwingFinite, SuccessesType
    <3> QED
      BY <2>2, <3>2, <3>3, <3>4, <3>5, <3>7, <3>8
  <2> QED
    BY <2>1, <2>2
<1> QED
  BY <1>2, <1>4, <1>5 DEF Covers, CoversGenes

(* The steps that end what a goroutine owes, with a new table of genes. *)
LEMMA TableStep ==
  ASSUME TypeOK, NEW L \in Seq(Capsules), Covers(L),
         NEW w \in Workers, NEW work \in Works,
         worker' = [worker EXCEPT ![w] = work], work.at \notin {"get", "update"},
         IsTable(genes)', genesFile' \in {genes', genesFile, Torn},
         \A g \in DOMAIN genes' : genes'[g].verified + Cardinality(Owing(g) \ {w})
           <= InitialVerified(g) + Successes(L, g)
  PROVE  Covers(L)'
<1>1. /\ worker'[w] = work
      /\ \A v \in Workers \ {w} : worker'[v] = worker[v]
  BY DEF TypeOK
<1>2. \A g : Owing(g)' = Owing(g) \ {w}
  BY OwingStep DEF Owes
<1>3. ASSUME NEW g
      PROVE  /\ Owing(g) \in SUBSET Workers /\ Cardinality(Owing(g)) \in Nat
             /\ Cardinality(Owing(g) \ {w}) \in Nat
             /\ Cardinality(Owing(g) \ {w}) <= Cardinality(Owing(g))
             /\ Successes(L, g) \in Nat /\ InitialVerified(g) \in {0, 1}
  <2>1. Owing(g) \in SUBSET Workers
    BY DEF Owing
  <2> QED
    BY <2>1, OwingFinite, SuccessesType, CountTypes
<1>4. \A g \in GeneIds : Cardinality(Owing(g)') <= Successes(L, g)
  BY <1>2, <1>3 DEF Covers
<1>5. CoversGenes(L)'
  BY <1>2 DEF CoversGenes, InitialVerified, Successes
<1>6. CoversCopies(L)'
  <2> SUFFICES ASSUME NEW v \in Workers, worker'[v].at = "update", NEW g, g = worker'[v].gene
               PROVE  worker'[v].copy.verified + Cardinality((Owing(g) \ {w}) \ {v})
                        <= InitialVerified(g) + Successes(L, g)
    BY <1>2 DEF CoversCopies
  <2>1. worker'[v] = worker[v]
    BY <1>1
  <2>2. worker[v].copy.verified + Cardinality(Owing(g) \ {v})
          <= InitialVerified(g) + Successes(L, g)
    BY <2>1 DEF Covers, CoversCopies
  <2>3. worker[v].copy.verified \in Nat
    BY CountTypes
  <2>4. /\ Cardinality(Owing(g) \ {v}) \in Nat
        /\ Cardinality((Owing(g) \ {w}) \ {v}) \in Nat
        /\ Cardinality((Owing(g) \ {w}) \ {v}) <= Cardinality(Owing(g) \ {v})
    <3>1. /\ Owing(g) \ {v} \in SUBSET Workers
          /\ (Owing(g) \ {w}) \ {v} \in SUBSET (Owing(g) \ {v})
      BY <1>3
    <3> QED
      BY <3>1, OwingFinite
  <2>5. Successes(L, g) \in Nat /\ InitialVerified(g) \in {0, 1}
    BY <1>3
  <2> QED
    BY <2>1, <2>2, <2>3, <2>4, <2>5
<1>7. (genesFile # Torn => Backed(genesFile, L))'
  <2>1. ASSUME NEW g \in DOMAIN genes'
        PROVE  genes'[g].verified <= InitialVerified(g) + Successes(L, g)
    <3>1. genes'[g].verified \in Nat
      BY DEF IsTable, Genes
    <3>2. genes'[g].verified + Cardinality(Owing(g) \ {w})
            <= InitialVerified(g) + Successes(L, g)
      OBVIOUS
    <3>3. /\ Cardinality(Owing(g) \ {w}) \in Nat
          /\ Successes(L, g) \in Nat /\ InitialVerified(g) \in {0, 1}
      BY <1>3
    <3> QED
      BY <3>1, <3>2, <3>3
  <2>2. Backed(genes', L)
    BY <2>1 DEF Backed
  <2> QED
    BY <2>2 DEF Covers, Backed, InitialVerified, Successes
<1> QED
  BY <1>4, <1>5, <1>6, <1>7 DEF Covers, Successes

(* UpdateGene: the copy is covered without the verification just paid. *)
LEMMA UpdateGeneCovers ==
  ASSUME TypeOK, NEW L \in Seq(Capsules), Covers(L), NEW w \in Workers, UpdateGene(w)
  PROVE  Covers(L)'
<1>1. PICK work \in Works :
        worker' = [worker EXCEPT ![w] = work] /\ work.at \notin {"get", "update"}
  BY UpdateGeneEffect, Constants
<1>2. /\ worker[w].at = "update"
      /\ genes' = [genes EXCEPT ![worker[w].gene] = worker[w].copy]
      /\ IsTable(genes') /\ DOMAIN genes' = DOMAIN genes
      /\ worker[w].gene \in DOMAIN genes /\ genesFile' \in {genes', genesFile, Torn}
  BY UpdateGeneEffect
<1>3. ASSUME NEW g \in DOMAIN genes'
      PROVE  genes'[g].verified + Cardinality(Owing(g) \ {w})
               <= InitialVerified(g) + Successes(L, g)
  <2>1. CASE g = worker[w].gene
    BY <1>2, <2>1 DEF Covers, CoversCopies
  <2>2. CASE g # worker[w].gene
    <3>1. genes'[g] = genes[g] /\ g \in DOMAIN genes
      BY <1>2, <2>2
    <3>2. genes[g].verified + Cardinality(Owing(g)) <= InitialVerified(g) + Successes(L, g)
      BY <3>1 DEF Covers, CoversGenes
    <3>3. Owing(g) \in SUBSET Workers
      BY DEF Owing
    <3>4. /\ Cardinality(Owing(g)) \in Nat /\ Cardinality(Owing(g) \ {w}) \in Nat
          /\ Cardinality(Owing(g) \ {w}) <= Cardinality(Owing(g))
          /\ Successes(L, g) \in Nat
      BY <3>3, OwingFinite, SuccessesType
    <3>5. genes[g].verified \in Nat /\ InitialVerified(g) \in {0, 1}
      BY <3>1, CountTypes
    <3> QED
      BY <3>1, <3>2, <3>4, <3>5
  <2> QED
    BY <2>1, <2>2
<1> QED
  BY <1>1, <1>2, <1>3, TableStep

(* CreateGene: the new gene counts its own success, and whoever still owes *)
(* a verification to a gene of that name has its capsule in the list.      *)
LEMMA CreateGeneCovers ==
  ASSUME TypeOK, NEW L \in Seq(Capsules), Covers(L), NEW w \in Workers, CreateGene(w)
  PROVE  Covers(L)'
<1>1. PICK work \in Works :
        worker' = [worker EXCEPT ![w] = work] /\ work.at \notin {"get", "update"}
  BY CreateGeneEffect, Constants
<1> DEFINE id == worker[w].capsule.id
<1>2. /\ id \in Times /\ IsTable(genes') /\ genesFile' \in {genes', genesFile, Torn}
      /\ DOMAIN genes' = DOMAIN genes \union {id}
  BY CreateGeneEffect
<1>3. PICK gene \in Genes : genes' = WithGene(id, gene) /\ gene.verified = 1
  BY CreateGeneEffect
<1>4. InitialVerified(id) = 1 /\ id \in GeneIds
  BY <1>2, IdAssumption DEF InitialVerified, GeneIds
<1>5. ASSUME NEW g \in DOMAIN genes'
      PROVE  genes'[g].verified + Cardinality(Owing(g) \ {w})
               <= InitialVerified(g) + Successes(L, g)
  <2>1. Owing(g) \in SUBSET Workers
    BY DEF Owing
  <2>2. /\ Cardinality(Owing(g)) \in Nat /\ Cardinality(Owing(g) \ {w}) \in Nat
        /\ Cardinality(Owing(g) \ {w}) <= Cardinality(Owing(g))
        /\ Successes(L, g) \in Nat
    BY <2>1, OwingFinite, SuccessesType
  <2>3. CASE g = id
    <3>1. genes'[g].verified = 1 /\ Cardinality(Owing(g)) <= Successes(L, g)
      BY <1>3, <1>4, <2>3 DEF WithGene, Covers
    <3> QED
      BY <1>4, <2>2, <2>3, <3>1
  <2>4. CASE g # id
    <3>1. genes'[g] = genes[g] /\ g \in DOMAIN genes
      BY <1>2, <1>3, <2>4 DEF WithGene
    <3>2. genes[g].verified + Cardinality(Owing(g)) <= InitialVerified(g) + Successes(L, g)
      BY <3>1 DEF Covers, CoversGenes
    <3>3. genes[g].verified \in Nat /\ InitialVerified(g) \in {0, 1}
      BY <3>1, CountTypes
    <3> QED
      BY <2>2, <3>1, <3>2, <3>3
  <2> QED
    BY <2>3, <2>4
<1> QED
  BY <1>1, <1>2, <1>5, TableStep

IdleBacked(list) ==
    /\ \A w \in Workers : worker[w].at = "idle"
    /\ IsTable(genes) /\ Backed(genes, list)
    /\ genesFile # Torn => Backed(genesFile, list)

(* With nobody in Solidify nothing is owed: a list covers a table that it  *)
(* backs.                                                                  *)
LEMMA IdleCovers == \A L \in Seq(Capsules) : IdleBacked(L) => Covers(L)
<1> SUFFICES ASSUME NEW L \in Seq(Capsules), IdleBacked(L) PROVE Covers(L)
  OBVIOUS
<1> USE DEF IdleBacked
<1>1. \A g : Owing(g) = {}
  BY DEF Owing, Owes
<1>2. \A g : Successes(L, g) \in Nat /\ Cardinality(Owing(g)) = 0
  BY <1>1, SuccessesType, FS_EmptySet
<1>3. CoversGenes(L)
  <2> SUFFICES ASSUME NEW g \in DOMAIN genes
               PROVE  genes[g].verified + Cardinality(Owing(g))
                        <= InitialVerified(g) + Successes(L, g)
    BY DEF CoversGenes
  <2>1. genes[g].verified \in Nat
    BY DEF IsTable, Genes
  <2>2. genes[g].verified <= InitialVerified(g) + Successes(L, g)
    BY DEF Backed
  <2> QED
    BY <1>2, <2>1, <2>2
<1>4. CoversCopies(L)
  BY DEF CoversCopies
<1> QED
  BY <1>2, <1>3, <1>4 DEF Covers

(* The same of the state after a step. *)
LEMMA IdleCoversNext == (\A L \in Seq(Capsules) : IdleBacked(L) => Covers(L))'
BY IdleCovers, PTL

(* Boot: the seeds have no verifications, and the file is backed. *)
LEMMA BootCovers ==
  ASSUME TypeOK, NEW L \in Seq(Capsules), Covers(L), Boot
  PROVE  Covers(L)'
<1>1. \A g : InitialVerified(g) \in {0, 1} /\ Successes(L, g) \in Nat
  BY SuccessesType DEF InitialVerified
<1>2. Backed(SeedGenes, L)
  BY <1>1, SeedAssumption, Constants DEF Backed, InitialVerified
<1>3. genesFile # Torn => Backed(genesFile, L)
  BY DEF Covers
<1>4. Backed(genes', L) /\ (genesFile' # Torn => Backed(genesFile', L))
  BY <1>2, <1>3, BootEffect
<1>5. IsTable(genes)' /\ \A w \in Workers : worker'[w].at = "idle"
  BY BootEffect DEF IsTable
<1>6. PICK table : table = genes'
  OBVIOUS
<1>7. PICK file : file = genesFile'
  OBVIOUS
<1>8. Backed(genes, L)'
  BY <1>4, <1>6 DEF Backed, InitialVerified, Successes
<1>9. (genesFile # Torn => Backed(genesFile, L))'
  BY <1>4, <1>7 DEF Backed, InitialVerified, Successes
<1>10. IdleBacked(L)'
  BY <1>5, <1>8, <1>9 DEF IdleBacked
<1> QED
  BY <1>10, IdleCoversNext

(* Crash: the memory is gone, the files are what they were or torn. *)
LEMMA CrashCovers ==
  ASSUME TypeOK, NEW L \in Seq(Capsules), Covers(L), Crash
  PROVE  Covers(L)'
<1>1. genes' = NoGenes /\ genesFile' \in {genesFile, Torn}
      /\ \A w \in Workers : worker'[w].at = "idle"
  BY CrashEffect, Constants
<1>2. IsTable(genes)' /\ Backed(genes, L)'
  BY <1>1, Constants DEF Backed, IsTable
<1>3. (genesFile # Torn => Backed(genesFile, L))'
  BY <1>1 DEF Covers, Backed, InitialVerified, Successes
<1>4. IdleBacked(L)'
  BY <1>1, <1>2, <1>3 DEF IdleBacked
<1> QED
  BY <1>4, IdleCoversNext

(* A step that changes neither genes nor workers covers what it covered. *)
LEMMA SameCovers ==
  ASSUME NEW L \in Seq(Capsules), Covers(L), UNCHANGED <<genes, genesFile, worker>>
  PROVE  Covers(L)'
BY DEF Covers, CoversGenes, CoversCopies, Owing, Owes, Backed, InitialVerified, Successes

(* A step that adds no capsule keeps the invariant when it keeps every     *)
(* list covering.                                                          *)
LEMMA CountStep ==
  ASSUME TypeOK, CountInv, \A L \in Seq(Capsules) : Covers(L) => Covers(L)',
         capsules' = capsules, capsulesFile' \in {capsulesFile, Torn},
         ready' = ready, ready \/ genes' = genes
  PROVE  CountInv'
<1>1. PICK L \in Seq(Capsules) : L = capsules
  BY DEF TypeOK
<1>2. ready' => Covers(capsules)'
  <2>1. ready => Covers(L)'
    BY <1>1 DEF CountInv
  <2>2. capsules' = L
    BY <1>1
  <2> QED
    BY <2>1, <2>2 DEF Covers, CoversGenes, CoversCopies
<1>3. capsulesFile' # Torn => Covers(capsulesFile)'
  <2> SUFFICES ASSUME capsulesFile' # Torn PROVE Covers(capsulesFile)'
    OBVIOUS
  <2>1. PICK M \in Seq(Capsules) : M = capsulesFile
    BY DEF TypeOK
  <2>2. Covers(M)' /\ capsulesFile' = M
    BY <2>1 DEF CountInv
  <2> QED
    BY <2>2 DEF Covers, CoversGenes, CoversCopies
<1> QED
  BY <1>2, <1>3 DEF CountInv

(* The step that adds a capsule: whoever begins to owe has just added it.  *)
LEMMA AddCapsuleCount ==
  ASSUME TypeOK, CountInv, NEW w \in Workers, AddCapsule(w)
  PROVE  CountInv'
<1>1. PICK L \in Seq(Capsules) : L = capsules
  BY DEF TypeOK
<1>2. PICK c \in Capsules : c = worker[w].capsule
  BY DEF TypeOK, Works
<1>a. Append(L, c) \in Seq(Capsules)
  OBVIOUS
<1>3. PICK M \in Seq(Capsules) : M = Append(L, c)
  BY <1>a
<1>4. /\ ready /\ ready' = ready /\ genes' = genes /\ genesFile' = genesFile
      /\ worker[w].at = "capsule" /\ capsules' = M
  BY <1>1, <1>2, <1>3, AddCapsuleEffect DEF AddCapsule
<1>5. Covers(L)
  BY <1>1, <1>4 DEF CountInv
<1>6. \A g : /\ Successes(L, g) \in Nat
             /\ Successes(M, g) = IF c.gene = g /\ c.outcome = "success"
                                  THEN Successes(L, g) + 1 ELSE Successes(L, g)
  BY <1>3, SuccessesAppend
<1>7. \A g : Successes(L, g) <= Successes(M, g)
  BY <1>6
<1>8. PICK work \in Works :
        /\ worker' = [worker EXCEPT ![w] = work] /\ work.at # "update"
        /\ work.at = "get" => work.capsule = c /\ capsulesFile' = capsules'
        /\ capsulesFile' = capsules' \/ (capsulesFile' \in {capsulesFile, Torn} /\ work = IdleWorker)
  <2>1. CASE worker' = [worker EXCEPT ![w] = IdleWorker] /\ capsulesFile' \in {capsulesFile, Torn}
    BY <2>1, Constants
  <2>2. ASSUME NEW work \in Works, worker' = [worker EXCEPT ![w] = work],
               work.at = worker[w].then, work.capsule = worker[w].capsule,
               capsulesFile' = capsules'
        PROVE  work.at # "update" /\ work.capsule = c
    BY <1>2, <2>2 DEF TypeOK, Works
  <2> QED
    BY <2>1, <2>2, AddCapsuleEffect
<1>9. \A g : Owes(work, g) => w \notin Owing(g) /\ Successes(L, g) + 1 <= Successes(M, g)
  BY <1>4, <1>6, <1>8 DEF Owes, Owing
<1>10. Covers(M)'
  BY <1>4, <1>5, <1>7, <1>8, <1>9, CoversStep
<1>11. Covers(capsules)'
  BY <1>4, <1>10 DEF Covers, CoversGenes, CoversCopies
<1>12. capsulesFile' # Torn => Covers(capsulesFile)'
  <2>1. CASE capsulesFile' = capsules'
    BY <1>11, <2>1 DEF Covers, CoversGenes, CoversCopies
  <2>2. CASE capsulesFile' = capsulesFile /\ capsulesFile # Torn /\ work = IdleWorker
    <3>1. PICK F \in Seq(Capsules) : F = capsulesFile
      BY <2>2 DEF TypeOK
    <3>2. Covers(F)
      BY <2>2, <3>1 DEF CountInv
    <3>3. \A g : ~Owes(work, g) /\ Successes(F, g) <= Successes(F, g)
      BY <2>2, Constants, SuccessesType DEF Owes
    <3>4. Covers(F)'
      BY <1>4, <1>8, <3>2, <3>3, CoversStep
    <3> QED
      BY <2>2, <3>1, <3>4 DEF Covers, CoversGenes, CoversCopies
  <2> QED
    BY <1>8, <2>1, <2>2
<1> QED
  BY <1>4, <1>11, <1>12 DEF CountInv

(* Solidify begins: nothing is owed before the capsule is added. *)
LEMMA SolidifyCount ==
  ASSUME TypeOK, CountInv, NEW w \in Workers,
         NEW gene \in DOMAIN genes \union {NoGene}, NEW signals \in SUBSET Signals,
         NEW steps, NEW outcome \in Outcomes,
         Solidify(w, gene, signals, steps, outcome)
  PROVE  CountInv'
<1>1. PICK work \in Works :
        /\ worker' = [worker EXCEPT ![w] = work]
        /\ work.at = "capsule" /\ work.gene = NoGene
        /\ work.then = "get" <=> gene # NoGene
        /\ work.capsule = [id |-> now, gene |-> gene, outcome |-> outcome]
        /\ ready /\ UNCHANGED Others
  BY SolidifyEffect
<1>2. ASSUME NEW L \in Seq(Capsules), Covers(L) PROVE Covers(L)'
  <2>1. \A g : ~Owes(work, g) /\ Successes(L, g) <= Successes(L, g)
    BY <1>1, SuccessesType DEF Owes
  <2> QED
    BY <1>1, <1>2, <2>1, CoversStep DEF Others, files
<1> QED
  BY <1>1, <1>2, CountStep DEF Others, files

(* AppendEvent touches no count. *)
LEMMA AppendEventCovers ==
  ASSUME TypeOK, NEW L \in Seq(Capsules), Covers(L), NEW w \in Workers, AppendEvent(w)
  PROVE  Covers(L)'
<1>1. \A g : ~Owes(IdleWorker, g) /\ Successes(L, g) <= Successes(L, g)
  BY Constants, SuccessesType DEF Owes
<1> QED
  BY <1>1, AppendEventEffect, Constants, CoversStep

(* The inductive invariant of the counts: every list of capsules, in       *)
(* memory or in the file, covers the verifications there are and those     *)
(* still owed, unless the list could not be read.                          *)
THEOREM CountInvariance == Spec => []("capsules" \in misread \/ CountInv)
<1>1. Init => CountInv
  <2> SUFFICES ASSUME Init PROVE CountInv
    OBVIOUS
  <2>1. <<>> \in Seq(Capsules) /\ Backed(NoGenes, <<>>)
    BY Constants DEF Backed
  <2>2. IdleBacked(<<>>)
    BY <2>1, Constants DEF Init, IdleBacked
  <2>3. Covers(<<>>)
    BY <2>1, <2>2, IdleCovers
  <2> QED
    BY <2>3 DEF Init, CountInv
<1>2. TypeOK /\ CountInv /\ [Next]_vars /\ "capsules" \notin misread' => CountInv'
  <2> SUFFICES ASSUME TypeOK, CountInv, [Next]_vars, "capsules" \notin misread'
               PROVE  CountInv'
    OBVIOUS
  <2>1. ASSUME NEW w \in Workers, AfterToolExecution(w) PROVE CountInv'
    <3>1. PICK signals \in SUBSET Signals, outcome \in Outcomes :
            ConsiderSolidify(w, signals, outcome)
      BY <2>1 DEF AfterToolExecution, ExtractedSignals, Outcomes
    <3>2. PICK gene \in DOMAIN genes \union {NoGene} :
            Solidify(w, gene, signals, TRUE, outcome)
      BY <3>1 DEF ConsiderSolidify, Selected
    <3> QED
      BY <3>2, SolidifyCount
  <2>2. ASSUME NEW w \in Workers, ReportGene(w) PROVE CountInv'
    BY <2>2, SolidifyCount DEF ReportGene
  <2>3. ASSUME NEW w \in Workers, GetGene(w) PROVE CountInv'
    <3>1. ready /\ UNCHANGED Others
      BY <2>3, GetGeneEffect
    <3> QED
      BY <2>3, <3>1, GetGeneCovers, CountStep DEF Others, files
  <2>4. ASSUME NEW w \in Workers, UpdateGene(w) PROVE CountInv'
    <3>1. ready /\ UNCHANGED <<ready, capsules, capsulesFile>>
      BY <2>4, UpdateGeneEffect
    <3> QED
      BY <2>4, <3>1, UpdateGeneCovers, CountStep
  <2>5. ASSUME NEW w \in Workers, CreateGene(w) PROVE CountInv'
    <3>1. ready /\ UNCHANGED <<ready, capsules, capsulesFile>>
      BY <2>5, CreateGeneEffect
    <3> QED
      BY <2>5, <3>1, CreateGeneCovers, CountStep
  <2>6. ASSUME NEW w \in Workers, AppendEvent(w) PROVE CountInv'
    BY <2>6, AppendEventEffect, AppendEventCovers, CountStep
  <2>7. CASE Boot
    <3>1. PICK L \in Seq(Capsules) : L = capsulesFile
      BY <2>7, BootEffect DEF TypeOK
    <3>2. Covers(L)' /\ capsules' = L /\ capsulesFile' = L /\ ready' = TRUE
      BY <2>7, <3>1, BootEffect, BootCovers DEF CountInv
    <3> QED
      BY <3>2 DEF CountInv, Covers, CoversGenes, CoversCopies
  <2>8. CASE Crash
    <3>1. ~ready' /\ genes' = NoGenes /\ capsulesFile' \in {capsulesFile, Torn}
      BY <2>8, CrashEffect
    <3>2. ASSUME capsulesFile' # Torn PROVE Covers(capsulesFile)'
      <4>1. PICK L \in Seq(Capsules) : L = capsulesFile
        BY <3>1, <3>2 DEF TypeOK
      <4>2. Covers(L)' /\ capsulesFile' = L
        BY <2>8, <3>1, <3>2, <4>1, CrashCovers DEF CountInv
      <4> QED
        BY <4>2 DEF Covers, CoversGenes, CoversCopies
    <3> QED
      BY <3>1, <3>2 DEF CountInv
  <2>9. CASE UNCHANGED <<ready, memory, files, worker>>
    BY <2>9, SameCovers, CountStep DEF memory, files
  <2> QED
    BY <2>1, <2>2, <2>3, <2>4, <2>5, <2>6, <2>7, <2>8, <2>9, AddCapsuleCount
       DEF Next, BootUnreadable, Tick, vars, memory, files
<1>3. TypeOK /\ ("capsules" \in misread \/ CountInv) /\ [Next]_vars
        => ("capsules" \in misread \/ CountInv)'
  BY <1>2, MisreadStays
<1> QED
  BY <1>1, <1>3, TypeCorrect, PTL DEF Spec

(* No gene claims a verification that no kept capsule stands for.  The     *)
(* file of genes is covered by the file of capsules.                       *)
THEOREM VerificationsAreBacked == Spec => []VerificationsBacked
<1>1. TypeOK /\ ("capsules" \in misread \/ CountInv) => VerificationsBacked
  <2> SUFFICES ASSUME TypeOK, CountInv PROVE VerificationsBacked
    BY DEF VerificationsBacked
  <2>1. CASE ready
    <3>1. ASSUME NEW g \in DOMAIN genes
          PROVE  genes[g].verified <= InitialVerified(g) + Successes(capsules, g)
      <4>1. genes[g].verified + Cardinality(Owing(g))
              <= InitialVerified(g) + Successes(capsules, g)
        BY <2>1 DEF CountInv, Covers, CoversGenes
      <4>2. Owing(g) \in SUBSET Workers /\ genes[g].verified \in Nat
            /\ InitialVerified(g) \in {0, 1}
        BY CountTypes DEF Owing
      <4>3. Cardinality(Owing(g)) \in Nat /\ Successes(capsules, g) \in Nat
        BY <4>2, OwingFinite, SuccessesType DEF TypeOK
      <4> QED
        BY <4>1, <4>2, <4>3
    <3> QED
      BY <3>1 DEF CountInv, Covers, VerificationsBacked, Backed
  <2>2. CASE ~ready
    BY <2>2, Constants DEF CountInv, Covers, VerificationsBacked, Backed
  <2> QED
    BY <2>1, <2>2
<1> QED
  BY <1>1, TypeCorrect, CountInvariance, PTL

=============================================================================
