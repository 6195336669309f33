------------------------------- MODULE MCGene -------------------------------
(***************************************************************************)
(* GeneStore with one of the seed genes and two signals, one of which      *)
(* inferIntent knows.  The goroutines that run turns are interchangeable.  *)
(***************************************************************************)
EXTENDS GeneStore, TLC

CONSTANTS Run, Cron, SensorRepair, SensorError, Humid

MCWorkers == {Run, Cron}
MCSymmetry == Permutations(MCWorkers)
MCSeeds == {SensorRepair}
MCSignals == {SensorError, Humid}
MCIntent == (SensorError :> "repair") @@ (Humid :> NoIntent)
MCSeedGenes == [s \in MCSeeds |->
    [confidence |-> 700, verified |-> 0, category |-> "repair", match |-> {SensorError}]]

=============================================================================
