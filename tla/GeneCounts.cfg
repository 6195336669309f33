SPECIFICATION Spec
CONSTANTS
    Run = Run
    Cron = Cron
    SensorRepair = SensorRepair
    SensorError = SensorError
    Humid = Humid
    NoGene = NoGene
    NoIntent = NoIntent
    Torn = Torn
    Workers <- MCWorkers
    Seeds <- MCSeeds
    Signals <- MCSignals
    Intent <- MCIntent
    SeedGenes <- MCSeedGenes
    MinConfidence = 700
    MinVerifiedBy = 0
    AllowUnverified = TRUE
    Categories = {"repair", "optimize", "innovate"}
    MaxTime = 1
    MaxExperiences = 3
    MaxFaults = 0
INVARIANTS
    SuccessesCounted
SYMMETRY MCSymmetry
CHECK_DEADLOCK FALSE
