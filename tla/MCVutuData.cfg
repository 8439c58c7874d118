SPECIFICATION Spec
CONSTANTS
    VectorSize = 2
    SizeMod = 1000
    Den = 4
    SampleRate = 2
    Intervals <- MCIntervals
    Fundamentals <- MCFundamentals
    LoadOutcomes = {"cancel", "ok"}
    ImportOutcomes = {"cancel", "ok"}
    SourceFrames = {8}
    SourceRates = {2}
    FileDurations = {4}
    Preemptive = FALSE
    MaxFrames = 40
    MaxReports = 2
    UserCommands = {"open", "import", "analyze", "synthesize", "export", "export_synth"}
    UserValues <- MCSetBoth
    MaxInputs = 5
    MaxBacklog = 0
INVARIANTS
    TypeOK
    DataConsistent
    PartialsOfSource
    PartialsNameSource
