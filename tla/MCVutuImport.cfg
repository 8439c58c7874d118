SPECIFICATION Spec
CONSTANTS
    VectorSize = 2
    SizeMod = 1000
    Den = 4
    SampleRate = 2
    Intervals <- MCIntervals
    Fundamentals <- MCFundamentals
    LoadOutcomes = {"ok"}
    ImportOutcomes = {"cancel", "unreadable", "ok"}
    SourceFrames = {8}
    SourceRates = {2}
    FileDurations = {4}
    Preemptive = FALSE
    MaxFrames = 40
    MaxReports = 2
    UserCommands = {"import"}
    UserValues <- MCNothing
    MaxInputs = 2
    MaxBacklog = 0
INVARIANTS
    SurvivesImport
CHECK_DEADLOCK FALSE
