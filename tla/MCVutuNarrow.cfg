SPECIFICATION LoadedFairSpec
CONSTANTS
    Frames = 4
    VectorSize = 2
    SizeMod = 1000
    Den = 4
    SampleRate = 2
    Intervals <- MCNarrow
    Fundamentals <- MCFundamentals
    LoadOutcomes = {"ok"}
    ImportOutcomes = {"ok"}
    SourceFrames = {4}
    SourceRates = {2}
    FileDurations = {4}
    Preemptive = FALSE
    MaxFrames = 40
    MaxReports = 2
    UserCommands = {"toggle_play_source"}
    UserValues <- MCSetNarrow
    MaxInputs = 2
    MaxBacklog = 0
PROPERTIES
    PlaybackEnds
