SPECIFICATION LoadedFairSpec
CONSTANTS
    Frames = 7
    VectorSize = 2
    SizeMod = 1000
    Den = 4
    SampleRate = 2
    Intervals <- MCIntervals
    Fundamentals <- MCFundamentals
    LoadOutcomes = {"ok"}
    ImportOutcomes = {"ok"}
    SourceFrames = {7, 8}
    SourceRates = {2}
    FileDurations = {4}
    Preemptive = FALSE
    MaxFrames = 12
    MaxReports = 2
    UserCommands = {"open", "analyze", "synthesize", "toggle_play_source", "toggle_play_synth"}
    UserValues <- MCSetInterval
    MaxInputs = 3
    MaxBacklog = 0
PROPERTIES
    PlaybackEnds
    EventuallySettled
    FulfilsTransport
