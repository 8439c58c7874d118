SPECIFICATION PlaySpec
CONSTANTS
    Frames = 7
    VectorSize = 2
    SizeMod = 1000
    Den = 4
    SampleRate = 2
    Intervals <- MCNarrow
    Fundamentals <- MCFundamentals
    LoadOutcomes = {"ok"}
    ImportOutcomes = {"cancel"}
    SourceFrames = {7, 8}
    SourceRates = {2}
    FileDurations = {4}
    Preemptive = TRUE
    MaxFrames = 40
    MaxReports = 2
    UserCommands = {"open", "synthesize", "toggle_play_source", "toggle_play_synth"}
    UserValues <- MCSetEither
    MaxInputs = 3
    MaxBacklog = 2
INVARIANTS
    ReadsInBounds
    PlaybackInv
    ButtonsTold
