SPECIFICATION LoadedSpec
CONSTANTS
    Frames = 8
    VectorSize = 2
    SizeMod = 1000
    Den = 4
    SampleRate = 2
    Intervals <- MCIntervals
    Fundamentals <- MCFundamentals
    LoadOutcomes = {"ok"}
    ImportOutcomes = {"ok"}
    SourceFrames = {8}
    SourceRates = {2}
    FileDurations = {4}
    Preemptive = FALSE
    MaxFrames = 40
    MaxReports = 2
    UserCommands = {"toggle_play_synth"}
    UserValues <- MCNothing
    MaxInputs = 1
    MaxBacklog = 0
INVARIANTS
    PlaysWholeSynth
