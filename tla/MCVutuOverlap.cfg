SPECIFICATION EitherSpec
CONSTANTS
    Frames = 8
    VectorSize = 2
    SizeMod = 1000
    Den = 4
    SampleRate = 2
    Intervals <- MCIntervals
    Fundamentals <- MCFundamentals
    LoadOutcomes = {"cancel", "not_audio", "short", "ok"}
    ImportOutcomes = {"cancel", "unreadable", "ok"}
    SourceFrames = {8}
    SourceRates = {2, 4}
    FileDurations = {4}
    Preemptive = FALSE
    MaxFrames = 40
    MaxReports = 2
    UserCommands = {"open", "import", "analyze", "synthesize", "export", "export_synth", "toggle_play_source", "toggle_play_synth"}
    UserValues <- MCSetBoth
    MaxInputs = 2
    MaxBacklog = 99
INVARIANTS
    ViewPartialsCurrent
    EnabledCurrent
    ProcParamsCurrent
    ViewParamsCurrent
    ProcSourceCurrent
PROPERTIES
    ImplementsTransport
CHECK_DEADLOCK FALSE
