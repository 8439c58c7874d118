SPECIFICATION WidgetsSpec
CONSTANTS
    Frames = 8
    VectorSize = 2
    SizeMod = 1000
    Den = 4
    SampleRate = 2
    Intervals <- MCAllIntervals
    Fundamentals <- MCFundamentals
    LoadOutcomes = {"ok"}
    ImportOutcomes = {"ok"}
    SourceFrames = {8}
    SourceRates = {2}
    FileDurations = {4}
    Preemptive = FALSE
    MaxFrames = 40
    MaxReports = 2
    UserCommands = {"open", "synthesize"}
    UserValues <- MCNothing
    MaxInputs = 4
    MaxBacklog = 0
    Gap <- MCGap
    Moves <- MCMoves
    Sizes = {1, 2}
INVARIANTS
    WidgetsTypeOK
    GapKept
    IntervalsAgree
    PicturesCurrent
PROPERTIES
    GapRestored
    EventuallyPainted
