\* Keys and commands whose packets lose a byte; counters that are read while the clock is
\* set back; five lines and an argument of a configuration;
\* expressions of five tokens; text displays with one or two chars to define;
\* nine graphic drivers; the start and end of all drivers.
CONSTANTS
    textDisplay = textDisplay
    graphicDisplay = graphicDisplay
    sampler = sampler
    crystalfontz = crystalfontz
    life = life
    Drivers <- MCDrivers
    configuration = configuration
    evaluator = evaluator
    RING = 16
    Keys = {1, 5}
    KeyCommand <- MCKeyCommand
    Commands = {31}
    CRC <- MCCRC
    MaxSends = 2
    MaxPressed = 3
    MaxLost = 1
    Layouts = {1, 2}
    SectionNames <- MCSections
    PairKeys <- MCPairs
    WidgetType <- MCTypes
    ArgumentKeys <- MCArguments
    LAYERS = 3
    MAX_WIDGETS = 2
    MaxLines = 5
    MaxArguments = 1
    Alphabets <- MCAlphabets
    MaxTokens = 5
    DROWS = 2
    DCOLS = 3
    TextSetups <- MCTextSetups
    GraphicDrivers <- MCGraphicDrivers
    Layers = 2
    GROWS = 4
    GCOLS = 12
    SCOLS = 20
    BITS = 2
    MaxDrawings = 3
    DELTA_SLOTS = 3
    Sources <- MCSources
    Names <- MCNames
    Late <- MCLate
    MaxAsks = 4
    MaxPauses = 2
    MaxErrors = 1
CHECK_DEADLOCK FALSE
SPECIFICATION ScreenSpec
INVARIANTS
    TextsShown
    BarsShown
    PixelsShown
    IntactKept
    LayoutAsWritten
    ParsesAsMeant
    RatesHonest
    ShowsLayout
    HandedOver
