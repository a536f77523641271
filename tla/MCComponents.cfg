CONSTANTS
    MAX_LEN = 2
    Chunks <- LinePieces
    MaxChunks = 4
    NanosPerSecond = 4
    PulseLimit = 3
    LastNanosecond = 7
    VersionTexts <- ProtverTexts
    MaxMessages = 2
    ReadSize = 2
    Window = 1
    HistoryLength = 1
    FilterEdge = "rising"
    Deadtime = 1
    LineEdges = {"rising", "falling"}
    MaxEdges = 3
    GpioMaxTime = 2
    CounterMask = 2
    BufferTime = 1
    Overtakes = 1
    MaxValues = 4
    CounterMaxTime = 3
    I2cObjects = {d1, d2}
    fNrRetries = 1
    MaxI2cCalls = 4
    AdcWorkers = {w1, w2}
    BufferSize = 3
    Pretrigger = 1
    BurstSizes = {0, 2}
    MaxAdcCommands = 3
    MaxAdcTicks = 4
    DacWorkers = {w1}
    DacChannels = {0, 2}
    Thresholds = {0}
    BiasChannel = 2
    MaxCode = 15
    Modulus = 256
    VddUnits = 25
    Voltages = {0, 9, 15, 16, 31, 33, 258, 400}
    MaxDacCalls = 3
    MaxDacFaults = 1
    CALIBITEMS <- Layout
    PAGESIZE = 4
    EepromSize = 10
    SerialSize = 2
    ItemValues = {5, 6}
    MaxCalibCalls = 7
    MaxCalibFaults = 2
    MIN_HISTO_ENTRIES = 1
    lock_in_min_histogram_entries = 2
    lock_in_max_histogram_entries = 2
    MaxGeoSteps = 5
    MaxPackets = 2
    RotationPeriod = 1
    SizeLimit = 1
    DayLength = 3
    DailyUploadTime = 2
    MaxSuffix = 2
    MaxStarts = 2
    MaxLines = 2
    MaxFileTime = 3
    MaxFileFaults = 1
    Starts <- AllStarts
    MaxArgs = 3
    HistoWorkers = {w1}
    fNrBins = 11
    Second = 10
    LongInterval = 1000
    lock_in_max_dop = 3
    ManyEntries = 3
    WideShare = 5
    Feeds <- HistoFeeds
    SdsPieces <- DustPieces
    MaxSdsPieces = 2
    SleepTimes = {0, 1}
    ScanInputs <- Scans
    UserVoltages = {7}
    DacLimit = 7
    ReadFaults <- DacReadFaults
    CounterRange = 4
    MaxMarks = 2
    MaxScanEvents = 3
    MaxScanFaults = 1
    Guis = {g1}
    Daemons = {d1}
    MaxSearches = 1
    MaxHeard = 3
SPECIFICATION Spec
INVARIANTS
    ParsesFrames MessagesAreDecoded CountsAreEdges DevicesAreAsShown
    TracesAreOfTheirTrigger DacIsAsBelieved CalibrationSurvives LockInIsSound
    SameAtBothEnds LinesAreKept ConfigurationIsAsAsked HistogramsAreFaithful SensorIsServed
    ScanLeavesNoTrace DiscoveryIsSound
PROPERTY LineIsFollowed
CHECK_DEADLOCK FALSE
