SPECIFICATION Spec
CONSTANTS
    KeyIdx = {0, 1}
    MaxKeys = 2
    MaxKeyCalls = 2
    MaxKeyRefused = 1
    MaxPn = 3
    Tids = {0, 1}
    Entries = 2
    FragSnMod = 2
    MaxFrags = 3
    Sent <- SentMsdus
    Networks <- SomeNetworks
    MaxRepeats = 1
    MaxFragFaults = 1
    Firmware <- FirmwareDirs
    DramImage <- DramWords
    HeadRange = 12
    BlockWords = 2
    BusTries = 1
    MaxOthers = 1
    MaxImageFaults = 1
    MaxProbes = 2
    MaxPowers = 3
    MaxBindFaults = 2
    ScanBeacons <- SomeBeacons
    MaxInformFails = 1
    RegChannels <- SomeChannels
    RegDb <- SomeDb
    RegCodes <- SomeCodes
    HalfWidth = 2
    BandLimit = 20
    MaxRegRules = 8
    MaxRegCalls = 3
    MaxRegFaults = 2
    Masked <- Patterns
    Texts <- Filters
    Header = 2
    RuleSize = 7
    EthDataLen = 8
    SKW_MAX_WOW_RULE_NUM = 2
    MaxWowCalls = 2
    MaxWowRefused = 1
    NumDigits = 2
    Glyphs <- PanelGlyphs
    Seg7 <- PanelMap
    ClockTexts <- PanelTimes
    SymbolSets = {0, 4}
    Levels = {3, 7}
    MaxOperator = 1
    MaxBinds = 2
    MaxSleeps = 1
INVARIANTS
    KeysSafe FragSafe ImageSafe BindSafe MbssidExact RegdSafe WowSafe PanelSafe
CHECK_DEADLOCK FALSE
