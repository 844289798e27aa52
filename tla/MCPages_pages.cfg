SPECIFICATION AppSpec
CONSTANTS
    None = None
    Acts <- ActsOf
    Awaited <- AwaitedOf
    ChartKeys = {"a", "b"}
    Zero = "zero"
    KeyLists <- TheKeyLists
    Metas <- TheMetas
    Durations = {1, 800}
    ChartStart = 10000
    ChartUpdates = 1
    BoardIds = {"A", "B"}
    Existing = {"A", "B"}
    EmptyBoards = {"B"}
    MaxShows = 2
    MaxSaves = 2
    Slots = {1, 2}
    FirstSlots = {1}
    EditorKeys = {"a", "b"}
    EditorRules = {"r"}
    KnownAtFirst <- TheKnownAtFirst
    MaxOpenings = 3
    Svgs = {"s", "t"}
    Cells = {1, 2}
    CellIds = {"p", "r"}
    Pictures <- ThePictures
    DrawingKeys = {"k"}
    DrawingRules <- TheDrawingRules
    DrawingFetches = 2
    Marked = {"p1", "p2"}
    MarkSvgs = {"s"}
    MarkKeys = {"k", "l"}
    KeyOf <- TheKeyOf
    Places = {1, 3}
    MarkValues = {0, 1}
    Middle = 2
    MarkFetches = 2
    PreviewRules = {1, 2}
    PreviewElements = {"p", "q"}
    Missing = "m"
    Classes = {"right", "left", "green"}
    Category <- TheCategory
    CustomerIds = {"x", "y"}
    Periods = {1, 2}
    PresentPeriod = 1
    Invoices <- Invoiced
    Unassigned = "unassigned"
    Managed = {"wb-1"}
    ManagedKey <- TheManagedKey
    DeviceKey = dev_power
    ConsumerIds = {"wb-1", "hp"}
    ConsumerKey <- TheConsumerKey
    Hosts = {"h", "g"}
    Silent = {"g"}
    Names <- TheNames
    BaseIds <- TheBaseIds
    DeviceTypes = {"modbus-tcp", "bacnet-ip"}
    ConfigModules = {"ems"}
    HistoryKeys <- TheHistoryKeys
    HistorySearches <- TheHistorySearches
    InsertTimes = {"t", "u"}
    Texts <- TheTexts
    Files <- TheFiles
    Rows <- Imported
    ChunkSize = 1
    Nodes = {"r", "a", "b"}
    Parent <- TheParent
    KeysOf <- TheKeysOf
    FirstRows = 1
    Points <- ThePoints
    Fields = {"name", "value"}
    Orders <- TheOrders
    ValueOrders <- TheValueOrders
    Searches <- TheSearches
    Heights = {500, 1300}
    Tops = {0, 65, 1900}
    Boxes = {"b", "c"}
    CardIds <- TheCardIds
    ConnIds = {"a", "b"}
    OtherConn = "o"
    Width = 3
    BeatUpdates = 2
    Alarms = {"x", "y"}
    Severity <- TheSeverity
    Users = {"ann"}
    FrameKeys = {"k", "l"}
    PageModules = {"assets"}
    StarredPages = {"assets"}
INVARIANTS
    ChartIsTrue
    DashboardsApart
    
    
    FormsApart
    OverridesApart
    ImportsApart
    ListensToShown
    OneChart
    FavouritesKept

    
    
\* Each scene stops at its bounds.
CHECK_DEADLOCK FALSE
