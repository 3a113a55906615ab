SPECIFICATION WindowSpec
CONSTANTS
    Sessions = {a, b}
    Paths = {root, dir}
    Root = root
    None = None
    MaxRequests = 3
    MaxVersion = 2
    MaxChanges = 2
    MaxPages = 2
    Tasks = {t1}
    MaxEvents = 2
    PaneTabs = {p1, p2}
    NoPane = NoPane
    MaxBufferedLines = 3
    MaxOutputs = 2
    MaxOpens = 2
    Dirs = {top, sub}
    Top = top
    MaxMounts = 2
    MaxAsked = 3
    Unknown = {u1, u2}
    Changed = {c1}
    NoRequest = NoRequest
    Files = {f1, f2}
    NoFile = NoFile
    MaxEdits = 2
    TreeHosts = {h1, h2}
    ConfigHosts = {h2}
    TreeGroups = {g1}
    All = all
    Favorites = favorites
    NoHost = NoHost
    Entries = {e1, e2, e3}
    Commands = {k1, k2, k3}
    Topics = {s1, s2}
    MaxRecent = 2
    MaxToasts = 3
SYMMETRY Symmetry
CHECK_DEADLOCK FALSE
INVARIANTS
    PagesOfSession
    PagesInOrder
    LoadingHasRequest
    NoRowIsLeftRunning
    
    OpenDirectoriesAreLoaded
    OnlyShownKeysAreTrusted
    SavedMeansHandedOver
    TreeIsConsistent
    LayoutIsConsistent
    OverlaysFit
PROPERTIES
    ListingsMoveForward
    HostsAreKept
