SPECIFICATION Spec
CONSTANTS
    Hosts = {h1}
    MaxTabs = 2
    MaxConnects = 2
    MaxInputs = 2
    NoTab = NoTab
CHECK_DEADLOCK FALSE
INVARIANTS
    TabsAreDistinct
    InputOnceInOrder
PROPERTIES
    WritesStayInTab
    ConnectingEnds
