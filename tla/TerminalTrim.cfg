SPECIFICATION TerminalPaneSpec
CONSTANTS
    PaneTabs = {p1}
    NoPane = NoPane
    MaxBufferedLines = 3
    MaxOutputs = 4
    MaxOpens = 1
CHECK_DEADLOCK FALSE
INVARIANT OutputReachesScreen
