SPECIFICATION Spec
CONSTANTS
    Clients = {c1}
    Ticks = {}
    Caps <- OnePanel
    SettingRequests <- AllRequests
    Messages <- OnePanelAllRequests
    OutMessages <- MCOutMessages
    Resolutions <- MCResolutions
    Placeholder = "placeholder"
    PrimarySize = "primary"
    InitialSettings <- FromDefaults
    Events = {"close", "native", "hang", "late", "save", "quit", "slowQuit"}
    None = None
    MaxInbox = 2
PROPERTIES
    ConfigIsTruthful
    HandlersFinish
    QuietQuitLeavesNoDisplay
CHECK_DEADLOCK FALSE
