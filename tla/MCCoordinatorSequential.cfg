SPECIFICATION Spec
CONSTANTS
    Clients = {c1}
    Ticks = {tick}
    Caps <- BothPanels
    SettingRequests <- NoRequests
    Messages <- BothPanels
    OutMessages <- MCOutMessages
    Resolutions <- MCResolutions
    Placeholder = "placeholder"
    PrimarySize = "primary"
    InitialSettings <- FromDefaults
    Events = {"reset", "enable", "disable", "ready", "bind"}
    None = None
    MaxInbox = 1
INVARIANTS
    AppliedModeWasBuilt
PROPERTIES
    RestartOnlyOnChange
    CapsAnswered
    BeliefConverges
