SPECIFICATION Spec
CONSTANTS
    Clients = {c1}
    Ticks = {tick}
    Caps <- OnePanel
    SettingRequests <- NoRequests
    Messages <- OnePanel
    OutMessages <- MCOutMessages
    Resolutions <- MCResolutions
    Placeholder = "placeholder"
    PrimarySize = "primary"
    InitialSettings <- FromDefaults
    Events = {"reset"}
    None = None
    MaxInbox = 1
PROPERTIES
    DisplayOnlyWhileUsed
