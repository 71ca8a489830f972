SPECIFICATION Spec
CONSTANTS
    Clients = {c1, c2}
    Ticks = {}
    Caps <- OnePanel
    SettingRequests <- OneRequest
    Messages <- OnePanelOneRequest
    OutMessages <- MCOutMessages
    Resolutions <- MCResolutions
    Placeholder = "placeholder"
    PrimarySize = "primary"
    InitialSettings <- FromDefaults
    Events = {}
    None = None
    MaxInbox = 1
PROPERTIES
    ReapplyTakesEffect
