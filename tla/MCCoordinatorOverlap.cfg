SPECIFICATION Spec
CONSTANTS
    Clients = {c1, c2}
    Ticks = {}
    Caps <- BothPanels
    SettingRequests <- OneRequest
    Messages <- BothPanelsOneRequest
    OutMessages <- MCOutMessages
    Resolutions <- MCResolutions
    Placeholder = "placeholder"
    PrimarySize = "primary"
    InitialSettings <- FromDefaults
    Events = {"save"}
    None = None
    MaxInbox = 1
INVARIANTS
    SingleFlight
    PortDownOnlyUnderGate
    AppliedResolutionIsDrivers
SYMMETRY ClientSymmetry
