SPECIFICATION Spec
CONSTANTS
    MaxPointer = 2
    MaxWire = 1
INVARIANTS
    NoButtonUnderTouch
    NoButtonAfterGesture
    NoPhantomPointer
PROPERTIES
    UpReleasesButton
    RouteFollowsFingers
