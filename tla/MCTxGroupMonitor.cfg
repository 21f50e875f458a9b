CONSTANTS
    MaxHeight <- MCMaxHeight
    VubIncrement <- MCVubIncrement
    MaxTracks <- MCMaxTracks
SPECIFICATION Spec
INVARIANT SafeToResubmit
CHECK_DEADLOCK FALSE
