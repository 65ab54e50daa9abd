SPECIFICATION Spec
CONSTANTS
    MaxSearches = 2
    MaxTracks = 2
VIEW Undrawn
INVARIANTS
    FocusIsVisible
    CursorInRange
    SessionIsLive
CHECK_DEADLOCK FALSE
