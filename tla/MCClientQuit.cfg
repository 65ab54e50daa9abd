SPECIFICATION Spec
CONSTANTS
    MaxSearches = 1
    MaxTracks = 1
PROPERTY QuitEnds
CHECK_DEADLOCK FALSE
