\* Two chunks, two tracks, four samples at five times, of which two are stored.
SPECIFICATION Spec
CONSTANTS
    MaxStored = 2
    MaxChunks = 2
    MaxTracks = 2
    MaxSamples = 4
    MaxTime = 4
    None = None
CHECK_DEADLOCK FALSE
INVARIANTS
    FactsFollowSamples
    CancelStopsTheProbe
