CONSTANTS
    RawCap = 1
    CoarseCap = 2
    Resolution = 2
    MaxStarts = 2
    MaxSamples = 6
    MaxBoots = 2
    Torn = Torn
    None = None
SPECIFICATION FileSpec
INVARIANT PersistedIsStored
