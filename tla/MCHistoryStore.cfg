CONSTANTS
    RawCap = 3
    CoarseCap = 2
    Resolution = 2
    MaxRun = 2
    MaxSeq = 4
    MaxMs = 5
SPECIFICATION Spec
INVARIANTS
    PagesAreExact
    BucketsSummarise
PROPERTY RingsKeepTheWindow
