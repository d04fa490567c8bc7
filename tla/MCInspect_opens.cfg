\* A file that parses, or whose result is given, and does not open.
CONSTANTS
    MaxPageObjects = 3
    OverlayBudget = 5
    Opaque = 50
    CoverNum = 2
    CoverDen = 3
    MaxRows = 2
    MaxCommands = 1
    MaxPages = 2
    Failures = {"expected"}
SPECIFICATION MCSpec
INVARIANT FileFailureReported
