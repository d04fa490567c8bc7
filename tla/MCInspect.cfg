\* A glyph is lost at two thirds; three objects a page, five pairs a file.
CONSTANTS
    MaxPageObjects = 3
    OverlayBudget = 5
    Opaque = 50
    CoverNum = 2
    CoverDen = 3
    MaxRows = 4
    MaxCommands = 4
    MaxPages = 3
    Failures = {"expected", "other"}
SPECIFICATION MCSpec
INVARIANTS TypeOK HiddenReported SilenceMeansCompared DatesHonest CleanMeansChecked
