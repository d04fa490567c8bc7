\* Ledgers of up to three moves of up to two units, a tolerance of one unit.
CONSTANTS
    Tolerance = 1
    Absent = Absent
    MaxRows = 3
    MaxAmount = 2
SPECIFICATION MCSpec
INVARIANTS TypeOK ReportHonest FirstBreakNamed DistortionCaught
