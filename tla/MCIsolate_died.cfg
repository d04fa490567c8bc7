CONSTANTS
    MaxEvents = 1
    PipeSize = 2
SPECIFICATION Spec
INVARIANT DeathIsResourceLimit
