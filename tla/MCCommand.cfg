\* Library calls of one event and `done`.
CONSTANT MaxEvents = 1
SPECIFICATION FairSpec
INVARIANTS TypeOK ExitHonest StdoutClean
PROPERTY CommandEnds
