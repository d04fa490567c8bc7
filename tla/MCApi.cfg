\* Two calls of two pages on two threads, interleaved at every event.
CONSTANTS
    t1 = t1
    t2 = t2
    NoCallback = NoCallback
    Threads = {t1, t2}
    MaxCalls = 2
    MaxPages = 2
    Requests <- EachRequest
SPECIFICATION Spec
SYMMETRY Symmetry
INVARIANTS TypeOK StagesInOrder NothingUnchecked ErrorsNameTheBank OwnEvents
