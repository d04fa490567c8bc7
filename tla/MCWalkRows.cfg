\* Two pages of up to two rows between header and footer, the tolerance one
\* unit of the last decimal place as in the code.
CONSTANTS
    Banks = {"fbn", "zenith", "palmpay"}
    Words = {"x", "out", "CREDIT", "Opening", "Balance", "TOTALS", "Page", "Trans", "DATE", "DESCRIPTION", "Dear", "Name", "Total", "Stamp", "Send"}
    MaxPages = 2
    MaxBody = 2
    Tolerance = 1
    Absent = Absent
SPECIFICATION MCSpec
INVARIANTS TypeOK EachRowOnce TailsOwned BookedAsPrinted LossShows RedactedAlike
