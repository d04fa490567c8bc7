\* Two pages of up to two movements, one page more of savings, five sheet rows.
CONSTANTS
    Tolerance = 1
    Absent = Absent
    MaxBlocks = 2
    MaxWallet = 2
    MaxSheetRows = 5
    Anchored = {TRUE}
SPECIFICATION MCSpec
INVARIANTS TypeOK FirstSectionOnly BookedAsPrinted LossShows RedactedAlike
