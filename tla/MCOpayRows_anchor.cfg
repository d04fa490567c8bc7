\* Page 1 may be read without the word that anchors the column header.
CONSTANTS
    Tolerance = 1
    Absent = Absent
    MaxBlocks = 1
    MaxWallet = 2
    MaxSheetRows = 1
    Anchored = {TRUE, FALSE}
SPECIFICATION MCSpec
INVARIANT FirstSectionOnly
