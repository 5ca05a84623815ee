SPECIFICATION CutSpec
CONSTANTS
    Top = 4
    Ranges <- MCRanges
    Bases <- MCBases
INVARIANTS SubExact AlignCovers
CHECK_DEADLOCK FALSE
