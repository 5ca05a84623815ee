SPECIFICATION Spec
CONSTANTS
    Flash <- MCFlash
    Ram <- MCRam
    SectorSize = 4
    Available = {"FLASH_ERASE_ALL_UNSECURE", "FLASH_ERASE_ALL"}
    InfoTags = 2
    Top = 20
    Invocations <- MCInvocations
INVARIANTS
    TypeOK
    NoOverprogram
    NothingElse
    ReportedIsDone
CHECK_DEADLOCK FALSE
