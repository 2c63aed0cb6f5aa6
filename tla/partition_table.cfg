SPECIFICATION Spec
CONSTANTS
    Pieces <- AllPieces
    Names <- AllNames
    SwapList <- ListOfFive
    PTN_XBL <- Xbl
    BAK_PTN_NAME_EXT <- Bak
    is_ufs = TRUE
    MaxEntries = 4
    MaxCalls = 2
    LunPaths = {sda, sdb, sdc}
    NoLun = none
    MAX_LUNS = 5
INVARIANTS SwapsTheTwins TellsIfNothingSwapped XblStaysPut ListsEachLun
CHECK_DEADLOCK FALSE
