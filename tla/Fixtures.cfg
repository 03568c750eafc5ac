SPECIFICATION Spec
CONSTANTS
    Data <- MCData
    Always <- MCAlways
    MaxCaptures = 3
    Importers <- MCImporters
    Names <- MCNames
    NameOf <- MCNameOf
    NameGiven <- MCNameGiven
    Sorted <- MCSorted
    Leaky <- MCLeaky
    Starts <- MCStarts
INVARIANTS
    ImportedIsWhole
    NothingHalfImported
    CaptureEndsClean
PROPERTIES
    FoldersAreTheirMakers
