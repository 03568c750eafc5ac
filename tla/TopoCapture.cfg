SPECIFICATION Spec
CONSTANTS
    kDataFiles <- MCDataFiles
    Always <- MCAlways
    MaxCaptures = 2
INVARIANTS NothingUnchecked EndsAsItSays ManifestComesLast
PROPERTIES ImplementsDir
CHECK_DEADLOCK FALSE
