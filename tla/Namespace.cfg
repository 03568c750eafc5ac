SPECIFICATION Spec
CONSTANTS
    Profiles <- MCProfiles
    Suites <- MCSuites
    Provider = "gke"
    Terminals <- MCTerminals
    Owner <- MCOwner
    Commands <- MCCommands
    Nodes <- MCNodes
    Saved <- MCSaved
    Foreign <- MCForeign
    Leftovers <- MCLeftovers
    MaxIncarnations = 2
INVARIANTS GuardedJobs InitLeavesAll VerifyIsComplete JobsAsAllowed
PROPERTIES OnlyItsOwn CommandsEnd
