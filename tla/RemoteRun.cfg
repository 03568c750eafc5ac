SPECIFICATION FairSpec
CONSTANTS
    Pods = 2
    Keep = TRUE
    Signals = {"INT", "TERM"}
    MaxSignals = 2
    CallsFail = TRUE
INVARIANTS ExitZeroIsEarned ExitOneIsATestResult VerifiedMeansGone NothingTooEarly
PROPERTIES PodsKeepTheContract CliEnds RunEndsByItself
