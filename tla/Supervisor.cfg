SPECIFICATION FairSpec
CONSTANTS
    Plan <- MCPlan
    Codes <- MCCodes
INVARIANTS SignalledIsNotScored ExitAgreesWithVerdict
PROPERTIES WatchdogStopsALiveStep RunEndsIfStepsDo TermEnds
