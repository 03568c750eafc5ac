SPECIFICATION CopySpec
CONSTANTS
    Pods = 2
    Plan <- MCPlan
    GpuProfile = TRUE
    JunitFiles <- MCFiles
    Keep = TRUE
INVARIANTS PassIsEarned FailIsATestResult
CHECK_DEADLOCK FALSE
