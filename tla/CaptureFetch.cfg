SPECIFICATION FairSpec
CONSTANTS
    Data = {"hwloc.xml", "nvml.json"}
    Always = {"hwloc.xml"}
    Same = {"hwloc.xml"}
    MaxCaptures = 2
INVARIANTS DestIsOneCapture
PROPERTIES FetchEnds
CHECK_DEADLOCK FALSE
