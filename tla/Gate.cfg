SPECIFICATION Spec
CONSTANTS
    Topologies = {"topo1"}
    Snapshots <- MCSnapshots
    Facts <- MCFacts
    MaxFaults = 2
    Setups <- MCSetups
    Baselines <- MCBaselines
    NoBaseline = NoBaseline
    NodeCaptures <- MCCaptures
    PairIds = {"pair1"}
INVARIANTS RanksRunOneWorkload PassIsMeasured PairIffStamped EvidenceIsReachable
PROPERTY GateEnds
