------------------------------ MODULE MCGate ------------------------------
(* Gates of one and of two pods: two workloads on two pods with a capture,  *)
(* a workload named twice, NVLink workloads on one pod, and setups that are *)
(* refused for each reason.                                                  *)
EXTENDS Gate

Machine(pd, gpus, caps, kind, rails) ==
    [backend |-> "k8s", mapped |-> TRUE, pods |-> pd, gpus |-> gpus, capabilities |-> caps,
     profile |-> [gpus |-> gpus, kind |-> kind, rails |-> rails]]
Setup(gate, also, m) == [valid |-> TRUE, gate |-> gate, also_run |-> also, machine |-> m]

Pair2 == Machine(2, 1, {"gpudirect-rdma", "multi-rail", "tcp"}, "rdma", 2)
Node1 == Machine(1, 3, {"nvlink-p2p"}, "gpu", 0)

MCSetups ==
    {Setup(<<"rdma_put", "dual_link">>, {"topo_capture"}, Pair2),
     Setup(<<"tcp_put", "tcp_put">>, {}, Pair2),
     Setup(<<"p2p_copy">>, {"topo_capture"}, Pair2),
     Setup(<<"dual_link", "batching">>, {}, Node1),
     Setup(<<"dual_link">>, {}, [Pair2 EXCEPT !.profile.kind = "gpu"]),
     Setup(<<"dual_link">>, {}, [Pair2 EXCEPT !.profile.rails = 0]),
     Setup(<<"rdma_put">>, {}, [Pair2 EXCEPT !.mapped = FALSE]),
     Setup(<<"topo_capture">>, {}, Node1),
     [Setup(<<>>, {}, Node1) EXCEPT !.valid = FALSE]}

\* The second port has counted nothing yet, and is not listed.
Quiet == [nic |-> [d \in {"n0"} |-> 0], nvlink |-> [d \in {"g0", "g1", "g2"} |-> 0]]
Moved == [nic |-> [d \in {"n0", "n1"} |-> 2], nvlink |-> [d \in {"g0", "g1", "g2"} |-> 2]]
MCSnapshots == {Quiet, Moved}
MCFacts == {[mode |-> "", lanes |-> {"ib", "tcp"}, cuda |-> TRUE, peer_access |-> TRUE, bytes |-> 4, src |-> "g0"]}

Cases(ws, pd) == UNION {{<<w, Prints(w, pd)[k]>> : k \in DOMAIN Prints(w, pd)} : w \in ws}
MCBaselines ==
    {[readable |-> FALSE, cases |-> [w \in {} |-> Null]],
     [readable |-> TRUE, cases |-> [c \in Cases({"rdma_put", "dual_link", "tcp_put"}, 2) |-> "pair1"]],
     [readable |-> TRUE, cases |-> [c \in Cases({"dual_link", "batching"}, 1) |-> "topo1"]]}
NC(result, status, nics, ends) == [result |-> result, status |-> status, nics |-> nics, ends |-> ends]
MCCaptures ==
    {NC("accepted", "complete", TRUE, <<"ib", "ib">>), NC("accepted", "complete", TRUE, <<"ib", "roce">>),
     NC("accepted", "complete", TRUE, <<"ib", "none">>), NC("accepted", "complete", FALSE, <<>>),
     NC("accepted", "partial", TRUE, <<"ib", "ib">>), NC("rejected", "none", FALSE, <<>>), Absent}
=============================================================================
