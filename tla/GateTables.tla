---------------------------- MODULE GateTables ----------------------------
(***************************************************************************)
(* What a bench gate decides from tables: which workload a machine supports *)
(* (bench/capabilities.py), which machine and profile it may run on and the *)
(* plan of its pods (remote/k8s/gate.py), what the transport evidence of a  *)
(* workload must show (bench/evidence.py), and what a comparison with a     *)
(* baseline makes of the records (bench/compare.py).                        *)
(*                                                                          *)
(* A setup is [valid, gate, also_run, machine]: the file as loaded, with    *)
(* the machine that --fallback chose.  Its machine holds the user-config    *)
(* mapping and the profile it resolves to.  Texts are left out.             *)
(***************************************************************************)
EXTENDS Integers, Sequences, FiniteSetsExt

Needs(caps, gpus, nodes) == [caps |-> caps, gpus |-> gpus, nodes |-> nodes]
NvlinkPair == <<Needs({"nvlink-p2p"}, 2, 1)>>
RdmaPair == <<Needs({"gpudirect-rdma"}, 1, 2)>>

\* What each workload needs of one machine, the form with most nodes first.
WORKLOADS ==
    [p2p_copy         |-> NvlinkPair,
     pipelining       |-> NvlinkPair,
     batching         |-> NvlinkPair,
     dual_link        |-> <<Needs({"gpudirect-rdma", "multi-rail"}, 1, 2), Needs({"nvlink-p2p"}, 3, 1)>>,
     rdma_put         |-> RdmaPair,
     gdr_stream       |-> RdmaPair,
     tcp_put          |-> <<Needs({"tcp"}, 0, 2)>>,
     onpath_placement |-> NvlinkPair,
     topo_capture     |-> <<Needs({}, 0, 1)>>]

NVLINK_WORKLOADS == {"p2p_copy", "pipelining", "batching"}
RDMA_WORKLOADS == {"rdma_put", "gdr_stream"}
PROGRAMS == NVLINK_WORKLOADS \cup RDMA_WORKLOADS \cup {"dual_link", "tcp_put"}

\* load_setup: the checks on what the file names; valid is the rest of them.
Loads(setup) ==
    /\ setup.valid
    /\ \A k \in DOMAIN setup.gate : setup.gate[k] \in DOMAIN WORKLOADS
    /\ setup.also_run \subseteq DOMAIN WORKLOADS
    /\ setup.machine.pods \in {1, 2}

\* The form of a workload that a machine of this many nodes is held to.
Form(w, nodes) ==
    LET forms == WORKLOADS[w]
        fits == {k \in DOMAIN forms : forms[k].nodes <= nodes}
    IN  forms[IF fits = {} THEN Len(forms) ELSE Min(fits)]

\* _why_not finds nothing missing.
Supported(w, machine) ==
    LET needs == Form(w, machine.pods)
    IN  /\ needs.caps \subseteq machine.capabilities
        /\ machine.pods >= needs.nodes
        /\ machine.gpus >= needs.gpus

Gated(setup) == {setup.gate[k] : k \in DOMAIN setup.gate}

\* Mutant: dual_link is taken for an NVLink workload on two pods too.
RdmaByName(w, pods) == w \in RDMA_WORKLOADS

\* _rdma: the workload moves its bytes over InfiniBand on this many pods.
Rdma(w, pods) == w \in RDMA_WORKLOADS \/ (w = "dual_link" /\ pods = 2)

\* check_machine: the machine, its mapping and its profile can run the gate.
MachineFits(setup) ==
    LET m == setup.machine
    IN  /\ m.backend = "k8s"
        /\ m.mapped
        /\ m.profile.gpus >= m.gpus
        /\ (\E w \in Gated(setup) : Rdma(w, m.pods)) => m.profile.kind = "rdma"

\* plan_gate refuses no workload.
Plannable(setup) ==
    \A w \in Gated(setup) :
        /\ w \in PROGRAMS
        /\ (w = "dual_link" /\ setup.machine.pods = 2) => setup.machine.profile.rails > 0

\* The exit code of a gate that is refused before a pod exists, else 0.
Refusal(setup) ==
    IF ~Loads(setup) THEN 2
    ELSE IF \E w \in Gated(setup) : ~Supported(w, setup.machine) THEN 1
    ELSE IF ~MachineFits(setup) \/ ~Plannable(setup) THEN 2
    ELSE 0

\* The counters plan_gate has probed before the first workload.
Probes(setup) ==
    LET pods == setup.machine.pods
    IN  {c \in {"ib", "nvlink"} : \E w \in Gated(setup) :
            CASE c = "ib"     -> Rdma(w, pods)
              [] c = "nvlink" -> w \in NVLINK_WORKLOADS \/ (w = "dual_link" /\ pods = 1)}

\* A step of the plan; w is the workload it measures.
Step(name, kind, w) == [name |-> name, kind |-> kind, w |-> w]
Captures(setup) == "topo_capture" \in setup.also_run

GpuPreflight == [k \in 1..3 |-> Step(<<"gpu-preflight", "compute-capability", "libcuda">>[k],
                                     "preflight", "none")]

\* The plan of each pod: gpu_preflight, install, configure, build, the probe
\* of the counters, the workloads in order, and the capture.
PlanGate(setup) ==
    GpuPreflight
    \o <<Step("install", "install", "none"), Step("configure", "build", "none"), Step("build", "build", "none")>>
    \o (IF Probes(setup) = {} THEN <<>> ELSE <<Step("evidence-probe", "command", "none")>>)
    \o [k \in DOMAIN setup.gate |-> Step("bench", "command", setup.gate[k])]
    \o (IF Captures(setup) THEN <<Step("capture", "report", "none")>> ELSE <<>>)

-----------------------------------------------------------------------------
(* Transport evidence.  A snapshot gives the bytes each port and each GPU's  *)
(* NVLinks have carried so far; a document is what build() writes.           *)

Mode(w, pods) == IF Rdma(w, pods) THEN "rails" ELSE "nvlink"

\* _delta: what the counters gained.  One that was reset is left out, and one
\* that the first snapshot does not have began at zero.
Delta(before, after) ==
    LET gain(d) == after[d] - (IF d \in DOMAIN before THEN before[d] ELSE 0)
    IN  [d \in {e \in DOMAIN after : gain(e) > 0} |-> gain(d)]

Total(bytes) == MapThenSumSet(LAMBDA d : bytes[d], DOMAIN bytes)
\* The devices that carried at least one byte and a quarter of the moved ones.
Carriers(bytes, moved) == {d \in DOMAIN bytes : bytes[d] > 0 /\ 4 * bytes[d] >= moved}

\* build(): the program says its mode, lanes, memory type and moved bytes.
Build(w, before, after, facts) ==
    [workload |-> w, program |-> facts,
     nic_bytes |-> Delta(before.nic, after.nic), nvlink_bytes |-> Delta(before.nvlink, after.nvlink)]

\* check() finds no problem: the counters show the transport under test.
Shows(ev) ==
    LET w == ev.workload
        p == ev.program
        Enough(bytes) == /\ Total(bytes) > 0
                         /\ 2 * Total(bytes) >= p.bytes
    IN  IF w \in RDMA_WORKLOADS \/ (w = "dual_link" /\ p.mode = "rails")
        THEN /\ "ib" \in p.lanes
             /\ p.cuda
             /\ IF w = "dual_link" THEN Cardinality(Carriers(ev.nic_bytes, p.bytes)) >= 2
                                   ELSE Enough(ev.nic_bytes)
        ELSE IF w \in NVLINK_WORKLOADS \/ w = "dual_link"
        THEN /\ p.peer_access
             /\ IF w = "dual_link" THEN Cardinality(Carriers(ev.nvlink_bytes, p.bytes) \ {p.src}) >= 2
                                   ELSE Enough(ev.nvlink_bytes)
        ELSE w = "tcp_put" /\ "tcp" \in p.lanes

\* The counters that check() reads for a workload.
Counters(w, mode) ==
    IF w \in RDMA_WORKLOADS \/ (w = "dual_link" /\ mode = "rails") THEN {"ib"}
    ELSE IF w \in NVLINK_WORKLOADS \/ w = "dual_link" THEN {"nvlink"} ELSE {}

-----------------------------------------------------------------------------
(* Comparison.  A record is [bench, params, topology, measured]; bench and   *)
(* params together name its case.  A baseline is [readable, cases], its      *)
(* cases a function from cases to topologies.                                *)

Null == "null"

\* The parameters of the records that a program prints, one record for each.
\* batching prints one for each message size; two stand for them.
Prints(w, pods) ==
    CASE w = "dual_link" /\ pods = 2 -> <<"rails_a", "rails_b", "rails_both">>
      [] w = "dual_link" /\ pods # 2 -> <<"nvlink_a", "nvlink_b", "nvlink_both">>
      [] w = "pipelining" -> <<"pack", "transfer", "sync", "pipelined">>
      [] w = "batching" -> <<"smallest", "largest">>
      [] OTHER -> <<"only">>

\* case_key
CaseKey(r) == <<r.bench, r.params>>

\* What the comparison with the baseline's record of the same case may find: that
\* a compatibility field besides the topology differs, or what compare_case makes
\* of the two sample sets; too few are inconclusive.
Judgements == {"incompatible", "pass", "regression", "inconclusive"}

\* compare_runs on record k, given all the candidate's records and documents.
Outcome(k, records, documents, baseline, against) ==
    LET r == records[k]
    IN  IF \E j \in DOMAIN records : j # k /\ CaseKey(records[j]) = CaseKey(r) THEN "invalid"
        ELSE IF \A ev \in documents : ev.workload = r.bench => ~Shows(ev) THEN "invalid"
        ELSE IF CaseKey(r) \notin DOMAIN baseline.cases THEN "skipped"
        ELSE IF against[k] = "incompatible" \/ baseline.cases[CaseKey(r)] # r.topology THEN "skipped"
        ELSE against[k]

\* compare.main --require-pass: 0 when nothing is worse, invalid or undecided.
Compare(records, documents, baseline, against) ==
    IF /\ baseline.readable
       /\ records # <<>>
       /\ \A k \in DOMAIN records :
            Outcome(k, records, documents, baseline, against) \in {"pass", "skipped"}
    THEN 0 ELSE 1

\* _topology_mismatch: a record's topology is none of the baseline's.
Mismatch(records, baseline) ==
    /\ baseline.readable
    /\ \E k \in DOMAIN records :
         records[k].topology \notin {baseline.cases[c] : c \in DOMAIN baseline.cases}
=============================================================================
