------------------------------- MODULE Gate -------------------------------
(***************************************************************************)
(* `ostia-dev remote gate` (remote/k8s/gate.py): the checks before a pod is *)
(* asked for, the run (Rendezvous), the pair id that two captures give the  *)
(* records (remote/capture.py), and the judgement: records and evidence for *)
(* every workload, the comparison with a baseline, the topologies.          *)
(*                                                                          *)
(* A node's capture is [result, status, nics, ends]: nics says that its     *)
(* nics.json can be read, ends[k] is the link class it gives rail k of the  *)
(* profile, "none" when it does not list the rail exactly once.             *)
(***************************************************************************)
EXTENDS Rendezvous

CONSTANTS
    Setups,      \* the setup files and machines a gate may be started with
    Baselines,   \* the --baseline files
    NoBaseline,  \* the gate was started without one
    NodeCaptures,\* what the two pods' captures may be
    PairIds      \* the ids `topo` may compute for a pair

\* An id is not null; a setup's gate is a list of names.
ASSUME GateAssumption ==
    /\ Null \notin PairIds
    /\ \A s \in Setups : s.gate \in Seq(STRING)
    /\ \A f \in Facts : "mode" \in DOMAIN f

VARIABLES
    pc,        \* where the command is
    setup,
    baseline,
    records,   \* the merged results.jsonl in the repository
    documents, \* the merged evidence directory
    captures,  \* capture/status.json and the two node directories
    pair,      \* capture/pair.json exists
    stamped,   \* _stamp_pair's result; "none" when it was not called
    against,   \* per record, what comparing it with the baseline's found
    exit       \* the exit code, or -1

gateVars == <<pc, setup, baseline, records, documents, captures, pair, stamped, against, exit>>
vars == <<rankVars, gateVars>>

Unset == -1
Absent == [result |-> "absent", status |-> "none", nics |-> FALSE, ends |-> <<>>]
Rails == setup.machine.profile.rails

Init ==
    /\ setup \in Setups
    /\ baseline \in Baselines \cup {NoBaseline}
    /\ Ready(setup)
    /\ pc = "start"
    /\ records = <<>> /\ documents = {}
    /\ captures = [n \in 0..1 |-> Absent]
    /\ pair = FALSE /\ stamped = "none"
    /\ against = <<>> /\ exit = Unset

Exit(code) == pc' = "done" /\ exit' = code

Check ==
    /\ pc = "start"
    /\ IF Refusal(setup) # 0 THEN Exit(Refusal(setup)) ELSE pc' = "run" /\ exit' = exit
    /\ UNCHANGED <<rankVars, setup, baseline, records, documents, captures, pair, stamped, against>>

\* The pods work.
Pods ==
    /\ pc = "run"
    /\ (\E r \in Ranks : RankStep(r)) \/ Break \/ Meet
    /\ UNCHANGED gateVars

\* The verdict on the ranks' steps: infrastructure wins over a failed test.
RunCode ==
    LET kinds == {plan[failed[r]].kind : r \in {q \in Ranks : failed[q] # 0}}
    IN  IF kinds \cap {"preflight", "install"} # {} THEN 3
        ELSE IF kinds # {} THEN 1 ELSE 0

\* merge_bench_results: two ranks may not have written one file differently.
Conflict == pods = 2 /\ results[0] # <<>> /\ results[1] # <<>> /\ results[0] # results[1]

\* run(): a run that passed may still end 3 (infrastructure), 4 (teardown not
\* verified) or 130; only 0 is judged further.
RunReturns ==
    /\ pc = "run" /\ AllEnded
    /\ \E code \in (IF RunCode # 0 THEN {RunCode} ELSE IF Conflict THEN {3} ELSE {0}) \cup {3, 4, 130} :
         /\ RunCode # 0 => code # 4
         /\ IF code # 0 THEN Exit(code)
            ELSE pc' = (IF pods = 2 /\ Captures(setup) THEN "pair" ELSE "judge") /\ exit' = exit
    /\ records' = results[0] \o (IF pods = 2 THEN results[1] ELSE <<>>)
    /\ documents' = evidence[0] \cup (IF pods = 2 THEN evidence[1] ELSE {})
    /\ captures' \in IF pc' = "pair" THEN [0..1 -> NodeCaptures] ELSE {captures}
    /\ UNCHANGED <<rankVars, setup, baseline, pair, stamped, against>>

Usable == \A n \in 0..1 : captures[n].result = "accepted" /\ captures[n].status = "complete"

\* The rails can be written as a pair: both nodes list each one, in one class.
Pairable ==
    /\ \A n \in 0..1 : captures[n].nics
    /\ \A n \in 0..1, k \in 1..Rails : captures[n].ends[k] # "none"
    /\ \A n, m \in 0..1, j, k \in 1..Rails : captures[n].ends[j] = captures[m].ends[k]

\* _stamp_pair: without two usable captures the records keep topology null;
\* else pair.json is written, unless the pair cannot be described.
WritePair ==
    /\ pc = "pair"
    /\ IF Usable /\ Pairable
       THEN \/ pair' = TRUE /\ pc' = "stamp" /\ stamped' = stamped
            \/ pair' = FALSE /\ pc' = "judge" /\ stamped' = "no"
       ELSE pair' = FALSE /\ pc' = "judge" /\ stamped' = "no"
    /\ UNCHANGED <<rankVars, setup, baseline, records, documents, captures, against, exit>>

\* Mutant: pair.json stays when the records could not be stamped.
StampKeepsPair ==
    /\ pc = "stamp"
    /\ \/ \E id \in PairIds :
            /\ records' = [k \in DOMAIN records |-> [records[k] EXCEPT !.topology = id]]
            /\ stamped' = "yes" /\ pair' = pair
       \/ records' = records /\ stamped' = "no" /\ pair' = pair
    /\ pc' = "judge"
    /\ UNCHANGED <<rankVars, setup, baseline, documents, captures, against, exit>>

\* The pair id and the stamp, by a rename; without a results file, or after any
\* error, pair.json goes away.
Stamp ==
    /\ pc = "stamp"
    /\ \/ /\ setup.gate # <<>>
          /\ \E id \in PairIds :
               records' = [k \in DOMAIN records |-> [records[k] EXCEPT !.topology = id]]
          /\ stamped' = "yes" /\ pair' = pair
       \/ records' = records /\ stamped' = "no" /\ pair' = FALSE
    /\ pc' = "judge"
    /\ UNCHANGED <<rankVars, setup, baseline, documents, captures, against, exit>>

\* Mutant: a workload is judged by its records alone.
ComplainsOfRecords(w) == \A k \in DOMAIN records : records[k].bench # w

\* _missing_records and _evidence_problems.
Complains(w) ==
    \/ \A k \in DOMAIN records : records[k].bench # w
    \/ \A ev \in documents : ev.workload # w
    \/ \E ev \in documents : ev.workload = w /\ ~Shows(ev)

Judge ==
    /\ pc = "judge"
    /\ IF \E w \in Gated(setup) : Complains(w) THEN Exit(1)
       ELSE IF baseline = NoBaseline THEN Exit(0)
       ELSE pc' = "compare" /\ exit' = exit
    /\ UNCHANGED <<rankVars, setup, baseline, records, documents, captures, pair, stamped, against>>

\* compare.main, and then the topologies compare skips over.
JudgeComparison ==
    /\ pc = "compare"
    /\ against' \in [DOMAIN records -> Judgements]
    /\ Exit(IF Compare(records, documents, baseline, against') # 0 \/ Mismatch(records, baseline)
            THEN 1 ELSE 0)
    /\ UNCHANGED <<rankVars, setup, baseline, records, documents, captures, pair, stamped>>

\* Ctrl-C after the run: the command ends at once, whatever it was doing.
Interrupt ==
    /\ pc \in {"pair", "stamp", "judge", "compare"}
    /\ Exit(130)
    /\ UNCHANGED <<rankVars, setup, baseline, records, documents, captures, pair, stamped, against>>

Command == Check \/ RunReturns \/ WritePair \/ Stamp \/ Judge \/ JudgeComparison
Ended == pc = "done" /\ UNCHANGED vars
Next == Command \/ Pods \/ Interrupt \/ Ended

\* The pods' processes and the command are scheduled; every wait has a limit.
Spec ==
    /\ Init /\ [][Next]_vars
    /\ WF_vars(Command)
    /\ \A r \in 0..1 : WF_vars(pc = "run" /\ r \in Ranks /\ RankStep(r) /\ UNCHANGED gateVars)

-----------------------------------------------------------------------------
TypeOK ==
    /\ pc \in {"start", "run", "pair", "stamp", "judge", "compare", "done"}
    /\ exit \in {Unset, 0, 1, 2, 3, 4, 130}
    /\ (exit = Unset) = (pc # "done")
    /\ phase \in [0..1 -> Phases]
    /\ at \in [0..1 -> 1..(Len(plan) + 1)]
    /\ mine \in {"none", "waiting", "go", "closed"}
    /\ held \in BOOLEAN /\ pair \in BOOLEAN
    /\ stamped \in {"none", "yes", "no"}

\* Two programs that talk to each other run the same workload, although each
\* rank walks its own plan, the barrier's port is the same for all of them
\* and a go can be lost (_barrier, the supervisor's step loop).
RanksRunOneWorkload ==
    \A r \in Ranks : peer[r] # 0 => plan[peer[r]].w = Here(r).w

\* Exit 0 means that every gate workload was measured, between two ranks that
\* ran it together, and that its counters moved while it ran; and with a
\* baseline, that no case (bench and parameters) was recorded twice, that every
\* record is of a topology the baseline knows, and that a record of a case the
\* baseline has for its topology passed, unless another field made it incomparable.
PassIsMeasured ==
    (pc = "done" /\ exit = 0) =>
        /\ \A w \in Gated(setup) :
             /\ \E k \in DOMAIN records : records[k].bench = w /\ records[k].measured = w
             /\ \E ev \in documents : /\ ev.workload = w
                                      /\ \A c \in Counters(w, Mode(w, pods)) :
                                           Total(IF c = "ib" THEN ev.nic_bytes ELSE ev.nvlink_bytes) > 0
        /\ baseline # NoBaseline =>
             /\ \A j, k \in DOMAIN records : CaseKey(records[j]) = CaseKey(records[k]) => j = k
             /\ \A k \in DOMAIN records :
                  /\ \E c \in DOMAIN baseline.cases : baseline.cases[c] = records[k].topology
                  /\ (/\ CaseKey(records[k]) \in DOMAIN baseline.cases
                      /\ records[k].topology = baseline.cases[CaseKey(records[k])])
                         => against[k] \in {"pass", "incompatible"}

\* pair.json lies beside the captures exactly when the records carry its id,
\* however the stamp ended (_stamp_pair); and a record of a two-pod run has a
\* topology only then.  An interrupt in between is left out: it ends the
\* command with 130, and nothing is judged.
PairIffStamped ==
    (pc = "done" /\ exit # 130) =>
        /\ pair = (stamped = "yes")
        /\ pods = 2 => \A k \in DOMAIN records : (records[k].topology # Null) = pair

\* A gate that starts its run can show its transport: the counters that
\* evidence.check will read for a workload are the ones the plan probes, RDMA
\* ones only where the profile gives the pod RDMA devices, and the machine
\* declares the capability.  Four tables in three files have to agree on it.
EvidenceIsReachable ==
    (pc = "run") => \A w \in Gated(setup) :
        LET needed == Counters(w, Mode(w, pods))
        IN  /\ needed \subseteq Probes(setup)
            /\ "ib" \in needed => setup.machine.profile.kind = "rdma"
            /\ "ib" \in needed => "gpudirect-rdma" \in setup.machine.capabilities
            /\ "nvlink" \in needed => "nvlink-p2p" \in setup.machine.capabilities

\* The gate ends, whichever rank fails, hangs at the barrier or is alone
\* there, and whichever connection breaks.
GateEnds == <>(pc = "done")
=============================================================================
