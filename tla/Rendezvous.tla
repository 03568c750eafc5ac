---------------------------- MODULE Rendezvous ----------------------------
(***************************************************************************)
(* The ranks of a gate run, one per pod, each working through its own copy  *)
(* of one plan: the supervisor's step loop, and inside a bench step the     *)
(* driver (bench/ostia_bench.py).  With two pods the driver of rank 0       *)
(* listens and that of rank 1 connects, on one port that serves every       *)
(* workload; behind this barrier the two programs wait a minute for each    *)
(* other.  Rank 1 measures and writes, rank 0 only answers.                 *)
(*                                                                          *)
(* Waits are abstract: one that ends after n seconds may end at any moment. *)
(* Connections may break; MaxFaults bounds how often.                       *)
(***************************************************************************)
EXTENDS GateTables

CONSTANTS
    Topologies,   \* the ids ostia-topo-capture --print-id may print
    Snapshots,    \* what the traffic counters may show, and Facts
    Facts,        \* what a program may print about its transport
    MaxFaults     \* how many connections of the barrier break

ASSUME FaultsAssumption == MaxFaults \in Nat

\* A snapshot counts the bytes of the ports and GPUs that a node has.
ASSUME SnapshotsAssumption ==
    \A s \in Snapshots : \A c \in {s.nic, s.nvlink} :
        IsFiniteSet(DOMAIN c) /\ \A d \in DOMAIN c : c[d] \in Nat

VARIABLES
    pods,       \* 1 or 2
    plan,       \* the steps, the same in every pod
    at,         \* per rank: the step it is at
    phase,      \* per rank: where in the step
    failed,     \* per rank: the step that stopped its plan, or 0
    peer,       \* per rank: the step of the program its program talks to, or 0
    backlog,    \* connections rank 0's server has not accepted, TRUE if alive
    held,       \* the connection rank 0 has accepted is alive
    mine,       \* rank 1's connection: none, waiting, go (received) or closed
    faults,     \* breaks so far
    results,    \* per rank: bench/results/<run id>/results.jsonl
    evidence    \* per rank: the documents under bench/results/<run id>/evidence

barrier == <<backlog, held, mine>>
rankVars == <<pods, plan, at, phase, failed, peer, barrier, faults, results, evidence>>

Ranks == {r \in 0..1 : r < pods}
Here(r) == plan[at[r]]
Phases == {"next", "resolve", "barrier", "listen", "greet", "connect", "wait",
           "program", "evidence", "records", "ended"}

Ready(setup) ==
    /\ pods = setup.machine.pods
    /\ plan = PlanGate(setup)
    /\ at = [r \in 0..1 |-> 1]
    /\ phase = [r \in 0..1 |-> "next"]
    /\ failed = [r \in 0..1 |-> 0]
    /\ peer = [r \in 0..1 |-> 0]
    /\ backlog = <<>> /\ held = FALSE /\ mine = "none"
    /\ faults = 0
    /\ results = [r \in 0..1 |-> <<>>]
    /\ evidence = [r \in 0..1 |-> {}]

-----------------------------------------------------------------------------
(* The step loop. *)

To(r, p) == phase' = [phase EXCEPT ![r] = p]
Passes(r) == at' = [at EXCEPT ![r] = @ + 1] /\ To(r, "next") /\ failed' = failed

\* Mutant: the plan goes on after a failed command, as it does after a report.
FailsAndGoesOn(r) ==
    IF Here(r).kind \in {"report", "command"} THEN Passes(r)
    ELSE failed' = [failed EXCEPT ![r] = at[r]] /\ To(r, "ended") /\ at' = at

\* A step that fails ends the plan, unless it is a report.
Fails(r) ==
    IF Here(r).kind = "report" THEN Passes(r)
    ELSE failed' = [failed EXCEPT ![r] = at[r]] /\ To(r, "ended") /\ at' = at

\* A step of the plan that is not a workload.
OtherStep(r) ==
    /\ phase[r] = "next" /\ at[r] <= Len(plan) /\ Here(r).w = "none"
    /\ Passes(r) \/ Fails(r)
    /\ UNCHANGED <<pods, plan, peer, barrier, faults, results, evidence>>

PlanEnds(r) ==
    /\ phase[r] = "next" /\ at[r] > Len(plan)
    /\ To(r, "ended")
    /\ UNCHANGED <<pods, plan, at, failed, peer, barrier, faults, results, evidence>>

\* The driver starts: it may refuse (no GPU), else it looks for its peer.
BenchStep(r) ==
    /\ phase[r] = "next" /\ at[r] <= Len(plan) /\ Here(r).w # "none"
    /\ \/ Fails(r)
       \/ /\ To(r, IF pods = 1 THEN "program" ELSE IF r = 0 THEN "barrier" ELSE "resolve")
          /\ UNCHANGED <<at, failed>>
    /\ UNCHANGED <<pods, plan, peer, barrier, faults, results, evidence>>

-----------------------------------------------------------------------------
(* The barrier. *)

\* _remote_args on rank 1: the peer's name resolves, or not in time.
Resolve ==
    /\ phase[1] = "resolve"
    /\ (To(1, "connect") /\ UNCHANGED <<at, failed>>) \/ Fails(1)
    /\ UNCHANGED <<pods, plan, peer, barrier, faults, results, evidence>>

Listening == phase[0] \in {"listen", "greet"}

\* Rank 0's server closes: what it did not accept is reset.
ServerCloses == backlog' = <<>> /\ mine' = IF TRUE \in {backlog[k] : k \in DOMAIN backlog}
                                           THEN "closed" ELSE mine

Listen ==
    /\ phase[0] = "barrier"
    /\ (To(0, "listen") /\ UNCHANGED <<at, failed>>) \/ Fails(0)
    /\ UNCHANGED <<pods, plan, peer, barrier, faults, results, evidence>>

Accept ==
    /\ phase[0] = "listen" /\ backlog # <<>>
    /\ held' = Head(backlog) /\ backlog' = Tail(backlog)
    /\ To(0, "greet")
    /\ UNCHANGED <<pods, plan, at, failed, peer, mine, faults, results, evidence>>

\* recv, sendall, close: rank 0 goes on, also when nobody is at the other end
\* any more and the kernel took the bytes.
Greet ==
    /\ phase[0] = "greet"
    /\ held' = FALSE
    /\ IF held THEN mine' = "go" /\ backlog' = <<>> ELSE ServerCloses
    /\ \/ To(0, "program") /\ UNCHANGED <<at, failed>>
       \/ ~held /\ Fails(0)
    /\ UNCHANGED <<pods, plan, peer, faults, results, evidence>>

\* Nobody came within BARRIER_WAIT.
AcceptTimesOut ==
    /\ phase[0] = "listen"
    /\ ServerCloses
    /\ Fails(0)
    /\ UNCHANGED <<pods, plan, peer, held, faults, results, evidence>>

\* A refused connection is tried again after a pause.
Refused == phase[1] = "connect" /\ ~Listening /\ UNCHANGED rankVars

Connect ==
    /\ phase[1] = "connect" /\ Listening
    /\ backlog' = Append(backlog, TRUE) /\ mine' = "waiting"
    /\ To(1, "wait")
    /\ UNCHANGED <<pods, plan, at, failed, peer, held, faults, results, evidence>>

ReceiveGo ==
    /\ phase[1] = "wait" /\ mine = "go"
    /\ mine' = "none"
    /\ To(1, "program")
    /\ UNCHANGED <<pods, plan, at, failed, peer, backlog, held, faults, results, evidence>>

\* The peer closed the barrier: rank 1 connects again.
Reconnect ==
    /\ phase[1] = "wait" /\ mine = "closed"
    /\ mine' = "none"
    /\ To(1, "connect")
    /\ UNCHANGED <<pods, plan, at, failed, peer, backlog, held, faults, results, evidence>>

\* Rank 1's end of its connection is gone.
Dead == /\ held' = FALSE
        /\ backlog' = [k \in DOMAIN backlog |-> FALSE]

\* Mutant: the deadline is only looked at when a connection was lost.
ConnectTimesOutIfLost ==
    /\ phase[1] = "wait" /\ mine # "go"
    /\ mine' = "none" /\ Dead
    /\ Fails(1)
    /\ UNCHANGED <<pods, plan, peer, faults, results, evidence>>

\* Rank 1 is past its deadline when a connect or a recv fails.
ConnectTimesOut ==
    /\ phase[1] \in {"connect", "wait"} /\ mine # "go"
    /\ mine' = "none" /\ Dead
    /\ Fails(1)
    /\ UNCHANGED <<pods, plan, peer, faults, results, evidence>>

\* The network: rank 1's connection breaks, with the go that is on its way.
Break ==
    /\ faults < MaxFaults /\ faults' = faults + 1
    /\ phase[1] = "wait" /\ mine \in {"waiting", "go"}
    /\ mine' = "closed" /\ Dead
    /\ UNCHANGED <<pods, plan, at, phase, failed, peer, results, evidence>>

-----------------------------------------------------------------------------
(* The programs and what the driver writes. *)

\* The workloads whose program has two processes.
TwoNode(w) == w \in RDMA_WORKLOADS \cup {"dual_link", "tcp_put"}

\* The two programs find each other on the port of the run.
Meet ==
    /\ pods = 2 /\ \A r \in Ranks : phase[r] = "program" /\ peer[r] = 0 /\ TwoNode(Here(r).w)
    /\ peer' = [r \in 0..1 |-> at[1 - r]]
    /\ UNCHANGED <<pods, plan, at, phase, failed, barrier, faults, results, evidence>>

\* The program exits 0: a two-node one does not without its peer.
ProgramEnds(r) ==
    /\ phase[r] = "program"
    /\ (pods = 2 /\ TwoNode(Here(r).w)) => peer[r] # 0
    /\ IF pods = 2 /\ r = 0
       THEN Passes(r) /\ peer' = [peer EXCEPT ![r] = 0]
       ELSE To(r, "evidence") /\ UNCHANGED <<at, failed, peer>>
    /\ UNCHANGED <<pods, plan, barrier, faults, results, evidence>>

\* It fails, or no peer came within a minute.
ProgramFails(r) ==
    /\ phase[r] = "program"
    /\ Fails(r)
    /\ peer' = [peer EXCEPT ![r] = 0]
    /\ UNCHANGED <<pods, plan, barrier, faults, results, evidence>>

\* _write_evidence, after the second snapshot of the counters.
WriteEvidence(r) ==
    /\ phase[r] = "evidence"
    /\ \E before, after \in Snapshots, f \in Facts :
         LET w   == Here(r).w
             doc == Build(w, before, after, [f EXCEPT !.mode = Mode(w, pods)])
         IN  evidence' = [evidence EXCEPT ![r] = {ev \in @ : ev.workload # w} \cup {doc}]
    /\ To(r, "records")
    /\ UNCHANGED <<pods, plan, at, failed, peer, barrier, faults, results>>

\* The program printed no record: no document, and a results file without one.
PrintsNothing(r) ==
    /\ phase[r] = "evidence"
    /\ Passes(r)
    /\ peer' = [peer EXCEPT ![r] = 0]
    /\ UNCHANGED <<pods, plan, barrier, faults, results, evidence>>

\* capture_topology: the id the tool prints, or none; a rank of two asks nobody.
CaptureTopology == IF pods = 2 THEN {Null} ELSE Topologies \cup {Null}

\* The records of every line the program printed.
Printed(r, t) ==
    LET w == Here(r).w
    IN  [k \in DOMAIN Prints(w, pods) |->
            [bench |-> w, params |-> Prints(w, pods)[k], topology |-> t,
             measured |-> IF pods = 2 /\ TwoNode(w) THEN plan[peer[r]].w ELSE w]]

\* _write validates the records and appends them: with two pods the topology
\* stays null until the gate stamps it.
WriteRecords(r) ==
    /\ phase[r] = "records"
    /\ \E t \in CaptureTopology : results' = [results EXCEPT ![r] = @ \o Printed(r, t)]
    /\ Passes(r)
    /\ peer' = [peer EXCEPT ![r] = 0]
    /\ UNCHANGED <<pods, plan, barrier, faults, evidence>>

\* A record fails its validation, or a file cannot be written.
WriteFails(r) ==
    /\ phase[r] \in {"evidence", "records"}
    /\ Fails(r)
    /\ peer' = [peer EXCEPT ![r] = 0]
    /\ UNCHANGED <<pods, plan, barrier, faults, results, evidence>>

RankStep(r) ==
    \/ OtherStep(r) \/ PlanEnds(r) \/ BenchStep(r)
    \/ ProgramEnds(r) \/ ProgramFails(r) \/ WriteEvidence(r) \/ PrintsNothing(r) \/ WriteRecords(r) \/ WriteFails(r)
    \/ r = 0 /\ (Listen \/ Accept \/ Greet \/ AcceptTimesOut)
    \/ r = 1 /\ (Resolve \/ Refused \/ Connect \/ ReceiveGo \/ Reconnect \/ ConnectTimesOut)

AllEnded == \A r \in Ranks : phase[r] = "ended"
=============================================================================
