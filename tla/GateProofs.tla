----------------------------- MODULE GateProofs -----------------------------
(***************************************************************************)
(* What is proved of the bench gate for any setup files, baselines and      *)
(* captures, any number of workloads and any number of broken connections.  *)
(* The barrier plays no part in it: two ranks that walk one plan meet in    *)
(* one workload because neither leaves a workload of two nodes behind       *)
(* unless the other was in it too.                                          *)
(***************************************************************************)
EXTENDS Gate, SequenceTheorems, FiniteSetTheorems, TLAPS

Workloads == STRING \cup {"none"}
PlanSteps ==
    {s \in [name : {"gpu-preflight", "compute-capability", "libcuda", "install", "configure", "build",
                    "evidence-probe", "bench", "capture"},
            kind : {"preflight", "install", "build", "command", "report"}, w : Workloads] :
        s.w # "none" => s.kind = "command"}

\* The steps that two programs share.
Shared(k) == k \in 1..Len(plan) /\ TwoNode(plan[k].w)

Working == {"program", "evidence", "records"}

RanksOK ==
    /\ plan \in Seq(PlanSteps)
    /\ at \in [0..1 -> 1..(Len(plan) + 1)] /\ phase \in [0..1 -> Phases]
    /\ failed \in [0..1 -> Nat] /\ peer \in [0..1 -> Nat]

BarrierOK ==
    /\ backlog \in Seq(BOOLEAN) /\ held \in BOOLEAN /\ mine \in {"none", "waiting", "go", "closed"}

\* Where a rank is: in a workload, and with its peer if it has one.
InStep(r) ==
    /\ phase[r] \notin {"next", "ended"} => at[r] <= Len(plan) /\ Here(r).w # "none"
    /\ peer[r] # 0 => peer[r] = at[r] /\ phase[r] \in Working /\ Shared(at[r])
    /\ pods = 2 /\ phase[r] \in {"evidence", "records"} /\ TwoNode(Here(r).w) => peer[r] # 0

\* Rank r is beyond step k, or in it with its peer, or has failed in it.
Beyond(r, k) == at[r] > k \/ (at[r] = k /\ (peer[r] = k \/ phase[r] = "ended"))

\* A rank that met its peer in a shared step, or left one, was not alone there.
NeverAlone ==
    \A r \in 0..1, k \in 1..Len(plan) :
        pods = 2 /\ Shared(k) /\ (at[r] > k \/ peer[r] = k) => Beyond(1 - r, k)

Params == {"rails_a", "rails_b", "rails_both", "nvlink_a", "nvlink_b", "nvlink_both",
           "pack", "transfer", "sync", "pipelined", "smallest", "largest", "only"}

\* A record names the workload that was measured.
Rec == {r \in [bench : Workloads, params : Params, topology : Topologies \cup PairIds \cup {Null},
               measured : Workloads] : r.measured = r.bench}
Written == {r \in Rec : pods = 2 => r.topology = Null}
Stamped == {r \in Rec : r.topology \in PairIds}

\* A document's counters are numbers, of finitely many ports and GPUs.
Counted(bytes) == IsFiniteSet(DOMAIN bytes) /\ \A d \in DOMAIN bytes : bytes[d] \in Nat
CountersOK(ev) == Counted(ev.nic_bytes) /\ Counted(ev.nvlink_bytes)

Files ==
    /\ results \in [0..1 -> Seq(Written)]
    /\ \A r \in 0..1 : \A ev \in evidence[r] : ev.program.mode = Mode(ev.workload, pods) /\ CountersOK(ev)
    /\ evidence = [r \in 0..1 |-> evidence[r]]

RankInv == RanksOK /\ BarrierOK /\ (\A r \in 0..1 : InStep(r)) /\ NeverAlone /\ Files

\* How far the command is, and what it knows then.
CommandOK ==
    /\ pc \in {"start", "run", "pair", "stamp", "judge", "compare", "done"}
    /\ exit \in {Unset, 0, 1, 2, 3, 4, 130} /\ (exit = Unset) = (pc # "done")
    /\ pair \in BOOLEAN /\ stamped \in {"none", "yes", "no"}
    /\ setup \in Setups /\ pods = setup.machine.pods
    /\ pc \notin {"start", "done"} \/ exit = 0 => Refusal(setup) = 0

\* The records and the pair's id.
RecordsOK ==
    /\ IF stamped = "yes" THEN records \in Seq(Stamped) ELSE records \in Seq(Written)
    /\ \A ev \in documents : ev.program.mode = Mode(ev.workload, pods) /\ CountersOK(ev)
    /\ pc \in {"start", "run", "pair"} => ~pair /\ stamped = "none"
    /\ pc = "stamp" => pair /\ stamped = "none"
    /\ pc \in {"judge", "compare"} \/ (pc = "done" /\ exit # 130) => pair = (stamped = "yes")

\* What was judged.
Judged ==
    /\ pc = "compare" \/ exit = 0 => \A w \in Gated(setup) : ~Complains(w)
    /\ exit = 0 /\ baseline # NoBaseline =>
         /\ against \in [DOMAIN records -> Judgements]
         /\ Compare(records, documents, baseline, against) = 0 /\ ~Mismatch(records, baseline)

Inv == RankInv /\ CommandOK /\ RecordsOK /\ Judged

-----------------------------------------------------------------------------
(* The plan. *)

\* plan_gate: every step that measures a workload is a command, so its failure
\* ends the plan.
LEMMA PlanIsTyped ==
    ASSUME NEW s, s.gate \in Seq(STRING)
    PROVE  PlanGate(s) \in Seq(PlanSteps)
<1>1. GpuPreflight \in Seq(PlanSteps)
  <2>1. \A k \in 1..3 : <<"gpu-preflight", "compute-capability", "libcuda">>[k]
                           \in {"gpu-preflight", "compute-capability", "libcuda"}
    OBVIOUS
  <2>2. \A k \in 1..3 : GpuPreflight[k] \in PlanSteps
    BY <2>1 DEF GpuPreflight, Step, PlanSteps, Workloads
  <2>3. GpuPreflight \in [1..3 -> PlanSteps]
    BY <2>2 DEF GpuPreflight
  <2> QED BY <2>3, SeqDef
<1>2. /\ Step("install", "install", "none") \in PlanSteps /\ Step("configure", "build", "none") \in PlanSteps
      /\ Step("build", "build", "none") \in PlanSteps /\ Step("evidence-probe", "command", "none") \in PlanSteps
      /\ Step("capture", "report", "none") \in PlanSteps
  BY DEF Step, PlanSteps, Workloads
<1>3. /\ <<Step("install", "install", "none"), Step("configure", "build", "none"), Step("build", "build", "none")>>
           \in Seq(PlanSteps)
      /\ (IF Probes(s) = {} THEN <<>> ELSE <<Step("evidence-probe", "command", "none")>>) \in Seq(PlanSteps)
      /\ (IF Captures(s) THEN <<Step("capture", "report", "none")>> ELSE <<>>) \in Seq(PlanSteps)
  BY <1>2
<1>4. [k \in DOMAIN s.gate |-> Step("bench", "command", s.gate[k])] \in Seq(PlanSteps)
  <2>1. \A k \in DOMAIN s.gate : Step("bench", "command", s.gate[k]) \in PlanSteps
    BY DEF Step, PlanSteps, Workloads
  <2>2. DOMAIN s.gate = 1..Len(s.gate) /\ Len(s.gate) \in Nat
    OBVIOUS
  <2> HIDE DEF Step
  <2>3. [k \in DOMAIN s.gate |-> Step("bench", "command", s.gate[k])] \in [1..Len(s.gate) -> PlanSteps]
    BY <2>1, <2>2
  <2> QED BY <2>2, <2>3
<1> QED BY <1>1, <1>3, <1>4 DEF PlanGate

\* A shared step is one of a workload.
LEMMA SharedMeasures == ASSUME NEW k, Shared(k) PROVE plan[k].w # "none"
  BY DEF Shared, TwoNode, RDMA_WORKLOADS

-----------------------------------------------------------------------------
(* The three ways a rank moves: within its step, to the next one, to its end. *)

\* What rank r leaves alone, and that it does not go back.
OnlyRank(r) ==
    /\ UNCHANGED <<pods, plan>>
    /\ at'[1 - r] = at[1 - r] /\ phase'[1 - r] = phase[1 - r] /\ peer'[1 - r] = peer[1 - r]
    /\ at'[r] \in {at[r], at[r] + 1}
    /\ at'[r] = at[r] => /\ peer[r] = at[r] => peer'[r] = at[r] \/ phase'[r] = "ended"
                         /\ phase[r] = "ended" => phase'[r] = "ended"
    /\ at'[r] # at[r] /\ pods = 2 /\ Shared(at[r]) => peer[r] = at[r]
    /\ peer'[r] \in {0, peer[r]}

\* Then nobody is alone in a shared step.
LEMMA StillNotAlone ==
    ASSUME RankInv, NEW r \in 0..1, RanksOK', OnlyRank(r), InStep(r)'
    PROVE  (\A q \in 0..1 : InStep(q)') /\ NeverAlone'
<1>1. 1 - r \in 0..1 /\ 1 - (1 - r) = r /\ \A q \in 0..1 : q = r \/ q = 1 - r
  OBVIOUS
<1>2. InStep(1 - r)'
  BY <1>1 DEF RankInv, InStep, OnlyRank, Here, Shared
<1>3. at[r] \in Nat /\ at'[r] \in Nat /\ at[1 - r] \in Nat /\ peer[r] \in Nat /\ peer'[r] \in Nat
  BY <1>1 DEF RankInv, RanksOK
<1>4. ASSUME NEW k \in 1..Len(plan), pods = 2, Shared(k), at'[r] > k \/ peer'[r] = k
      PROVE  Beyond(1 - r, k)'
  <2>1. at[r] > k \/ peer[r] = k
    BY <1>3, <1>4 DEF OnlyRank
  <2>2. Beyond(1 - r, k)
    BY <1>4, <2>1 DEF RankInv, NeverAlone
  <2> QED BY <2>2 DEF Beyond, OnlyRank
<1>5. ASSUME NEW k \in 1..Len(plan), pods = 2, Shared(k), at[1 - r] > k \/ peer[1 - r] = k
      PROVE  Beyond(r, k)'
  <2>1. Beyond(r, k)
    BY <1>1, <1>5 DEF RankInv, NeverAlone
  <2> QED BY <1>3, <2>1 DEF Beyond, OnlyRank
<1>6. NeverAlone'
  <2>1. ASSUME NEW q \in 0..1, NEW k \in 1..Len(plan), pods = 2, Shared(k), at'[q] > k \/ peer'[q] = k
        PROVE  Beyond(1 - q, k)'
    <3>1. CASE q = r
      BY <1>4, <2>1, <3>1
    <3>2. CASE q = 1 - r
      BY <1>1, <1>5, <2>1, <3>2 DEF OnlyRank
    <3> QED BY <1>1, <3>1, <3>2
  <2> QED BY <2>1 DEF NeverAlone, OnlyRank, Shared
<1> QED BY <1>1, <1>2, <1>6

\* Within the step.
LEMMA Stays ==
    ASSUME RankInv, NEW r \in 0..1, NEW p \in Phases, To(r, p), UNCHANGED <<pods, plan, at, failed, peer>>,
           phase[r] # "ended",
           p \notin {"next", "ended"} => at[r] <= Len(plan) /\ Here(r).w # "none",
           peer[r] # 0 => p \in Working,
           pods = 2 /\ p \in {"evidence", "records"} /\ TwoNode(Here(r).w) => peer[r] # 0
    PROVE  RanksOK' /\ (\A q \in 0..1 : InStep(q)') /\ NeverAlone'
<1>1. 1 - r \in 0..1 /\ 1 - r # r
  OBVIOUS
<1>2. RanksOK' /\ phase'[r] = p /\ phase'[1 - r] = phase[1 - r]
  BY <1>1 DEF RankInv, RanksOK, To
<1>3. OnlyRank(r)
  BY <1>2 DEF OnlyRank
<1>4. InStep(r)'
  BY <1>2 DEF RankInv, InStep, Here, Shared
<1> QED BY <1>2, <1>3, <1>4, StillNotAlone

\* The peer is forgotten, or there was none.
Forgets(r) == peer' = [peer EXCEPT ![r] = 0] \/ (peer[r] = 0 /\ peer' = peer)

\* To the next step.
LEMMA Leaves ==
    ASSUME RankInv, NEW r \in 0..1, Passes(r), Forgets(r), UNCHANGED <<pods, plan>>, at[r] <= Len(plan),
           pods = 2 /\ Shared(at[r]) => peer[r] # 0
    PROVE  RanksOK' /\ (\A q \in 0..1 : InStep(q)') /\ NeverAlone'
<1>1. 1 - r \in 0..1 /\ 1 - r # r
  OBVIOUS
<1>2. at[r] \in 1..(Len(plan) + 1) /\ Len(plan) \in Nat /\ at \in [0..1 -> 1..(Len(plan) + 1)] /\ peer \in [0..1 -> Nat]
  BY DEF RankInv, RanksOK
<1>3. /\ at'[r] = at[r] + 1 /\ at'[1 - r] = at[1 - r] /\ at' \in [0..1 -> 1..(Len(plan) + 1)]
      /\ peer'[r] = 0 /\ peer'[1 - r] = peer[1 - r] /\ peer' \in [0..1 -> Nat]
  BY <1>1, <1>2 DEF Passes, Forgets
<1>4. phase'[r] = "next" /\ phase'[1 - r] = phase[1 - r] /\ phase' \in [0..1 -> Phases]
  BY <1>1 DEF Passes, To, RankInv, RanksOK, Phases
<1>5. RanksOK'
  BY <1>3, <1>4 DEF RankInv, RanksOK, Passes
<1>6. OnlyRank(r)
  <2>1. pods = 2 /\ Shared(at[r]) => peer[r] = at[r]
    BY DEF RankInv, InStep
  <2> QED BY <1>2, <1>3, <1>4, <2>1 DEF OnlyRank
<1>7. InStep(r)'
  BY <1>3, <1>4 DEF InStep
<1> QED BY <1>5, <1>6, <1>7, StillNotAlone

\* To the end of the rank, or past a report.
LEMMA GivesUp ==
    ASSUME RankInv, NEW r \in 0..1, Fails(r), Forgets(r), UNCHANGED <<pods, plan>>, at[r] <= Len(plan), phase[r] # "ended"
    PROVE  RanksOK' /\ (\A q \in 0..1 : InStep(q)') /\ NeverAlone'
<1>0. at[r] \in 1..Len(plan) /\ plan[at[r]] \in PlanSteps
  BY DEF RankInv, RanksOK
<1>1. CASE Here(r).kind = "report"
  <2>1. ~Shared(at[r])
    BY <1>0, <1>1, SharedMeasures DEF PlanSteps, Here
  <2> QED BY <1>1, <2>1, Leaves DEF Fails
<1>2. CASE Here(r).kind # "report"
  <2>1. 1 - r \in 0..1 /\ 1 - r # r
    OBVIOUS
  <2>2. failed' = [failed EXCEPT ![r] = at[r]] /\ To(r, "ended") /\ at' = at
    BY <1>2 DEF Fails
  <2>3. /\ phase'[r] = "ended" /\ phase'[1 - r] = phase[1 - r] /\ phase' \in [0..1 -> Phases]
        /\ peer'[r] = 0 /\ peer'[1 - r] = peer[1 - r] /\ peer' \in [0..1 -> Nat]
    BY <2>1, <2>2 DEF Forgets, To, RankInv, RanksOK, Phases
  <2>4. failed' \in [0..1 -> Nat]
    BY <1>0, <2>2 DEF RankInv, RanksOK
  <2>5. RanksOK' /\ OnlyRank(r) /\ InStep(r)'
    BY <2>2, <2>3, <2>4 DEF RankInv, RanksOK, OnlyRank, InStep
  <2> QED BY <2>5, StillNotAlone
<1> QED BY <1>1, <1>2

-----------------------------------------------------------------------------
(* The ranks' actions. *)

\* A step that writes no file keeps what is known of the files.
LEMMA FilesStay ==
    ASSUME RankInv, RanksOK', BarrierOK', \A q \in 0..1 : InStep(q)', NeverAlone', UNCHANGED <<pods, results, evidence>>
    PROVE  RankInv'
  BY DEF RankInv, Files, Written

\* A rank that is in a workload, seen from its phase.
LEMMA Within ==
    ASSUME RankInv, NEW r \in 0..1, phase[r] \in Phases \ {"next", "ended"}
    PROVE  /\ at[r] \in 1..Len(plan) /\ at[r] <= Len(plan) /\ Here(r).w # "none" /\ phase[r] # "ended"
           /\ phase[r] \notin Working => peer[r] = 0
  BY DEF RankInv, RanksOK, InStep

\* A rank at the beginning of a step has no peer.
LEMMA AtNext == ASSUME RankInv, NEW r \in 0..1, phase[r] = "next" PROVE peer[r] = 0
  BY DEF RankInv, InStep, Working

\* The steps that are not workloads, and the end of the plan.
LEMMA PlainSteps ==
    ASSUME RankInv, NEW r \in 0..1, OtherStep(r) \/ PlanEnds(r)
    PROVE  RankInv'
<1>1. peer[r] = 0 /\ phase[r] # "ended"
  BY AtNext DEF OtherStep, PlanEnds
<1>2. BarrierOK' /\ UNCHANGED <<pods, plan, peer, results, evidence>>
  BY DEF OtherStep, PlanEnds, barrier, RankInv, BarrierOK
<1>3. CASE OtherStep(r)
  <2>1. at[r] <= Len(plan) /\ ~Shared(at[r]) /\ Forgets(r)
    BY <1>1, <1>2, <1>3, SharedMeasures DEF OtherStep, Here, Forgets
  <2>2. RanksOK' /\ (\A q \in 0..1 : InStep(q)') /\ NeverAlone'
    BY <1>1, <1>2, <1>3, <2>1, Leaves, GivesUp DEF OtherStep
  <2> QED BY <1>2, <2>2, FilesStay
<1>4. CASE PlanEnds(r)
  <2>1. RanksOK' /\ (\A q \in 0..1 : InStep(q)') /\ NeverAlone'
    BY <1>1, <1>4, Stays DEF PlanEnds, Phases
  <2> QED BY <1>2, <2>1, FilesStay
<1> QED BY <1>3, <1>4

\* A bench step begins.
LEMMA BenchSteps ==
    ASSUME RankInv, NEW r \in 0..1, BenchStep(r)
    PROVE  RankInv'
<1>1. peer[r] = 0 /\ phase[r] # "ended" /\ at[r] <= Len(plan) /\ Here(r).w # "none"
  BY AtNext DEF BenchStep
<1>2. BarrierOK' /\ UNCHANGED <<pods, plan, peer, results, evidence>> /\ Forgets(r)
  BY <1>1 DEF BenchStep, barrier, RankInv, BarrierOK, Forgets
<1>3. CASE Fails(r)
  BY <1>1, <1>2, <1>3, GivesUp, FilesStay
<1>4. CASE ~Fails(r)
  <2> DEFINE p == IF pods = 1 THEN "program" ELSE IF r = 0 THEN "barrier" ELSE "resolve"
  <2>1. To(r, p) /\ UNCHANGED <<at, failed>>
    BY <1>4 DEF BenchStep
  <2>2. p \in {"program", "barrier", "resolve"} /\ p \in Phases
    BY DEF Phases
  <2> HIDE DEF p
  <2>3. RanksOK' /\ (\A q \in 0..1 : InStep(q)') /\ NeverAlone'
    BY <1>1, <1>2, <2>1, <2>2, Stays
  <2> QED BY <1>2, <2>3, FilesStay
<1> QED BY <1>3, <1>4

\* What closing an end does to the connections.
LEMMA DeadIsTyped == ASSUME BarrierOK, Dead PROVE backlog' \in Seq(BOOLEAN) /\ held' \in BOOLEAN
<1>1. Len(backlog) \in Nat /\ DOMAIN backlog = 1..Len(backlog)
  BY DEF BarrierOK
<1>2. backlog' \in [1..Len(backlog) -> BOOLEAN] /\ held' = FALSE
  BY <1>1 DEF Dead
<1> QED BY <1>1, <1>2, SeqDef

\* A server that closes leaves nothing in its backlog.
LEMMA ClosesIsTyped == ASSUME BarrierOK, ServerCloses PROVE backlog' \in Seq(BOOLEAN) /\ mine' \in {"none", "waiting", "go", "closed"}
<1>1. backlog' = <<>> /\ mine' \in {"closed", mine}
  BY DEF ServerCloses
<1> QED BY <1>1 DEF BarrierOK

\* Rank 0 at the barrier.
LEMMA Rank0Barrier ==
    ASSUME RankInv, Listen \/ Accept \/ Greet \/ AcceptTimesOut
    PROVE  RankInv'
<1>1. phase[0] \in {"barrier", "listen", "greet"}
  BY DEF Listen, Accept, Greet, AcceptTimesOut
<1>2. /\ at[0] <= Len(plan) /\ Here(0).w # "none" /\ phase[0] # "ended" /\ peer[0] = 0
  BY <1>1, Within DEF Phases, Working
<1>3. UNCHANGED <<pods, plan, peer, results, evidence>> /\ Forgets(0)
  BY <1>2 DEF Listen, Accept, Greet, AcceptTimesOut, Forgets
<1>4. BarrierOK'
  <2>1. BarrierOK
    BY DEF RankInv
  <2>2. CASE Listen
    BY <2>1, <2>2 DEF Listen, barrier, BarrierOK
  <2>3. CASE Accept
    BY <2>1, <2>3 DEF Accept, BarrierOK
  <2>4. CASE Greet
    <3>1. held' = FALSE /\ (ServerCloses \/ (mine' = "go" /\ backlog' = <<>>))
      BY <2>4 DEF Greet
    <3>2. CASE ServerCloses
      BY <2>1, <3>1, <3>2, ClosesIsTyped DEF BarrierOK
    <3>3. CASE mine' = "go" /\ backlog' = <<>>
      <4>1. <<>> \in Seq(BOOLEAN) /\ FALSE \in BOOLEAN
        OBVIOUS
      <4> QED BY <3>1, <3>3, <4>1 DEF BarrierOK
    <3> QED BY <3>1, <3>2, <3>3
  <2>5. CASE AcceptTimesOut
    BY <2>1, <2>5, ClosesIsTyped DEF AcceptTimesOut, BarrierOK
  <2> QED BY <2>2, <2>3, <2>4, <2>5
<1>5. Fails(0) \/ \E p \in {"listen", "greet", "program"} : To(0, p) /\ UNCHANGED <<at, failed>>
  BY DEF Listen, Accept, Greet, AcceptTimesOut
<1>6. RanksOK' /\ (\A q \in 0..1 : InStep(q)') /\ NeverAlone'
  <2>1. CASE Fails(0)
    BY <1>2, <1>3, <2>1, GivesUp
  <2>2. ASSUME NEW p \in {"listen", "greet", "program"}, To(0, p), UNCHANGED <<at, failed>>
        PROVE  RanksOK' /\ (\A q \in 0..1 : InStep(q)') /\ NeverAlone'
    <3>1. p \in Phases /\ p \notin {"next", "ended", "evidence", "records"}
      BY DEF Phases
    <3> QED BY <1>2, <1>3, <2>2, <3>1, Stays
  <2> QED BY <1>5, <2>1, <2>2
<1> QED BY <1>3, <1>4, <1>6, FilesStay

\* Rank 1 at the barrier.
LEMMA Rank1Barrier ==
    ASSUME RankInv, Resolve \/ Connect \/ ReceiveGo \/ Reconnect \/ ConnectTimesOut
    PROVE  RankInv'
<1>1. phase[1] \in {"resolve", "connect", "wait"}
  BY DEF Resolve, Connect, ReceiveGo, Reconnect, ConnectTimesOut
<1>2. /\ at[1] <= Len(plan) /\ Here(1).w # "none" /\ phase[1] # "ended" /\ peer[1] = 0
  BY <1>1, Within DEF Phases, Working
<1>3. UNCHANGED <<pods, plan, peer, results, evidence>> /\ Forgets(1)
  BY <1>2 DEF Resolve, Connect, ReceiveGo, Reconnect, ConnectTimesOut, Forgets
<1>4. BarrierOK'
  <2>1. BarrierOK
    BY DEF RankInv
  <2>2. CASE Resolve \/ ReceiveGo \/ Reconnect
    BY <2>1, <2>2 DEF Resolve, ReceiveGo, Reconnect, barrier, BarrierOK
  <2>3. CASE Connect
    BY <2>1, <2>3 DEF Connect, BarrierOK
  <2>4. CASE ConnectTimesOut
    BY <2>1, <2>4, DeadIsTyped DEF ConnectTimesOut, BarrierOK
  <2> QED BY <2>2, <2>3, <2>4
<1>5. Fails(1) \/ \E p \in {"connect", "wait", "program"} : To(1, p) /\ UNCHANGED <<at, failed>>
  BY DEF Resolve, Connect, ReceiveGo, Reconnect, ConnectTimesOut
<1>6. RanksOK' /\ (\A q \in 0..1 : InStep(q)') /\ NeverAlone'
  <2>1. CASE Fails(1)
    BY <1>2, <1>3, <2>1, GivesUp
  <2>2. ASSUME NEW p \in {"connect", "wait", "program"}, To(1, p), UNCHANGED <<at, failed>>
        PROVE  RanksOK' /\ (\A q \in 0..1 : InStep(q)') /\ NeverAlone'
    <3>1. p \in Phases /\ p \notin {"next", "ended", "evidence", "records"}
      BY DEF Phases
    <3> QED BY <1>2, <1>3, <2>2, <3>1, Stays
  <2> QED BY <1>5, <2>1, <2>2
<1> QED BY <1>3, <1>4, <1>6, FilesStay

\* A connection breaks; a refused one is tried again.
LEMMA BreakSteps ==
    ASSUME RankInv, Break \/ Refused
    PROVE  RankInv'
<1>1. BarrierOK' /\ UNCHANGED <<pods, plan, at, phase, failed, peer, results, evidence>>
  <2>1. BarrierOK
    BY DEF RankInv
  <2>2. CASE Break
    BY <2>1, <2>2, DeadIsTyped DEF Break, BarrierOK
  <2>3. CASE Refused
    BY <2>1, <2>3 DEF Refused, rankVars, barrier, BarrierOK
  <2> QED BY <2>2, <2>3
<1>2. RanksOK' /\ (\A q \in 0..1 : InStep(q)') /\ NeverAlone'
  BY <1>1 DEF RankInv, RanksOK, InStep, NeverAlone, Beyond, Shared, Here
<1> QED BY <1>1, <1>2, FilesStay

\* Two programs meet in one and the same step.
LEMMA MeetsInOneStep ==
    ASSUME RankInv, Meet
    PROVE  at[0] = at[1] /\ Shared(at[0])
<1>1. pods = 2 /\ \A r \in 0..1 : phase[r] = "program" /\ peer[r] = 0 /\ TwoNode(Here(r).w)
  BY DEF Meet, Ranks
<1>2. \A r \in 0..1 : at[r] \in 1..Len(plan) /\ Shared(at[r])
  BY <1>1, Within DEF Phases, Shared, Here
<1>3. ASSUME NEW r \in 0..1, at[1 - r] > at[r] PROVE FALSE
  <2>1. 1 - r \in 0..1 /\ 1 - (1 - r) = r /\ at[r] \in 1..Len(plan) /\ Shared(at[r])
    BY <1>2
  <2>2. Beyond(r, at[r])
    BY <1>1, <1>3, <2>1 DEF RankInv, NeverAlone
  <2> QED BY <1>1, <2>1, <2>2 DEF Beyond
<1>4. ~(at[1] > at[0]) /\ ~(at[0] > at[1])
  <2>1. 1 - 0 = 1 /\ 1 - 1 = 0
    OBVIOUS
  <2> QED BY <1>3, <2>1
<1>5. at[0] \in Int /\ at[1] \in Int
  BY <1>2
<1> QED BY <1>2, <1>4, <1>5

\* Where two programs meet, both ranks are at one step.
LEMMA MeetStep ==
    ASSUME RankInv, Meet
    PROVE  RankInv'
<1>1. at[0] = at[1] /\ Shared(at[0]) /\ \A r \in 0..1 : phase[r] = "program" /\ at[r] = at[0] /\ at[1 - r] = at[0]
  BY MeetsInOneStep DEF Meet, Ranks
<1>2. UNCHANGED <<pods, plan, at, phase, failed, results, evidence, barrier>> /\ peer' = [r \in 0..1 |-> at[1 - r]]
  BY DEF Meet
<1>3. at[0] \in 1..Len(plan) /\ \A r \in 0..1 : peer'[r] = at[0]
  BY <1>1, <1>2 DEF Shared
<1>4. RanksOK' /\ BarrierOK'
  BY <1>1, <1>2, <1>3 DEF RankInv, RanksOK, BarrierOK, barrier
<1>5. \A r \in 0..1 : InStep(r)'
  BY <1>1, <1>2, <1>3 DEF RankInv, InStep, Working, Here, Shared
<1>6. NeverAlone'
  <2>1. ASSUME NEW r \in 0..1, NEW k \in 1..Len(plan), at[r] > k \/ at[0] = k PROVE Beyond(1 - r, k)'
    <3>1. 1 - r \in 0..1 /\ at[r] = at[0] /\ at[1 - r] = at[0] /\ peer'[1 - r] = at[0]
      BY <1>1, <1>3
    <3> QED BY <1>2, <2>1, <3>1 DEF Beyond
  <2> QED BY <1>2, <1>3, <2>1 DEF NeverAlone
<1> QED BY <1>2, <1>4, <1>5, <1>6, FilesStay

\* The program ends, or fails.
LEMMA ProgramSteps ==
    ASSUME RankInv, NEW r \in 0..1, ProgramEnds(r) \/ ProgramFails(r)
    PROVE  RankInv'
<1>1. phase[r] = "program"
  BY DEF ProgramEnds, ProgramFails
<1>2. at[r] \in 1..Len(plan) /\ at[r] <= Len(plan) /\ Here(r).w # "none" /\ phase[r] # "ended"
  BY <1>1, Within DEF Phases
<1>3. BarrierOK' /\ UNCHANGED <<pods, plan, results, evidence>>
  BY DEF ProgramEnds, ProgramFails, barrier, RankInv, BarrierOK
<1>4. CASE ProgramFails(r)
  BY <1>2, <1>3, <1>4, GivesUp, FilesStay DEF ProgramFails, Forgets
<1>5. CASE ProgramEnds(r) /\ pods = 2 /\ r = 0
  <2>1. Shared(at[r]) => peer[r] # 0
    BY <1>5 DEF ProgramEnds, Shared, Here
  <2> QED BY <1>2, <1>3, <1>5, <2>1, Leaves, FilesStay DEF ProgramEnds, Forgets
<1>6. CASE ProgramEnds(r) /\ ~(pods = 2 /\ r = 0)
  <2>1. To(r, "evidence") /\ UNCHANGED <<at, failed, peer>>
    BY <1>6 DEF ProgramEnds
  <2>2. "evidence" \in Phases /\ "evidence" \in Working
    BY DEF Phases, Working
  <2>3. pods = 2 /\ TwoNode(Here(r).w) => peer[r] # 0
    BY <1>6 DEF ProgramEnds
  <2> QED BY <1>2, <1>3, <2>1, <2>2, <2>3, Stays, FilesStay
<1> QED BY <1>4, <1>5, <1>6

\* The driver gives up on its files, or has nothing to write.
LEMMA UnwrittenSteps ==
    ASSUME RankInv, NEW r \in 0..1, PrintsNothing(r) \/ WriteFails(r)
    PROVE  RankInv'
<1>1. phase[r] \in {"evidence", "records"}
  BY DEF PrintsNothing, WriteFails
<1>2. at[r] <= Len(plan) /\ phase[r] # "ended"
  BY <1>1, Within DEF Phases
<1>3. BarrierOK' /\ UNCHANGED <<pods, plan, results, evidence>> /\ Forgets(r)
  BY DEF PrintsNothing, WriteFails, barrier, RankInv, BarrierOK, Forgets
<1>4. pods = 2 /\ Shared(at[r]) => peer[r] # 0
  BY <1>1 DEF RankInv, InStep, Shared, Here
<1>5. RanksOK' /\ (\A q \in 0..1 : InStep(q)') /\ NeverAlone'
  BY <1>2, <1>3, <1>4, Leaves, GivesUp DEF PrintsNothing, WriteFails
<1> QED BY <1>3, <1>5, FilesStay

\* A document that was built from two snapshots counts the bytes of finitely many
\* devices.
LEMMA DeltaCounts ==
    ASSUME NEW before, Counted(before), NEW after, Counted(after)
    PROVE  Counted(Delta(before, after))
<1> DEFINE old(d) == IF d \in DOMAIN before THEN before[d] ELSE 0
           D == {e \in DOMAIN after : after[e] - old(e) > 0}
<1>1. Delta(before, after) = [d \in D |-> after[d] - old(d)]
  BY Zenon DEF Delta
<1>2. IsFiniteSet(D)
  BY FS_Subset DEF Counted
<1>3. ASSUME NEW d \in D PROVE after[d] - old(d) \in Nat
  <2>1. after[d] \in Nat /\ old(d) \in Nat
    BY DEF Counted
  <2>2. after[d] - old(d) > 0
    OBVIOUS
  <2> HIDE DEF old
  <2> QED BY <2>1, <2>2
<1> HIDE DEF old, D
<1> QED BY <1>1, <1>2, <1>3 DEF Counted

\* The evidence document carries the mode of its workload on these pods.
LEMMA WriteEvidenceStep ==
    ASSUME RankInv, NEW r \in 0..1, WriteEvidence(r)
    PROVE  RankInv'
<1>1. phase[r] = "evidence" /\ UNCHANGED <<pods, plan, at, failed, peer, results, barrier>> /\ To(r, "records")
  BY DEF WriteEvidence
<1>2. at[r] <= Len(plan) /\ phase[r] # "ended" /\ Here(r).w # "none"
  BY <1>1, Within DEF Phases
<1>3. "records" \in Phases /\ "records" \in Working
  BY DEF Phases, Working
<1>4. RanksOK' /\ (\A q \in 0..1 : InStep(q)') /\ NeverAlone'
  <2>1. pods = 2 /\ TwoNode(Here(r).w) => peer[r] # 0
    BY <1>1 DEF RankInv, InStep
  <2> QED BY <1>1, <1>2, <1>3, <2>1, Stays
<1>5. PICK before \in Snapshots, after \in Snapshots, f \in Facts :
        evidence' = [evidence EXCEPT ![r] = {ev \in @ : ev.workload # Here(r).w}
                        \cup {Build(Here(r).w, before, after, [f EXCEPT !.mode = Mode(Here(r).w, pods)])}]
  BY DEF WriteEvidence
<1> DEFINE doc == Build(Here(r).w, before, after, [f EXCEPT !.mode = Mode(Here(r).w, pods)])
<1>6. doc.program.mode = Mode(doc.workload, pods) /\ CountersOK(doc)
  <2>1. /\ doc.program.mode = Mode(doc.workload, pods)
        /\ doc.nic_bytes = Delta(before.nic, after.nic) /\ doc.nvlink_bytes = Delta(before.nvlink, after.nvlink)
    BY GateAssumption DEF Build
  <2>2. Counted(before.nic) /\ Counted(after.nic) /\ Counted(before.nvlink) /\ Counted(after.nvlink)
    BY SnapshotsAssumption DEF Counted
  <2> HIDE DEF doc
  <2> QED BY <2>1, <2>2, DeltaCounts DEF CountersOK
<1>7. evidence' = [evidence EXCEPT ![r] = {ev \in @ : ev.workload # Here(r).w} \cup {doc}]
  BY <1>5
<1> HIDE DEF doc
<1>8. Files'
  <2>1. evidence = [q \in 0..1 |-> evidence[q]] /\ results \in [0..1 -> Seq(Written)]
        /\ \A q \in 0..1 : \A ev \in evidence[q] : ev.program.mode = Mode(ev.workload, pods) /\ CountersOK(ev)
    BY DEF RankInv, Files
  <2>2. evidence' = [q \in 0..1 |-> evidence'[q]]
    BY <1>7, <2>1
  <2>3. ASSUME NEW q \in 0..1, NEW ev \in evidence'[q] PROVE ev = doc \/ ev \in evidence[q]
    BY <1>7, <2>1
  <2> QED BY <1>1, <1>6, <2>1, <2>2, <2>3 DEF Files, Written
<1> QED BY <1>1, <1>4, <1>8 DEF RankInv, BarrierOK, barrier

\* A program's records have parameters.
LEMMA PrintsParams == ASSUME NEW w, NEW n PROVE Prints(w, n) \in Seq(Params)
<1>1. CASE w = "dual_link" /\ n = 2
  <2>1. Prints(w, n) = <<"rails_a", "rails_b", "rails_both">>
    BY <1>1 DEF Prints
  <2> QED BY <2>1 DEF Params
<1>2. CASE w = "dual_link" /\ n # 2
  <2>1. Prints(w, n) = <<"nvlink_a", "nvlink_b", "nvlink_both">>
    BY <1>2 DEF Prints
  <2> QED BY <2>1 DEF Params
<1>3. CASE w = "pipelining"
  <2>1. Prints(w, n) = <<"pack", "transfer", "sync", "pipelined">>
    BY <1>3 DEF Prints
  <2> QED BY <2>1 DEF Params
<1>4. CASE w = "batching"
  <2>1. Prints(w, n) = <<"smallest", "largest">>
    BY <1>4 DEF Prints
  <2> QED BY <2>1 DEF Params
<1>5. CASE w \notin {"dual_link", "pipelining", "batching"}
  <2>1. Prints(w, n) = <<"only">>
    BY <1>5 DEF Prints
  <2> QED BY <2>1 DEF Params
<1> QED BY <1>1, <1>2, <1>3, <1>4, <1>5

\* A record names the workload that the two programs ran.
LEMMA WriteRecordsStep ==
    ASSUME RankInv, NEW r \in 0..1, WriteRecords(r)
    PROVE  RankInv'
<1>1. phase[r] = "records" /\ UNCHANGED <<pods, plan, evidence, barrier>> /\ Passes(r) /\ Forgets(r)
  BY DEF WriteRecords, Forgets
<1>2. at[r] \in 1..Len(plan) /\ at[r] <= Len(plan)
  BY <1>1, Within DEF Phases
<1>3. pods = 2 /\ TwoNode(Here(r).w) => peer[r] = at[r]
  BY <1>1 DEF RankInv, InStep
<1>4. RanksOK' /\ (\A q \in 0..1 : InStep(q)') /\ NeverAlone'
  <2>1. pods = 2 /\ Shared(at[r]) => peer[r] # 0
    BY <1>2, <1>3 DEF Shared, Here
  <2> QED BY <1>1, <1>2, <2>1, Leaves
<1> DEFINE m == IF pods = 2 /\ TwoNode(Here(r).w) THEN plan[peer[r]].w ELSE Here(r).w
<1>5. m = Here(r).w /\ Here(r).w \in Workloads
  BY <1>2, <1>3 DEF Here, RankInv, RanksOK, PlanSteps
<1>6. PICK t \in CaptureTopology : results' = [results EXCEPT ![r] = @ \o Printed(r, t)]
  BY DEF WriteRecords
<1>7. Printed(r, t) \in Seq(Written)
  <2>1. t \in Topologies \cup PairIds \cup {Null} /\ (pods = 2 => t = Null)
    BY DEF CaptureTopology
  <2> DEFINE ps == Prints(Here(r).w, pods)
             rec(k) == [bench |-> Here(r).w, params |-> ps[k], topology |-> t, measured |-> m]
  <2>2. ps \in Seq(Params)
    BY PrintsParams
  <2> HIDE DEF m, ps
  <2>3. ASSUME NEW k \in DOMAIN ps PROVE rec(k) \in Written
    <3>1. ps[k] \in Params
      BY <2>2
    <3> QED BY <1>5, <2>1, <3>1 DEF Written, Rec
  <2>4. Printed(r, t) = [k \in DOMAIN ps |-> rec(k)]
    BY DEF Printed, ps, m
  <2>5. Len(ps) \in Nat /\ DOMAIN ps = 1..Len(ps)
    BY <2>2
  <2> HIDE DEF rec
  <2>6. Printed(r, t) \in [1..Len(ps) -> Written]
    BY <2>3, <2>4, <2>5
  <2> QED BY <2>5, <2>6, SeqDef
<1>8. results[r] \in Seq(Written) /\ results[r] \o Printed(r, t) \in Seq(Written)
  BY <1>7 DEF RankInv, Files
<1>9. Files'
  <2>1. results' \in [0..1 -> Seq(Written)] /\ Written' = Written
    BY <1>1, <1>6, <1>8 DEF RankInv, Files, Written
  <2> QED BY <1>1, <2>1 DEF RankInv, Files
<1> QED BY <1>1, <1>4, <1>9 DEF RankInv, BarrierOK, barrier

\* Any step of a rank.
LEMMA RankSteps ==
    ASSUME RankInv, NEW r \in 0..1, RankStep(r)
    PROVE  RankInv'
  BY PlainSteps, BenchSteps, ProgramSteps, WriteEvidenceStep, UnwrittenSteps, WriteRecordsStep, Rank0Barrier,
     Rank1Barrier, BreakSteps DEF RankStep

\* The ranks' variables stay as they are.
LEMMA RanksStutter == ASSUME RankInv, UNCHANGED rankVars PROVE RankInv'
<1>1. BarrierOK' /\ UNCHANGED <<pods, plan, at, phase, failed, peer, results, evidence>>
  BY DEF rankVars, barrier, RankInv, BarrierOK
<1>2. RanksOK' /\ (\A q \in 0..1 : InStep(q)') /\ NeverAlone'
  BY <1>1 DEF RankInv, RanksOK, InStep, NeverAlone, Beyond, Shared, Here
<1> QED BY <1>1, <1>2, FilesStay

-----------------------------------------------------------------------------
(* The command. *)

\* A step that leaves the records and the verdict alone.
LEMMA CommandStutter ==
    ASSUME CommandOK, RecordsOK, Judged, UNCHANGED <<gateVars, pods>>
    PROVE  CommandOK' /\ RecordsOK' /\ Judged'
  BY DEF CommandOK, RecordsOK, Judged, gateVars, Written, Stamped, Complains

\* The pods change neither the setup nor what the command knows.
LEMMA PodsStep == ASSUME Inv, Pods PROVE Inv'
<1>1. RankInv'
  <2>1. \A r \in Ranks : r \in 0..1
    BY DEF Ranks
  <2> QED BY <2>1, RankSteps, BreakSteps, MeetStep DEF Pods, Inv
<1>2. pods' = pods
  BY DEF Pods, RankStep, OtherStep, PlanEnds, BenchStep, ProgramEnds, ProgramFails, WriteEvidence, PrintsNothing,
         WriteRecords, WriteFails, Listen, Accept, Greet, AcceptTimesOut, Resolve, Refused, Connect, ReceiveGo,
         Reconnect, ConnectTimesOut, Break, Meet, rankVars
<1> QED BY <1>1, <1>2, CommandStutter DEF Inv, Pods

\* The checks before a pod exists.
LEMMA CheckStep == ASSUME Inv, Check PROVE Inv'
<1>1. RankInv' /\ UNCHANGED <<pods, setup, baseline, records, documents, pair, stamped>>
  BY RanksStutter DEF Check, Inv, rankVars
<1>2. pc = "start" /\ exit = Unset /\ Refusal(setup) \in {0, 1, 2} /\ pair = FALSE /\ stamped = "none"
  BY DEF Check, Inv, CommandOK, RecordsOK, Refusal
<1>3. \/ pc' = "done" /\ exit' = Refusal(setup) /\ Refusal(setup) # 0
      \/ pc' = "run" /\ exit' = Unset /\ Refusal(setup) = 0
  BY <1>2 DEF Check, Exit
<1>4. CommandOK'
  BY <1>1, <1>2, <1>3 DEF Inv, CommandOK, Unset
<1>5. RecordsOK'
  BY <1>1, <1>2, <1>3 DEF Inv, RecordsOK, Written, Stamped, Unset
<1>6. Judged'
  BY <1>2, <1>3 DEF Judged, Unset
<1> QED BY <1>1, <1>4, <1>5, <1>6 DEF Inv

\* The run returns: the merged files are those of its ranks.
LEMMA RunReturnsStep == ASSUME Inv, RunReturns PROVE Inv'
<1>1. /\ RankInv' /\ UNCHANGED <<pods, setup, baseline, pair, stamped>> /\ pc = "run" /\ exit = Unset
      /\ pair = FALSE /\ stamped = "none" /\ Refusal(setup) = 0
  BY RanksStutter DEF RunReturns, Inv, rankVars, CommandOK, RecordsOK
<1>2. RunCode \in {0, 1, 3}
  BY DEF RunCode
<1>3. \/ pc' = "done" /\ exit' \in {1, 3, 4, 130}
      \/ pc' \in {"pair", "judge"} /\ exit' = Unset
  <2>1. PICK code \in (IF RunCode # 0 THEN {RunCode} ELSE IF Conflict THEN {3} ELSE {0}) \cup {3, 4, 130} :
          IF code # 0 THEN Exit(code)
          ELSE pc' = (IF pods = 2 /\ Captures(setup) THEN "pair" ELSE "judge") /\ exit' = exit
    BY DEF RunReturns
  <2>2. code \in {0, 1, 3, 4, 130}
    BY <1>2
  <2>3. CASE code = 0
    BY <1>1, <2>1, <2>3
  <2>4. CASE code # 0
    BY <2>1, <2>2, <2>4 DEF Exit
  <2> QED BY <2>3, <2>4
<1>4. records' \in Seq(Written)
  <2>1. results[0] \in Seq(Written) /\ results[1] \in Seq(Written)
    BY DEF Inv, RankInv, Files
  <2>2. (IF pods = 2 THEN results[1] ELSE <<>>) \in Seq(Written)
    BY <2>1
  <2>3. records' = results[0] \o (IF pods = 2 THEN results[1] ELSE <<>>)
    BY DEF RunReturns
  <2> QED BY <2>1, <2>2, <2>3
<1>5. \A ev \in documents' : ev.program.mode = Mode(ev.workload, pods) /\ CountersOK(ev)
  BY DEF RunReturns, Inv, RankInv, Files
<1>6. CommandOK'
  BY <1>1, <1>3 DEF Inv, CommandOK, Unset
<1>7. RecordsOK'
  BY <1>1, <1>3, <1>4, <1>5 DEF RecordsOK, Written, Stamped, Rec
<1>8. Judged'
  BY <1>3 DEF Judged, Unset
<1> QED BY <1>1, <1>6, <1>7, <1>8 DEF Inv

\* pair.json is written, or the records stay without a topology.
LEMMA WritePairStep == ASSUME Inv, WritePair PROVE Inv'
<1>1. /\ RankInv' /\ UNCHANGED <<pods, setup, baseline, records, documents, exit>> /\ pc = "pair" /\ exit = Unset
      /\ stamped = "none" /\ Refusal(setup) = 0
  BY RanksStutter DEF WritePair, Inv, rankVars, CommandOK, RecordsOK
<1>2. \/ pair' = TRUE /\ pc' = "stamp" /\ stamped' = "none"
      \/ pair' = FALSE /\ pc' = "judge" /\ stamped' = "no"
  BY <1>1 DEF WritePair
<1>3. CommandOK'
  BY <1>1, <1>2 DEF Inv, CommandOK
<1>4. RecordsOK'
  BY <1>1, <1>2 DEF Inv, RecordsOK, Written, Stamped
<1>5. Judged'
  BY <1>1, <1>2 DEF Judged, Unset
<1> QED BY <1>1, <1>3, <1>4, <1>5 DEF Inv

\* A stamped record differs in its topology only.
LEMMA StampedRecords ==
    ASSUME NEW s \in Seq(Rec), NEW id \in PairIds
    PROVE  [k \in DOMAIN s |-> [s[k] EXCEPT !.topology = id]] \in Seq(Stamped)
<1>1. Len(s) \in Nat /\ DOMAIN s = 1..Len(s) /\ \A k \in DOMAIN s : s[k] \in Rec
  OBVIOUS
<1>2. \A k \in DOMAIN s : [s[k] EXCEPT !.topology = id] \in Stamped
  BY <1>1 DEF Rec, Stamped
<1>3. [k \in DOMAIN s |-> [s[k] EXCEPT !.topology = id]] \in [1..Len(s) -> Stamped]
  BY <1>1, <1>2
<1> QED BY <1>1, <1>3, SeqDef

\* The stamp gives every record the pair's id, or takes the pair back.
LEMMA StampStep == ASSUME Inv, Stamp PROVE Inv'
<1>1. /\ RankInv' /\ UNCHANGED <<pods, setup, baseline, documents, exit>> /\ pc = "stamp" /\ exit = Unset
      /\ stamped = "none" /\ pair = TRUE /\ Refusal(setup) = 0 /\ pc' = "judge" /\ records \in Seq(Written)
  BY RanksStutter DEF Stamp, Inv, rankVars, CommandOK, RecordsOK
<1>2. \/ records' \in Seq(Stamped) /\ stamped' = "yes" /\ pair' = TRUE
      \/ records' = records /\ stamped' = "no" /\ pair' = FALSE
  <2>1. records \in Seq(Rec)
    <3>1. Written \subseteq Rec
      BY DEF Written
    <3> QED BY <1>1, <3>1
  <2>2. CASE stamped' = "yes"
    <3>1. PICK id \in PairIds : records' = [k \in DOMAIN records |-> [records[k] EXCEPT !.topology = id]]
      BY <2>2 DEF Stamp
    <3> QED BY <1>1, <2>1, <2>2, <3>1, StampedRecords DEF Stamp
  <2>3. CASE stamped' # "yes"
    BY <2>3 DEF Stamp
  <2> QED BY <2>2, <2>3
<1>3. CommandOK'
  BY <1>1, <1>2 DEF Inv, CommandOK
<1>4. RecordsOK'
  BY <1>1, <1>2 DEF Inv, RecordsOK, Written, Stamped
<1>5. Judged'
  BY <1>1 DEF Judged, Unset
<1> QED BY <1>1, <1>3, <1>4, <1>5 DEF Inv

\* The judgement of records and evidence.
LEMMA JudgeStep == ASSUME Inv, Judge PROVE Inv'
<1>1. /\ RankInv' /\ UNCHANGED <<pods, setup, baseline, records, documents, pair, stamped>> /\ pc = "judge"
      /\ exit = Unset /\ Refusal(setup) = 0
  BY RanksStutter DEF Judge, Inv, rankVars, CommandOK, RecordsOK
<1>2. \/ pc' = "done" /\ exit' = 1
      \/ pc' = "done" /\ exit' = 0 /\ baseline = NoBaseline /\ \A w \in Gated(setup) : ~Complains(w)
      \/ pc' = "compare" /\ exit' = Unset /\ \A w \in Gated(setup) : ~Complains(w)
  BY <1>1 DEF Judge, Exit
<1>3. CommandOK'
  BY <1>1, <1>2 DEF Inv, CommandOK, Unset
<1>4. RecordsOK'
  BY <1>1, <1>2 DEF Inv, RecordsOK, Written, Stamped, Unset
<1>5. Judged'
  BY <1>1, <1>2 DEF Judged, Complains, Unset
<1> QED BY <1>1, <1>3, <1>4, <1>5 DEF Inv

\* The comparison.
LEMMA JudgeComparisonStep == ASSUME Inv, JudgeComparison PROVE Inv'
<1>1. /\ RankInv' /\ UNCHANGED <<pods, setup, baseline, records, documents, pair, stamped>> /\ pc = "compare"
      /\ exit = Unset /\ Refusal(setup) = 0 /\ pc' = "done" /\ \A w \in Gated(setup) : ~Complains(w)
  BY RanksStutter DEF JudgeComparison, Inv, rankVars, CommandOK, RecordsOK, Judged, Exit
<1>2. \/ exit' = 1
      \/ /\ exit' = 0 /\ against' \in [DOMAIN records -> Judgements]
         /\ Compare(records, documents, baseline, against') = 0 /\ ~Mismatch(records, baseline)
  BY DEF JudgeComparison, Exit
<1>3. CommandOK'
  BY <1>1, <1>2 DEF Inv, CommandOK, Unset
<1>4. RecordsOK'
  BY <1>1, <1>2 DEF Inv, RecordsOK, Written, Stamped, Unset
<1>5. Judged'
  BY <1>1, <1>2 DEF Judged, Complains, Compare, Outcome, Mismatch, CaseKey
<1> QED BY <1>1, <1>3, <1>4, <1>5 DEF Inv

\* Ctrl-C.
LEMMA InterruptStep == ASSUME Inv, Interrupt PROVE Inv'
<1>1. /\ RankInv' /\ UNCHANGED <<pods, setup, baseline, records, documents, pair, stamped>> /\ pc' = "done" /\ exit' = 130
      /\ pc # "done" /\ exit = Unset
  BY RanksStutter DEF Interrupt, Inv, rankVars, CommandOK, Exit
<1>2. CommandOK'
  BY <1>1 DEF Inv, CommandOK, Unset
<1>3. RecordsOK'
  BY <1>1 DEF Inv, RecordsOK, Written, Stamped
<1>4. Judged'
  BY <1>1 DEF Judged
<1> QED BY <1>1, <1>2, <1>3, <1>4 DEF Inv

\* Nothing is known at first.
LEMMA InitInv == Init => Inv
<1> SUFFICES ASSUME Init PROVE Inv
  OBVIOUS
<1>1. /\ at = [r \in 0..1 |-> 1] /\ phase = [r \in 0..1 |-> "next"] /\ failed = [r \in 0..1 |-> 0]
      /\ peer = [r \in 0..1 |-> 0] /\ backlog = <<>> /\ held = FALSE /\ mine = "none"
      /\ results = [r \in 0..1 |-> <<>>] /\ evidence = [r \in 0..1 |-> {}]
      /\ plan = PlanGate(setup) /\ pods = setup.machine.pods /\ setup \in Setups
  BY DEF Init, Ready
<1>2. plan \in Seq(PlanSteps)
  BY <1>1, PlanIsTyped, GateAssumption
<1>3. RanksOK
  <2>1. Len(plan) \in Nat /\ 1 \in 1..(Len(plan) + 1) /\ "next" \in Phases
    BY <1>2 DEF Phases
  <2> QED BY <1>1, <1>2, <2>1 DEF RanksOK
<1>4. BarrierOK
  <2>1. <<>> \in Seq(BOOLEAN) /\ FALSE \in BOOLEAN
    OBVIOUS
  <2> QED BY <1>1, <2>1 DEF BarrierOK
<1>5. \A r \in 0..1 : InStep(r)
  BY <1>1 DEF InStep
<1>6. NeverAlone
  BY <1>1, <1>2 DEF NeverAlone
<1>7. Files
  BY <1>1 DEF Files
<1>8. pc = "start" /\ exit = Unset /\ records = <<>> /\ documents = {} /\ pair = FALSE /\ stamped = "none"
  BY DEF Init
<1>9. CommandOK /\ Judged
  <2>1. exit # 0
    BY <1>8 DEF Unset
  <2>2. exit \in {Unset, 0, 1, 2, 3, 4, 130} /\ pair \in BOOLEAN
    BY <1>8
  <2> QED BY <1>1, <1>8, <2>1, <2>2 DEF CommandOK, Judged
<1>10. RecordsOK
  BY <1>8 DEF RecordsOK
<1> QED BY <1>3, <1>4, <1>5, <1>6, <1>7, <1>9, <1>10 DEF Inv, RankInv

\* One step per action.
LEMMA StepInv == ASSUME Inv, [Next]_vars PROVE Inv'
<1>1. CASE UNCHANGED vars
  <2>1. UNCHANGED <<rankVars, gateVars, pods>>
    BY <1>1 DEF vars, rankVars
  <2> QED BY <2>1, RanksStutter, CommandStutter DEF Inv
<1> QED BY <1>1, CheckStep, RunReturnsStep, WritePairStep, StampStep, JudgeStep, JudgeComparisonStep, PodsStep,
           InterruptStep DEF Next, Command, Ended

\* The invariant behind the theorems below.
THEOREM Invariant == Spec => []Inv
<1> QED BY InitInv, StepInv, PTL DEF Spec

-----------------------------------------------------------------------------
(* What the gate promises. *)

\* TypeOK: the command's, the ranks' and the barrier's state keep their types.
THEOREM TypeCorrect == Spec => []TypeOK
<1>1. Inv => TypeOK
  BY DEF Inv, RankInv, RanksOK, BarrierOK, CommandOK, TypeOK
<1> QED BY <1>1, Invariant, PTL

\* RanksRunOneWorkload: programs that talk to each other run one workload, for
\* any plan and however often the barrier's connections break.
THEOREM RanksAreTogether == Spec => []RanksRunOneWorkload
<1>1. Inv => RanksRunOneWorkload
  BY DEF Inv, RankInv, InStep, RanksRunOneWorkload, Ranks, Here
<1> QED BY <1>1, Invariant, PTL

\* PairIffStamped: pair.json and the records' topologies agree at the end.
THEOREM PairAndStampAgree == Spec => []PairIffStamped
<1>1. ASSUME Inv PROVE PairIffStamped
  <2>1. SUFFICES ASSUME pc = "done", exit # 130
                 PROVE  /\ pair = (stamped = "yes")
                        /\ pods = 2 => \A k \in DOMAIN records : (records[k].topology # Null) = pair
    BY DEF PairIffStamped
  <2>2. pair = (stamped = "yes") /\ pair \in BOOLEAN
    BY <1>1, <2>1 DEF Inv, RecordsOK, CommandOK
  <2>3. ASSUME pods = 2, NEW k \in DOMAIN records PROVE (records[k].topology # Null) = pair
    <3>1. CASE stamped = "yes"
      <4>1. records[k] \in Stamped
        BY <1>1, <3>1 DEF Inv, RecordsOK
      <4>2. records[k].topology # Null
        BY <4>1, GateAssumption DEF Stamped
      <4> QED BY <2>2, <3>1, <4>2
    <3>2. CASE stamped # "yes"
      <4>1. records[k] \in Written
        BY <1>1, <3>2 DEF Inv, RecordsOK
      <4>2. records[k].topology = Null
        BY <2>3, <4>1 DEF Written
      <4> QED BY <2>2, <3>2, <4>2
    <3> QED BY <3>1, <3>2
  <2> QED BY <2>2, <2>3
<1> QED BY <1>1, Invariant, PTL

\* check_machine, plan_gate, capabilities and evidence.check agree on what a
\* workload's bytes run over.
LEMMA TablesAgree ==
    ASSUME NEW s, Refusal(s) = 0, NEW w \in Gated(s)
    PROVE  LET needed == Counters(w, Mode(w, s.machine.pods))
           IN  /\ needed \subseteq Probes(s)
               /\ "ib" \in needed => s.machine.profile.kind = "rdma"
               /\ "ib" \in needed => "gpudirect-rdma" \in s.machine.capabilities
               /\ "nvlink" \in needed => "nvlink-p2p" \in s.machine.capabilities
<1>1. Loads(s) /\ Supported(w, s.machine) /\ MachineFits(s) /\ Plannable(s)
  BY DEF Refusal
<1>2. s.machine.pods \in {1, 2} /\ w \in PROGRAMS
  BY <1>1 DEF Loads, Plannable
<1>3. CASE Counters(w, Mode(w, s.machine.pods)) = {"ib"}
  <2>1. Rdma(w, s.machine.pods)
    BY <1>3 DEF Counters, Mode, Rdma
  <2>2. "ib" \in Probes(s) /\ s.machine.profile.kind = "rdma"
    BY <1>1, <2>1 DEF Probes, MachineFits
  <2>3. "gpudirect-rdma" \in s.machine.capabilities
    <3>1. CASE w \in RDMA_WORKLOADS
      <4>1. WORKLOADS[w] = RdmaPair
        BY <3>1 DEF RDMA_WORKLOADS, WORKLOADS
      <4>2. Form(w, s.machine.pods) = RdmaPair[1]
        <5> DEFINE fits == {k \in DOMAIN RdmaPair : RdmaPair[k].nodes <= s.machine.pods}
        <5>1. DOMAIN RdmaPair = {1} /\ Len(RdmaPair) = 1
          BY DEF RdmaPair
        <5>2. fits = {} \/ fits = {1}
          BY <5>1
        <5>3. Min({1}) = 1
          BY DEF Min
        <5> QED BY <4>1, <5>1, <5>2, <5>3 DEF Form
      <4> QED BY <1>1, <4>2 DEF Supported, RdmaPair, Needs
    <3>2. CASE w = "dual_link" /\ s.machine.pods = 2
      <4> DEFINE forms == <<Needs({"gpudirect-rdma", "multi-rail"}, 1, 2), Needs({"nvlink-p2p"}, 3, 1)>>
      <4>1. WORKLOADS[w] = forms
        BY <3>2 DEF WORKLOADS
      <4>2. DOMAIN forms = 1..2 /\ \A k \in 1..2 : forms[k].nodes <= 2
        BY DEF Needs
      <4>3. {k \in DOMAIN forms : forms[k].nodes <= 2} = {1, 2}
        BY <4>2
      <4>4. Min({1, 2}) = 1
        BY DEF Min
      <4>5. Form(w, 2) = forms[1]
        BY <4>1, <4>3, <4>4 DEF Form
      <4> QED BY <1>1, <3>2, <4>5 DEF Supported, Needs
    <3> QED BY <2>1, <3>1, <3>2 DEF Rdma
  <2> QED BY <1>3, <2>2, <2>3
<1>4. CASE Counters(w, Mode(w, s.machine.pods)) = {"nvlink"}
  <2>1. w \in NVLINK_WORKLOADS \/ (w = "dual_link" /\ s.machine.pods = 1)
    BY <1>2, <1>4 DEF Counters, Mode, Rdma
  <2>2. "nvlink" \in Probes(s)
    BY <2>1 DEF Probes
  <2>3. "nvlink-p2p" \in s.machine.capabilities
    <3>1. CASE w \in NVLINK_WORKLOADS
      <4>1. WORKLOADS[w] = NvlinkPair
        BY <3>1 DEF NVLINK_WORKLOADS, WORKLOADS
      <4>2. Form(w, s.machine.pods) = NvlinkPair[1]
        <5> DEFINE fits == {k \in DOMAIN NvlinkPair : NvlinkPair[k].nodes <= s.machine.pods}
        <5>1. DOMAIN NvlinkPair = {1} /\ Len(NvlinkPair) = 1
          BY DEF NvlinkPair
        <5>2. fits = {} \/ fits = {1}
          BY <5>1
        <5>3. Min({1}) = 1
          BY DEF Min
        <5> QED BY <4>1, <5>1, <5>2, <5>3 DEF Form
      <4> QED BY <1>1, <4>2 DEF Supported, NvlinkPair, Needs
    <3>2. CASE w = "dual_link" /\ s.machine.pods = 1
      <4> DEFINE forms == <<Needs({"gpudirect-rdma", "multi-rail"}, 1, 2), Needs({"nvlink-p2p"}, 3, 1)>>
      <4>1. WORKLOADS[w] = forms
        BY <3>2 DEF WORKLOADS
      <4>2. DOMAIN forms = 1..2 /\ forms[1].nodes = 2 /\ forms[2].nodes = 1
        BY DEF Needs
      <4>3. {k \in DOMAIN forms : forms[k].nodes <= 1} = {2}
        BY <4>2
      <4>4. Min({2}) = 2
        BY DEF Min
      <4>5. Form(w, 1) = forms[2]
        BY <4>1, <4>3, <4>4 DEF Form
      <4> QED BY <1>1, <3>2, <4>5 DEF Supported, Needs
    <3> QED BY <2>1, <3>1, <3>2
  <2> QED BY <1>4, <2>2, <2>3
<1>5. CASE Counters(w, Mode(w, s.machine.pods)) = {}
  BY <1>5
<1> QED BY <1>3, <1>4, <1>5 DEF Counters

\* EvidenceIsReachable: a gate that starts its run can show its transport,
\* whatever the setup file asks for.
THEOREM EvidenceCanBeShown == Spec => []EvidenceIsReachable
<1>1. Inv => EvidenceIsReachable
  BY TablesAgree DEF Inv, CommandOK, EvidenceIsReachable
<1> QED BY <1>1, Invariant, PTL

\* What exit 0 stands for: as PassIsMeasured, with what evidence.check asks of
\* dual_link, two devices that carried their share, in place of a total.
PassIsBacked ==
    (pc = "done" /\ exit = 0) =>
        /\ \A w \in Gated(setup) :
             /\ \E k \in DOMAIN records : records[k].bench = w /\ records[k].measured = w
             /\ \E ev \in documents :
                  /\ ev.workload = w /\ ev.program.mode = Mode(w, pods)
                  /\ \A c \in Counters(w, Mode(w, pods)) :
                       LET bytes == IF c = "ib" THEN ev.nic_bytes ELSE ev.nvlink_bytes
                       IN  IF w # "dual_link" THEN Total(bytes) > 0
                           ELSE \E devices \in SUBSET Carriers(bytes, ev.program.bytes) : Cardinality(devices) >= 2
        /\ baseline # NoBaseline =>
             /\ \A j, k \in DOMAIN records : CaseKey(records[j]) = CaseKey(records[k]) => j = k
             /\ \A k \in DOMAIN records :
                  /\ \E c \in DOMAIN baseline.cases : baseline.cases[c] = records[k].topology
                  /\ (/\ CaseKey(records[k]) \in DOMAIN baseline.cases
                      /\ records[k].topology = baseline.cases[CaseKey(records[k])])
                         => against[k] \in {"pass", "incompatible"}

\* A document that check() finds nothing wrong with shows the counters.
LEMMA ShownCounters ==
    ASSUME NEW ev, Shows(ev), NEW c \in Counters(ev.workload, ev.program.mode)
    PROVE  LET bytes == IF c = "ib" THEN ev.nic_bytes ELSE ev.nvlink_bytes
           IN  IF ev.workload # "dual_link" THEN Total(bytes) > 0
               ELSE \E devices \in SUBSET Carriers(bytes, ev.program.bytes) : Cardinality(devices) >= 2
<1>1. CASE ev.workload \in RDMA_WORKLOADS \/ (ev.workload = "dual_link" /\ ev.program.mode = "rails")
  <2>1. c = "ib"
    BY <1>1 DEF Counters
  <2> QED BY <1>1, <2>1 DEF Shows
<1>2. CASE ~(ev.workload \in RDMA_WORKLOADS \/ (ev.workload = "dual_link" /\ ev.program.mode = "rails"))
  <2>1. c = "nvlink" /\ (ev.workload \in NVLINK_WORKLOADS \/ ev.workload = "dual_link")
    BY <1>2 DEF Counters
  <2>2. CASE ev.workload = "dual_link"
    BY <1>2, <2>1, <2>2 DEF Shows
  <2>3. CASE ev.workload # "dual_link"
    BY <1>2, <2>1, <2>3 DEF Shows
  <2> QED BY <2>2, <2>3
<1> QED BY <1>1, <1>2

\* A gate that passes has measured every workload between two ranks that ran it
\* together, shows the bytes on the wire that the pods' mode asks for, and has no
\* case twice and no record that the baseline contradicts.
THEOREM PassWasBacked == Spec => []PassIsBacked
<1>1. ASSUME Inv, pc = "done", exit = 0 PROVE PassIsBacked
  <2>1. ASSUME NEW k \in DOMAIN records PROVE records[k].measured = records[k].bench
    <3>1. records[k] \in Rec
      BY <1>1, <2>1 DEF Inv, RecordsOK, Written, Stamped
    <3> QED BY <3>1 DEF Rec
  <2>2. \A w \in Gated(setup) : ~Complains(w)
    BY <1>1 DEF Inv, Judged
  <2>3. ASSUME NEW w \in Gated(setup)
        PROVE  \E ev \in documents :
                  /\ ev.workload = w /\ ev.program.mode = Mode(w, pods)
                  /\ \A c \in Counters(w, Mode(w, pods)) :
                       LET bytes == IF c = "ib" THEN ev.nic_bytes ELSE ev.nvlink_bytes
                       IN  IF w # "dual_link" THEN Total(bytes) > 0
                           ELSE \E devices \in SUBSET Carriers(bytes, ev.program.bytes) : Cardinality(devices) >= 2
    <3>1. PICK ev \in documents : ev.workload = w /\ Shows(ev)
      BY <2>2 DEF Complains
    <3>2. ev.program.mode = Mode(w, pods)
      BY <1>1, <3>1 DEF Inv, RecordsOK
    <3> QED BY <3>1, <3>2, ShownCounters
  <2>4. ASSUME baseline # NoBaseline
        PROVE  /\ \A j, k \in DOMAIN records : CaseKey(records[j]) = CaseKey(records[k]) => j = k
               /\ \A k \in DOMAIN records :
                  /\ \E c \in DOMAIN baseline.cases : baseline.cases[c] = records[k].topology
                  /\ (/\ CaseKey(records[k]) \in DOMAIN baseline.cases
                      /\ records[k].topology = baseline.cases[CaseKey(records[k])])
                         => against[k] \in {"pass", "incompatible"}
    <3>1. /\ against \in [DOMAIN records -> Judgements]
          /\ Compare(records, documents, baseline, against) = 0 /\ ~Mismatch(records, baseline)
      BY <1>1, <2>4 DEF Inv, Judged
    <3>2. /\ baseline.readable
          /\ \A k \in DOMAIN records : Outcome(k, records, documents, baseline, against) \in {"pass", "skipped"}
      BY <3>1 DEF Compare
    <3>3. \A j, k \in DOMAIN records : CaseKey(records[j]) = CaseKey(records[k]) => j = k
      BY <3>2 DEF Outcome
    <3>4. ASSUME NEW k \in DOMAIN records PROVE \E c \in DOMAIN baseline.cases : baseline.cases[c] = records[k].topology
      BY <3>1, <3>2 DEF Mismatch
    <3>5. ASSUME NEW k \in DOMAIN records, CaseKey(records[k]) \in DOMAIN baseline.cases,
                 records[k].topology = baseline.cases[CaseKey(records[k])]
          PROVE  against[k] \in {"pass", "incompatible"}
      <4>1. against[k] \in Judgements
        BY <3>1, <3>5
      <4>2. against[k] # "incompatible" => Outcome(k, records, documents, baseline, against) \in {"invalid", against[k]}
        BY <3>5 DEF Outcome
      <4> QED BY <3>2, <4>1, <4>2 DEF Judgements
    <3> QED BY <3>3, <3>4, <3>5
  <2>5. \A w \in Gated(setup) : \E k \in DOMAIN records : records[k].bench = w /\ records[k].measured = w
    BY <2>1, <2>2 DEF Complains
  <2> QED BY <2>3, <2>4, <2>5 DEF PassIsBacked
<1>2. Inv => PassIsBacked
  BY <1>1 DEF PassIsBacked
<1> QED BY <1>2, Invariant, PTL

-----------------------------------------------------------------------------
(* The sum of a document's bytes.  Total adds them up one device after the  *)
(* other, in an order that is not known; it is at least what each of them   *)
(* carried, which is all that is needed of it.                              *)

\* The bytes of the devices of s, given the sums f of the smaller sets.
Part(bytes, f, s) ==
    IF s = {} THEN 0 ELSE bytes[CHOOSE x \in s : TRUE] + f[s \ {CHOOSE x \in s : TRUE}]

SumsOf(bytes, f) == f = [s \in SUBSET DOMAIN bytes |-> Part(bytes, f, s)]
Sums(bytes) == CHOOSE f : SumsOf(bytes, f)

LEMMA TotalIsASum == ASSUME NEW bytes PROVE Total(bytes) = Sums(bytes)[DOMAIN bytes]
  BY Zenon DEF Total, MapThenSumSet, MapThenFoldSet, Sums, SumsOf, Part

\* Every set of naturals that is not empty has a least element.
LEMMA LeastNat ==
  ASSUME NEW S \in SUBSET Nat, S # {}
  PROVE  \E m \in S : \A k \in S : m <= k
<1> DEFINE R == {ss \in Nat \X Nat : ss[1] < ss[2]}
<1>0. IsWellFoundedOn(R, Nat)
  BY NatLessThanWellFounded, Zenon DEF OpToRel
<1> HIDE DEF R
<1>1. PICK m \in S : \A y \in S : <<y, m>> \notin R
  BY <1>0, WFMin
<1>2. ASSUME NEW k \in S PROVE m <= k
  <2>1. <<k, m>> \notin R
    BY <1>1
  <2>2. k \in Nat /\ m \in Nat
    OBVIOUS
  <2>3. <<k, m>> \in Nat \X Nat => <<k, m>>[1] >= <<k, m>>[2]
    BY <2>1, <2>2 DEF R
  <2> QED BY <2>2, <2>3
<1> QED BY <1>2

\* Taking the chosen device out of a set leaves one that is smaller by one.
LEMMA OneLess ==
    ASSUME NEW D, IsFiniteSet(D), NEW s \in SUBSET D
    PROVE  /\ Cardinality(s) \in Nat /\ (Cardinality(s) = 0) = (s = {})
           /\ s # {} => /\ (CHOOSE x \in s : TRUE) \in s
                        /\ s \ {CHOOSE x \in s : TRUE} \in SUBSET D
                        /\ Cardinality(s \ {CHOOSE x \in s : TRUE}) = Cardinality(s) - 1
<1>1. IsFiniteSet(s)
  BY FS_Subset
<1>2. Cardinality(s) \in Nat /\ (Cardinality(s) = 0) = (s = {})
  BY <1>1, FS_CardinalityType, FS_EmptySet
<1>3. ASSUME s # {} PROVE (CHOOSE x \in s : TRUE) \in s
  BY <1>3, Zenon
<1>4. ASSUME NEW x \in s PROVE Cardinality(s \ {x}) = Cardinality(s) - 1
  BY <1>1, <1>2, FS_RemoveElement
<1> QED BY <1>2, <1>3, <1>4, Zenon

\* The sums are right for the sets of at most n devices.
SumsUpTo(bytes, f, n) ==
    \A s \in SUBSET DOMAIN bytes : Cardinality(s) <= n => f[s] = Part(bytes, f, s)

\* Sums of larger sets follow from those of smaller ones.
LEMMA SumsExtend ==
    ASSUME NEW bytes, Counted(bytes), NEW n \in Nat, NEW f \in [SUBSET DOMAIN bytes -> Nat], SumsUpTo(bytes, f, n)
    PROVE  \E g \in [SUBSET DOMAIN bytes -> Nat] : SumsUpTo(bytes, g, n + 1)
<1> DEFINE D == DOMAIN bytes
           g == [s \in SUBSET D |-> IF Cardinality(s) <= n THEN f[s] ELSE Part(bytes, f, s)]
<1>1. \A s \in SUBSET D : /\ Cardinality(s) \in Nat /\ (Cardinality(s) = 0) = (s = {})
                          /\ s # {} => /\ (CHOOSE x \in s : TRUE) \in s
                                       /\ s \ {CHOOSE x \in s : TRUE} \in SUBSET D
                                       /\ Cardinality(s \ {CHOOSE x \in s : TRUE}) = Cardinality(s) - 1
  BY OneLess DEF Counted
<1>2. ASSUME NEW s \in SUBSET D PROVE Part(bytes, f, s) \in Nat
  <2>1. CASE s = {}
    BY <2>1 DEF Part
  <2>2. CASE s # {}
    <3>1. bytes[CHOOSE x \in s : TRUE] \in Nat /\ f[s \ {CHOOSE x \in s : TRUE}] \in Nat
      BY <1>1, <2>2 DEF Counted
    <3> QED BY <2>2, <3>1 DEF Part
  <2> QED BY <2>1, <2>2
<1>3. g \in [SUBSET D -> Nat]
  BY <1>2
<1>4. ASSUME NEW s \in SUBSET D, Cardinality(s) <= n + 1 PROVE g[s] = Part(bytes, g, s)
  <2>1. Part(bytes, g, s) = Part(bytes, f, s)
    <3>1. CASE s = {}
      BY <3>1 DEF Part
    <3>2. CASE s # {}
      <4> DEFINE t == s \ {CHOOSE x \in s : TRUE}
      <4>1. t \in SUBSET D /\ Cardinality(t) = Cardinality(s) - 1 /\ Cardinality(s) \in Nat
        BY <1>1, <3>2
      <4>2. Cardinality(t) <= n
        BY <1>4, <4>1
      <4>3. g[t] = f[t]
        BY <4>1, <4>2
      <4> HIDE DEF g
      <4> QED BY <3>2, <4>3, Zenon DEF Part
    <3> QED BY <3>1, <3>2
  <2>2. g[s] = Part(bytes, f, s)
    BY DEF SumsUpTo
  <2> HIDE DEF g
  <2> QED BY <2>1, <2>2
<1> HIDE DEF g
<1> QED BY <1>3, <1>4 DEF SumsUpTo

\* There are sums of every size,
LEMMA SumsOfEverySize ==
    ASSUME NEW bytes, Counted(bytes)
    PROVE  \A n \in Nat : \E f \in [SUBSET DOMAIN bytes -> Nat] : SumsUpTo(bytes, f, n)
<1> DEFINE Missing == {n \in Nat : ~\E f \in [SUBSET DOMAIN bytes -> Nat] : SumsUpTo(bytes, f, n)}
<1>1. SUFFICES ASSUME Missing # {} PROVE FALSE
  OBVIOUS
<1>2. PICK m \in Missing : \A k \in Missing : m <= k
  BY <1>1, LeastNat
<1>3. CASE m = 0
  <2> DEFINE f == [s \in SUBSET DOMAIN bytes |-> 0]
  <2>1. f \in [SUBSET DOMAIN bytes -> Nat]
    OBVIOUS
  <2>2. ASSUME NEW s \in SUBSET DOMAIN bytes, Cardinality(s) <= 0 PROVE f[s] = Part(bytes, f, s)
    <3>0. Cardinality(s) \in Nat /\ (Cardinality(s) = 0) = (s = {})
      BY OneLess DEF Counted
    <3>1. s = {}
      BY <2>2, <3>0
    <3> QED BY <3>1 DEF Part
  <2> HIDE DEF f
  <2>3. SumsUpTo(bytes, f, 0)
    BY <2>2 DEF SumsUpTo
  <2> QED BY <1>3, <2>1, <2>3
<1>4. CASE m # 0
  <2>0. m \in Nat
    OBVIOUS
  <2>1. m - 1 \in Nat /\ m - 1 \notin Missing /\ (m - 1) + 1 = m
    <3> HIDE DEF Missing
    <3>1. ~(m <= m - 1) /\ m - 1 \in Nat /\ (m - 1) + 1 = m
      BY <1>4, <2>0
    <3> QED BY <1>2, <3>1
  <2>2. PICK f \in [SUBSET DOMAIN bytes -> Nat] : SumsUpTo(bytes, f, m - 1)
    BY <2>1
  <2>3. \E g \in [SUBSET DOMAIN bytes -> Nat] : SumsUpTo(bytes, g, (m - 1) + 1)
    BY <2>1, <2>2, SumsExtend
  <2> QED BY <2>1, <2>3
<1> QED BY <1>3, <1>4

\* so the function that Total defines is one.
LEMMA SumsAreSums ==
    ASSUME NEW bytes, Counted(bytes)
    PROVE  \A s \in SUBSET DOMAIN bytes : Sums(bytes)[s] = Part(bytes, Sums(bytes), s)
<1> DEFINE D == DOMAIN bytes
<1>1. Cardinality(D) \in Nat /\ IsFiniteSet(D)
  BY FS_CardinalityType DEF Counted
<1>2. PICK f \in [SUBSET D -> Nat] : SumsUpTo(bytes, f, Cardinality(D))
  BY <1>1, SumsOfEverySize
<1>3. \A s \in SUBSET D : Cardinality(s) <= Cardinality(D)
  BY <1>1, FS_Subset
<1>4. \A s \in SUBSET D : f[s] = Part(bytes, f, s)
  BY <1>2, <1>3 DEF SumsUpTo
<1>5. f = [s \in SUBSET D |-> Part(bytes, f, s)]
  BY <1>4
<1>6. SumsOf(bytes, f)
  BY <1>5 DEF SumsOf
<1>7. SumsOf(bytes, Sums(bytes))
  BY <1>6, Zenon DEF Sums
<1> QED BY <1>7, Zenon DEF SumsOf

\* The sum is at least what each device carried.
LEMMA TotalCountsEach ==
    ASSUME NEW bytes, Counted(bytes), NEW d \in DOMAIN bytes
    PROVE  Total(bytes) \in Nat /\ Total(bytes) >= bytes[d]
<1> DEFINE D == DOMAIN bytes
           f == Sums(bytes)
           Fine(s) == f[s] \in Nat /\ \A e \in s : f[s] >= bytes[e]
           Wrong == {n \in Nat : \E s \in SUBSET D : Cardinality(s) = n /\ ~Fine(s)}
<1>1. \A s \in SUBSET D : f[s] = Part(bytes, f, s)
  BY SumsAreSums
<1>2. \A s \in SUBSET D : /\ Cardinality(s) \in Nat /\ (Cardinality(s) = 0) = (s = {})
                          /\ s # {} => /\ (CHOOSE x \in s : TRUE) \in s
                                       /\ s \ {CHOOSE x \in s : TRUE} \in SUBSET D
                                       /\ Cardinality(s \ {CHOOSE x \in s : TRUE}) = Cardinality(s) - 1
  BY OneLess DEF Counted
<1> HIDE DEF f
<1>3. Wrong = {}
  <2>1. SUFFICES ASSUME Wrong # {} PROVE FALSE
    OBVIOUS
  <2>2. PICK m \in Wrong : \A k \in Wrong : m <= k
    BY <2>1, LeastNat
  <2>3. PICK s \in SUBSET D : Cardinality(s) = m /\ ~Fine(s)
    BY <2>2
  <2>4. CASE s = {}
    <3>1. f[s] = 0
      BY <1>1, <2>4 DEF Part
    <3> QED BY <2>3, <2>4, <3>1
  <2>5. CASE s # {}
    <3>1. PICK x \in s : x = CHOOSE y \in s : TRUE
      BY <1>2, <2>5
    <3> DEFINE t == s \ {x}
    <3>2. t \in SUBSET D /\ Cardinality(t) = m - 1 /\ m \in Nat
      BY <1>2, <2>3, <2>5, <3>1
    <3>3. m - 1 \in Nat /\ m - 1 \notin Wrong
      <4> HIDE DEF Wrong
      <4>1. m # 0
        BY <1>2, <2>3, <2>5
      <4>2. ~(m <= m - 1) /\ m - 1 \in Nat
        BY <3>2, <4>1
      <4> QED BY <2>2, <4>2
    <3>4. Fine(t)
      BY <3>2, <3>3
    <3>5. f[s] = bytes[x] + f[t]
      BY <1>1, <2>5, <3>1 DEF Part
    <3>6. \A e \in D : bytes[e] \in Nat
      BY DEF Counted
    <3>7. f[t] \in Nat /\ bytes[x] \in Nat /\ f[s] \in Nat
      BY <3>4, <3>5, <3>6
    <3>8. ASSUME NEW e \in s PROVE f[s] >= bytes[e]
      <4>1. bytes[e] \in Nat
        BY <3>6
      <4>2. CASE e = x
        BY <3>5, <3>7, <4>2
      <4>3. CASE e # x
        <5>1. f[t] >= bytes[e]
          BY <3>4, <4>3
        <5> QED BY <3>5, <3>7, <4>1, <5>1
      <4> QED BY <4>2, <4>3
    <3> QED BY <2>3, <3>7, <3>8
  <2> QED BY <2>4, <2>5
<1>4. Fine(D)
  BY <1>2, <1>3
<1>5. Total(bytes) = f[D]
  BY TotalIsASum DEF f
<1> QED BY <1>4, <1>5

\* The same with the bytes added up: whatever carried a byte makes the total
\* positive, so the two devices of dual_link do too.
THEOREM PassWasMeasured == Spec => []PassIsMeasured
<1>1. ASSUME Inv, PassIsBacked, pc = "done", exit = 0 PROVE PassIsMeasured
  <2>1. ASSUME NEW w \in Gated(setup)
        PROVE  \E ev \in documents : /\ ev.workload = w
                                     /\ \A c \in Counters(w, Mode(w, pods)) :
                                          Total(IF c = "ib" THEN ev.nic_bytes ELSE ev.nvlink_bytes) > 0
    <3>1. PICK ev \in documents :
             /\ ev.workload = w
             /\ \A c \in Counters(w, Mode(w, pods)) :
                  LET bytes == IF c = "ib" THEN ev.nic_bytes ELSE ev.nvlink_bytes
                  IN  IF w # "dual_link" THEN Total(bytes) > 0
                      ELSE \E devices \in SUBSET Carriers(bytes, ev.program.bytes) : Cardinality(devices) >= 2
      BY <1>1 DEF PassIsBacked
    <3>2. CountersOK(ev)
      BY <1>1 DEF Inv, RecordsOK
    <3>3. ASSUME NEW c \in Counters(w, Mode(w, pods))
          PROVE  Total(IF c = "ib" THEN ev.nic_bytes ELSE ev.nvlink_bytes) > 0
      <4> DEFINE bytes == IF c = "ib" THEN ev.nic_bytes ELSE ev.nvlink_bytes
      <4>1. Counted(bytes)
        BY <3>2 DEF CountersOK
      <4>2. IF w # "dual_link" THEN Total(bytes) > 0
            ELSE \E devices \in SUBSET Carriers(bytes, ev.program.bytes) : Cardinality(devices) >= 2
        BY <3>1
      <4> HIDE DEF bytes
      <4>3. CASE w = "dual_link"
        <5>1. PICK devices \in SUBSET Carriers(bytes, ev.program.bytes) : Cardinality(devices) >= 2
          BY <4>2, <4>3
        <5>2. devices # {}
          BY <5>1, FS_EmptySet
        <5>3. PICK d \in DOMAIN bytes : bytes[d] > 0
          BY <5>2 DEF Carriers
        <5>4. Total(bytes) \in Nat /\ Total(bytes) >= bytes[d] /\ bytes[d] \in Nat
          BY <4>1, TotalCountsEach DEF Counted
        <5>5. Total(bytes) > 0
          BY <5>3, <5>4
        <5> QED BY <5>5 DEF bytes
      <4>4. CASE w # "dual_link"
        BY <4>2, <4>4 DEF bytes
      <4> QED BY <4>3, <4>4
    <3> QED BY <3>1, <3>3
  <2>2. \A w \in Gated(setup) : \E k \in DOMAIN records : records[k].bench = w /\ records[k].measured = w
    BY <1>1 DEF PassIsBacked
  <2>3. ASSUME baseline # NoBaseline
        PROVE  /\ \A j, k \in DOMAIN records : CaseKey(records[j]) = CaseKey(records[k]) => j = k
               /\ \A k \in DOMAIN records :
                  /\ \E c \in DOMAIN baseline.cases : baseline.cases[c] = records[k].topology
                  /\ (/\ CaseKey(records[k]) \in DOMAIN baseline.cases
                      /\ records[k].topology = baseline.cases[CaseKey(records[k])])
                         => against[k] \in {"pass", "incompatible"}
    BY <1>1, <2>3 DEF PassIsBacked
  <2> QED BY <2>1, <2>2, <2>3 DEF PassIsMeasured
<1>2. Inv /\ PassIsBacked => PassIsMeasured
  BY <1>1 DEF PassIsMeasured
<1> QED BY <1>2, Invariant, PassWasBacked, PTL
=============================================================================
