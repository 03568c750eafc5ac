----------------------------- MODULE RemoteRun -----------------------------
(***************************************************************************)
(* One remote run on Kubernetes, end to end: the CLI's pipeline             *)
(* (remote/core.py, _pipeline) over the k8s backend (remote/k8s/backend.py), *)
(* the Job and its pods, each pod as PodContract describes it, a connection *)
(* and credentials that may fail at every kubectl call, SIGINT and SIGTERM  *)
(* at every point, and a CLI that may be killed.                            *)
(*                                                                          *)
(* A kubectl call that fails raises InfraError (a lost connection, or an    *)
(* error it does not know) or UsageError (KubeError: forbidden or expired   *)
(* credentials); one that changes something may have changed it all the     *)
(* same.  An error of any other class may come up at any line: the try      *)
(* block of _pipeline makes it an infrastructure error, and outside it the  *)
(* entry point (ostia_dev/cli.py) ends the command with exit 1.  Windows    *)
(* and limits may end at any moment.                                        *)
(***************************************************************************)
EXTENDS Integers, FiniteSets

CONSTANTS
    Pods,        \* --pods
    Keep,        \* --keep-on-failure is set
    Signals,     \* the signals the CLI may get: a subset of {"INT", "TERM"}
    MaxSignals,  \* bound: how many of them
    CallsFail    \* kubectl calls may fail

ASSUME RunAssumption ==
    /\ Pods \in Nat \ {0}
    /\ Keep \in BOOLEAN /\ CallsFail \in BOOLEAN
    /\ Signals \subseteq {"INT", "TERM"}
    /\ MaxSignals \in Nat

Ranks == 1..Pods

VARIABLES
    cli,        \* where the CLI is
    at,         \* the rank a loop over the pods is at
    flags,      \* the run's booleans that are true
    seen,       \* ranks whose finished line the CLI has read
    got,        \* per rank, what the collected steps.json says
    verified,   \* teardown()'s answer
    exit,       \* the exit code, NoExit before
    signals,    \* signals received
    asked,      \* history: kubectl delete ran for this run's Job
    job,        \* the Job object
    owned,      \* the Secret, the Service and the run's NetworkPolicy exist
    pod,        \* per rank: absent, up, or down (Succeeded or Failed)
    copied,     \* ranks whose copy of the code is complete and counted
    ready,      \* ranks that have the ready marker
    marked,     \* ranks that have the collected marker
    phase,      \* PodContract, per rank
    report,     \* PodContract, per rank
    said,       \* ranks whose log has the finished line
    settled     \* history: the test result a rank's supervisor recorded

cliVars == <<cli, at, flags, seen, got, verified, exit, signals, asked>>
supVars == <<phase, report, said, settled>>
podVars == <<pod, supVars>>
markers == <<copied, ready, marked>>
cluster == <<job, owned, podVars, markers>>
vars == <<cliVars, cluster>>

NoExit == -1
Flags == {"created", "kept", "interrupted", "usage", "infra", "failed", "unsettled",
          "unexpected"}   \* history: ostia-dev failed unexpectedly, and said so

\* The points between gc and the end of the try block: an exception leads to teardown.
InTry == {"start", "apply", "own", "unsuspend", "schedule", "upload", "mark", "stream",
          "collect", "settle", "touch", "judge"}
InTeardown == {"td_enter", "td_kept", "td_delete", "td_verify"}
Over == {"ended", "crashed"}
CliPcs == {"gc"} \cup InTry \cup InTeardown \cup {"finish"} \cup Over

AllGone == job = "none" /\ \A r \in Ranks : pod[r] = "absent"

Init ==
    /\ cli = "gc" /\ at = 1 /\ flags = {} /\ seen = {}
    /\ got = [r \in Ranks |-> "none"]
    /\ verified = FALSE /\ exit = NoExit /\ signals = 0 /\ asked = FALSE
    /\ job = "none" /\ owned = FALSE
    /\ pod = [r \in Ranks |-> "absent"]
    /\ copied = {} /\ ready = {} /\ marked = {}
    /\ phase = [r \in Ranks |-> "waiting"]
    /\ report = [r \in Ranks |-> "none"]
    /\ said = {}
    /\ settled = [r \in Ranks |-> "none"]

-----------------------------------------------------------------------------
(* Errors and exit codes.                                                   *)

\* InfraError, KubeError or UsageError out of the try block.
Raise(e) ==
    /\ CallsFail
    /\ flags' = flags \cup {e}
    /\ cli' = "td_enter"

AnyError == {"infra", "usage"}

\* What a failed call leaves: refused (usage), it changed nothing.
After(e, before, after) == IF e = "usage" THEN {before} ELSE {before, after}

\* final_exit: Ctrl-C, then usage, then infrastructure, then the tests, then teardown.
FinalExit(f, ok) ==
    IF "interrupted" \in f THEN 130
    ELSE IF "usage" \in f THEN 2
    ELSE IF "infra" \in f THEN 3
    ELSE IF "failed" \in f THEN 1
    ELSE IF ok THEN 0 ELSE 4

-----------------------------------------------------------------------------
(* gc, outside the try block: nothing of this run exists yet.               *)

Gc ==
    /\ cli = "gc"
    /\ cli' = "start"
    /\ UNCHANGED <<at, flags, seen, got, verified, exit, signals, asked, cluster>>

GcFails ==
    /\ cli = "gc" /\ CallsFail
    /\ exit' \in {2, 3}
    /\ cli' = "ended"
    /\ UNCHANGED <<at, flags, seen, got, verified, signals, asked, cluster>>

-----------------------------------------------------------------------------
(* start                                                                    *)

\* The cache volume, when asked for: before created is set.
Start ==
    /\ cli = "start"
    /\ cli' = "apply"
    /\ UNCHANGED <<at, flags, seen, got, verified, exit, signals, asked, cluster>>

\* Mutant: the Job is not created suspended.
ApplyUnsuspended ==
    /\ cli = "apply"
    /\ flags' = flags \cup {"created"}
    /\ job' = "active"
    /\ cli' = "own"
    /\ UNCHANGED <<at, seen, got, verified, exit, signals, asked, owned, podVars, markers>>

\* created is set before the call: the reply may be lost.
Apply ==
    /\ cli = "apply"
    /\ flags' = flags \cup {"created"}
    /\ job' = "suspended"
    /\ cli' = "own"
    /\ UNCHANGED <<at, seen, got, verified, exit, signals, asked, owned, podVars, markers>>

\* Mutant: created is set once the reply is there.
ApplyFailsUnmarked ==
    /\ cli = "apply" /\ CallsFail
    /\ \E e \in AnyError :
          flags' = flags \cup {e} /\ job' \in After(e, "none", "suspended")
    /\ cli' = "td_enter"
    /\ UNCHANGED <<at, seen, got, verified, exit, signals, asked, owned, podVars, markers>>

ApplyFails ==
    /\ cli = "apply" /\ CallsFail
    /\ \E e \in AnyError :
          flags' = flags \cup {"created", e} /\ job' \in After(e, "none", "suspended")
    /\ cli' = "td_enter"
    /\ UNCHANGED <<at, seen, got, verified, exit, signals, asked, owned, podVars, markers>>

\* The Secret, the Service and the policy: before any pod may run.
Own ==
    /\ cli = "own"
    /\ owned' = TRUE
    /\ cli' = "unsuspend"
    /\ UNCHANGED <<at, flags, seen, got, verified, exit, signals, asked, job, podVars, markers>>

OwnFails ==
    /\ cli = "own"
    /\ \E e \in AnyError : Raise(e) /\ owned' \in After(e, FALSE, TRUE)
    /\ UNCHANGED <<at, seen, got, verified, exit, signals, asked, job, podVars, markers>>

Unsuspend ==
    /\ cli = "unsuspend"
    /\ job' = IF job = "suspended" THEN "active" ELSE job
    /\ cli' = "schedule"
    /\ UNCHANGED <<at, flags, seen, got, verified, exit, signals, asked, owned, podVars, markers>>

UnsuspendFails ==
    /\ cli = "unsuspend"
    /\ \E e \in AnyError :
          Raise(e) /\ job' \in After(e, job, IF job = "suspended" THEN "active" ELSE job)
    /\ UNCHANGED <<at, seen, got, verified, exit, signals, asked, owned, podVars, markers>>

\* _wait_running: every pod is Running.
Scheduled ==
    /\ cli = "schedule"
    /\ \A r \in Ranks : pod[r] = "up"
    /\ cli' = "upload" /\ at' = 1
    /\ UNCHANGED <<flags, seen, got, verified, exit, signals, asked, cluster>>

\* The schedule timeout, an image or volume error or a dead pod is infra, a
\* FailedCreate event is usage.
NotScheduled ==
    /\ cli = "schedule"
    /\ \E r \in Ranks : pod[r] # "up"
    /\ \E e \in AnyError : flags' = flags \cup {e}
    /\ cli' = "td_enter"
    /\ UNCHANGED <<at, seen, got, verified, exit, signals, asked, cluster>>

-----------------------------------------------------------------------------
(* upload: every copy first, then the ready markers.                        *)

NextRank(then) ==
    IF at < Pods THEN at' = at + 1 /\ cli' = cli ELSE at' = 1 /\ cli' = then

Upload ==
    /\ cli = "upload"
    /\ pod[at] = "up"
    /\ copied' = copied \cup {at}
    /\ NextRank("mark")
    /\ UNCHANGED <<flags, seen, got, verified, exit, signals, asked, job, owned, podVars, ready, marked>>

\* touch ready: the code of the remote command is not looked at.
MarkReady ==
    /\ cli = "mark"
    /\ pod[at] = "up"
    /\ \E done \in BOOLEAN : ready' = IF done THEN ready \cup {at} ELSE ready
    /\ NextRank("stream")
    /\ UNCHANGED <<flags, seen, got, verified, exit, signals, asked, job, owned, podVars, copied, marked>>

MarkReadyFails ==
    /\ cli = "mark"
    /\ \E e \in AnyError :
          Raise(e) /\ ready' \in After(e, ready, IF pod[at] = "up" THEN ready \cup {at} ELSE ready)
    /\ UNCHANGED <<at, seen, got, verified, exit, signals, asked, job, owned, podVars, copied, marked>>

-----------------------------------------------------------------------------
(* stream and _poll_ranks: read the logs until every pod has said it has    *)
(* finished.  A lost connection is retried; see LogStream for the lines.    *)

SeesFinished ==
    /\ cli = "stream"
    /\ \E r \in said \ seen : pod[r] # "absent" /\ seen' = seen \cup {r}
    /\ UNCHANGED <<cli, at, flags, got, verified, exit, signals, asked, cluster>>

\* A step's own output may hold a line that reads like the finished line.
SeesItsLookalike ==
    /\ cli = "stream"
    /\ \E r \in Ranks \ seen :
          pod[r] # "absent" /\ phase[r] = "running" /\ seen' = seen \cup {r}
    /\ UNCHANGED <<cli, at, flags, got, verified, exit, signals, asked, cluster>>

AllSeen ==
    /\ cli = "stream"
    /\ seen = Ranks
    /\ cli' = "collect" /\ at' = 1
    /\ UNCHANGED <<flags, seen, got, verified, exit, signals, asked, cluster>>

\* Mutant: a pod that is gone altogether is not noticed.
SeesEndedPod ==
    /\ cli = "stream"
    /\ seen # Ranks
    /\ \E r \in Ranks : pod[r] = "down"
    /\ flags' = flags \cup {"infra"}
    /\ cli' = "td_enter"
    /\ UNCHANGED <<at, seen, got, verified, exit, signals, asked, cluster>>

\* A pod is dead or gone: _terminal.
SeesDeadPod ==
    /\ cli = "stream"
    /\ seen # Ranks
    /\ \E r \in Ranks : pod[r] # "up"
    /\ flags' = flags \cup {"infra"}
    /\ cli' = "td_enter"
    /\ UNCHANGED <<at, seen, got, verified, exit, signals, asked, cluster>>

-----------------------------------------------------------------------------
(* Calls that only read, or whose change nobody else sees, when they fail.  *)

\* The cache volume, a status poll, a copy in, the log stream (once the
\* connection is lost for good, or at once for another error), a copy out.
CallFails ==
    /\ \/ cli \in {"start", "schedule", "upload", "collect"}
       \/ cli = "stream" /\ seen # Ranks
    /\ \E e \in AnyError : Raise(e)
    /\ UNCHANGED <<at, seen, got, verified, exit, signals, asked, cluster>>

\* exec into a pod that is not there.
Unreachable ==
    /\ cli \in {"upload", "mark", "collect"}
    /\ pod[at] # "up"
    /\ flags' = flags \cup {"infra"}
    /\ cli' = "td_enter"
    /\ UNCHANGED <<at, seen, got, verified, exit, signals, asked, cluster>>

-----------------------------------------------------------------------------
(* collect, then the verdict.                                               *)

\* Mutant: a plan that did not get to its end counts as passed.
ReadsAbsentAsPass(r) == IF report[r] = "none" THEN "pass" ELSE report[r]

\* What guards.evaluate makes of the steps.json a rank has now.
Reads(r) == IF report[r] = "none" THEN "infra" ELSE report[r]

\* The control tar and the artifact tar of one rank; the copy of a pod that is
\* still running has not "done" in it (_failed).
Collect ==
    /\ cli = "collect"
    /\ pod[at] = "up"
    /\ got' = [got EXCEPT ![at] = Reads(at)]
    /\ flags' = IF phase[at] = "finished" THEN flags ELSE flags \cup {"unsettled"}
    /\ NextRank("settle")
    /\ UNCHANGED <<seen, verified, exit, signals, asked, cluster>>

\* Keep the pods of a failed run, or mark them collected.
Settle ==
    /\ cli = "settle"
    /\ IF Keep /\ ("unsettled" \in flags \/ \E r \in Ranks : got[r] # "pass")
       THEN flags' = flags \cup {"kept"} /\ cli' = "judge"
       ELSE flags' = flags /\ cli' = "touch"
    /\ at' = 1
    /\ UNCHANGED <<seen, got, verified, exit, signals, asked, cluster>>

\* touch collected: best effort, an error is only reported.
TouchCollected ==
    /\ cli = "touch"
    /\ marked' \in IF pod[at] = "up" THEN {marked, marked \cup {at}} ELSE {marked}
    /\ NextRank("judge")
    /\ UNCHANGED <<flags, seen, got, verified, exit, signals, asked, job, owned, podVars, copied, ready>>

\* The junit and summary guards may still turn a pass into a failure.
Judged(g) == IF g = "pass" THEN {"pass", "fail", "infra"} ELSE {g}

\* Mutant: a failed test wins over a rank with no result.
CombineFailFirst(v) ==
    IF \E r \in Ranks : v[r] = "fail" THEN {"failed"}
    ELSE IF \E r \in Ranks : v[r] = "infra" THEN {"infra"} ELSE {}

\* combine: infrastructure wins over a failed test, which wins over a pass.
Combine(v) ==
    IF \E r \in Ranks : v[r] = "infra" THEN {"infra"}
    ELSE IF \E r \in Ranks : v[r] = "fail" THEN {"failed"} ELSE {}

\* guards.evaluate per rank and combine; extracting or merging may raise after it.
Judge ==
    /\ cli = "judge"
    /\ \E v \in [Ranks -> {"pass", "fail", "infra"}] :
          /\ \A r \in Ranks : v[r] \in Judged(got[r])
          /\ flags' \in {flags \cup Combine(v), flags \cup Combine(v) \cup {"infra"}}
    /\ cli' = "td_enter"
    /\ UNCHANGED <<at, seen, got, verified, exit, signals, asked, cluster>>

-----------------------------------------------------------------------------
(* teardown and _finish                                                     *)

Teardown ==
    /\ cli = "td_enter"
    /\ IF "created" \notin flags THEN verified' = TRUE /\ cli' = "finish"
       ELSE verified' = FALSE /\ cli' = IF "kept" \in flags THEN "td_kept" ELSE "td_delete"
    /\ UNCHANGED <<at, flags, seen, got, exit, signals, asked, cluster>>

\* _wait_kept: the window ended, or no pod runs any more.
KeptOver ==
    /\ cli = "td_kept"
    /\ cli' = "td_delete"
    /\ UNCHANGED <<at, flags, seen, got, verified, exit, signals, asked, cluster>>

\* Only LostConnection is retried there; any other error leaves teardown.
KeptFails ==
    /\ cli = "td_kept" /\ CallsFail
    /\ cli' = "finish"
    /\ UNCHANGED <<at, flags, seen, got, verified, exit, signals, asked, cluster>>

Delete ==
    /\ cli = "td_delete"
    /\ asked' = TRUE
    /\ job' = "none"
    /\ cli' = "td_verify"
    /\ UNCHANGED <<at, flags, seen, got, verified, exit, signals, owned, podVars, markers>>

DeleteFails ==
    /\ cli = "td_delete" /\ CallsFail
    /\ asked' = TRUE
    /\ \E e \in AnyError : job' \in After(e, job, "none")
    /\ cli' = "finish"
    /\ UNCHANGED <<at, flags, seen, got, verified, exit, signals, owned, podVars, markers>>

Verified ==
    /\ cli = "td_verify"
    /\ AllGone
    /\ verified' = TRUE
    /\ cli' = "finish"
    /\ UNCHANGED <<at, flags, seen, got, exit, signals, asked, cluster>>

\* TEARDOWN_WAIT passed with objects left, or the status call failed.
NotVerified ==
    /\ cli = "td_verify"
    /\ ~AllGone \/ CallsFail
    /\ cli' = "finish"
    /\ UNCHANGED <<at, flags, seen, got, verified, exit, signals, asked, cluster>>

Finish ==
    /\ cli = "finish"
    /\ exit' = FinalExit(flags, verified)
    /\ cli' = "ended"
    /\ UNCHANGED <<at, flags, seen, got, verified, signals, asked, cluster>>

-----------------------------------------------------------------------------
(* An error that is no OstiaError, wherever the CLI is.  One at a call that  *)
(* changes the cluster came before the change: the next step stands for one  *)
(* that came after it.                                                       *)

UnexpectedInTry ==
    /\ cli \in InTry
    /\ flags' = flags \cup {"infra"}
    /\ cli' = "td_enter"
    /\ UNCHANGED <<at, seen, got, verified, exit, signals, asked, cluster>>

\* In gc, teardown and _finish: only OstiaApp catches it.
UnexpectedOutside ==
    /\ cli \in {"gc", "finish"} \cup InTeardown
    /\ flags' = flags \cup {"unexpected"}
    /\ exit' = 1
    /\ cli' = "ended"
    /\ UNCHANGED <<at, seen, got, verified, signals, asked, cluster>>

-----------------------------------------------------------------------------
(* SIGINT and SIGTERM: KeyboardInterrupt wherever the CLI is.               *)

Signal(s) == s \in Signals /\ signals < MaxSignals /\ signals' = signals + 1

\* In gc, and in _finish: nothing catches it below the entry point.
SignalOutside ==
    /\ \E s \in Signals : Signal(s)
    /\ cli \in {"gc", "finish"}
    /\ exit' = 130
    /\ cli' = "ended"
    /\ UNCHANGED <<at, flags, seen, got, verified, asked, cluster>>

\* In the try block; a call that changes something may have changed it.
SignalInTry ==
    /\ \E s \in Signals : Signal(s)
    /\ cli \in InTry
    /\ cli' = "td_enter"
    /\ \/ /\ flags' = flags \cup {"interrupted"}
          /\ UNCHANGED <<job, owned, copied, ready, marked>>
       \/ /\ cli = "apply"
          /\ flags' = flags \cup {"interrupted", "created"}
          /\ job' \in {"none", "suspended"}
          /\ UNCHANGED <<owned, copied, ready, marked>>
       \/ /\ cli = "own"
          /\ flags' = flags \cup {"interrupted"}
          /\ owned' = TRUE
          /\ UNCHANGED <<job, copied, ready, marked>>
       \/ /\ cli = "unsuspend" /\ job = "suspended"
          /\ flags' = flags \cup {"interrupted"}
          /\ job' = "active"
          /\ UNCHANGED <<owned, copied, ready, marked>>
       \/ /\ cli = "mark" /\ pod[at] = "up"
          /\ flags' = flags \cup {"interrupted"}
          /\ ready' = ready \cup {at}
          /\ UNCHANGED <<job, owned, copied, marked>>
       \/ /\ cli = "touch" /\ pod[at] = "up"
          /\ flags' = flags \cup {"interrupted"}
          /\ marked' = marked \cup {at}
          /\ UNCHANGED <<job, owned, copied, ready>>
    /\ UNCHANGED <<at, seen, got, verified, exit, asked, podVars>>

\* On the way to the delete, and while waiting for the objects to go.
SignalInTeardown ==
    /\ \E s \in Signals : Signal(s)
    /\ cli \in {"td_enter", "td_verify"}
    /\ flags' = flags \cup {"interrupted"}
    /\ verified' = FALSE
    /\ cli' = "finish"
    /\ UNCHANGED <<at, seen, got, exit, asked, cluster>>

\* _wait_kept catches it and goes on to the delete.
SignalWhileKept ==
    /\ \E s \in Signals : Signal(s)
    /\ cli = "td_kept"
    /\ flags' = flags \cup {"interrupted"}
    /\ cli' = "td_delete"
    /\ UNCHANGED <<at, seen, got, verified, exit, asked, cluster>>

\* _delete ignores SIGINT; SIGTERM still raises, and kubectl is killed.
SigtermInDelete ==
    /\ Signal("TERM")
    /\ cli = "td_delete"
    /\ flags' = flags \cup {"interrupted"}
    /\ \E through \in BOOLEAN :
          /\ asked' = through
          /\ job' = IF through THEN "none" ELSE job
    /\ cli' = "finish"
    /\ UNCHANGED <<at, seen, got, verified, exit, owned, podVars, markers>>

\* SIGKILL, a closed laptop.
Crash ==
    /\ cli \notin Over
    /\ cli' = "crashed"
    /\ UNCHANGED <<at, flags, seen, got, verified, exit, signals, asked, cluster>>

-----------------------------------------------------------------------------
(* The supervisor in each pod, as PodContract has it.                       *)

SupervisorStep(r, ph, rep) ==
    /\ phase' = [phase EXCEPT ![r] = ph]
    /\ report' = [report EXCEPT ![r] = rep]

Arrive(r) ==
    /\ pod[r] = "up" /\ phase[r] = "waiting" /\ r \in ready
    /\ SupervisorStep(r, "running", report[r])
    /\ UNCHANGED <<cliVars, job, owned, pod, markers, said, settled>>

GiveUp(r) ==
    /\ pod[r] = "up" /\ phase[r] = "waiting"
    /\ SupervisorStep(r, "exited", "infra")
    /\ pod' = [pod EXCEPT ![r] = "down"]
    /\ UNCHANGED <<cliVars, job, owned, markers, said, settled>>

RecordsResult(r) ==
    /\ pod[r] = "up" /\ phase[r] = "running" /\ report[r] = "none"
    /\ \E res \in {"pass", "fail"} :
          SupervisorStep(r, "running", res) /\ settled' = [settled EXCEPT ![r] = res]
    /\ UNCHANGED <<cliVars, job, owned, pod, markers, said>>

SaysFinished(r) ==
    /\ pod[r] = "up" /\ phase[r] = "running"
    /\ SupervisorStep(r, "finished", Reads(r))
    /\ said' = said \cup {r}
    /\ UNCHANGED <<cliVars, job, owned, pod, markers, settled>>

\* Collected, or its collection window is over.
Leave(r) ==
    /\ pod[r] = "up" /\ phase[r] = "finished"
    /\ SupervisorStep(r, "exited", report[r])
    /\ pod' = [pod EXCEPT ![r] = "down"]
    /\ UNCHANGED <<cliVars, job, owned, markers, said, settled>>

-----------------------------------------------------------------------------
(* The cluster: the Job controller, the kubelet, the garbage collector.     *)

PodStarts(r) ==
    /\ job = "active" /\ pod[r] = "absent"
    /\ pod' = [pod EXCEPT ![r] = "up"]
    /\ UNCHANGED <<cliVars, job, owned, markers, supVars>>

\* Mutant: the TERM trap leaves the report as it is.
KilledKeepsReport(r) == SupervisorStep(r, "exited", report[r])

\* Whatever the supervisor had recorded, a killed pod's run is terminated.
Killed(r) == SupervisorStep(r, "exited", IF phase[r] = "exited" THEN report[r] ELSE "infra")

\* Evicted, preempted or out of memory.
PodLost(r) ==
    /\ pod[r] = "up"
    /\ pod' = [pod EXCEPT ![r] = "down"]
    /\ Killed(r)
    /\ UNCHANGED <<cliVars, job, owned, markers, said, settled>>

\* Mutant: no activeDeadlineSeconds.
JobEndsWithItsPods ==
    /\ job = "active"
    /\ \E r \in Ranks : pod[r] = "down"
    /\ job' = "ended"
    /\ UNCHANGED <<cliVars, owned, podVars, markers>>

\* A pod ended with backoffLimit 0, all of them ended, or the deadline passed.
JobEnds ==
    /\ job = "active"
    /\ job' = "ended"
    /\ UNCHANGED <<cliVars, owned, podVars, markers>>

\* The pods of a Job that is over or deleted go, by TERM if they still run.
PodRemoved(r) ==
    /\ job \in {"none", "ended"} /\ pod[r] # "absent"
    /\ pod' = [pod EXCEPT ![r] = "absent"]
    /\ Killed(r)
    /\ UNCHANGED <<cliVars, job, owned, markers, said, settled>>

\* ttlSecondsAfterFinished; the owned objects go with the Job.
TtlDeletes ==
    /\ job = "ended"
    /\ job' = "none"
    /\ UNCHANGED <<cliVars, owned, podVars, markers>>

\* The owner's next run deletes a Job past its expires annotation.
NextRunGc ==
    /\ cli \in Over /\ job # "none"
    /\ job' = "none"
    /\ UNCHANGED <<cliVars, owned, podVars, markers>>

-----------------------------------------------------------------------------
CliMoves ==
    \/ Gc \/ Start \/ Apply \/ Own \/ Unsuspend \/ Scheduled \/ NotScheduled
    \/ Upload \/ MarkReady \/ SeesFinished \/ AllSeen \/ SeesDeadPod \/ Unreachable
    \/ Collect \/ Settle \/ TouchCollected \/ Judge
    \/ Teardown \/ KeptOver \/ Delete \/ Verified \/ NotVerified \/ Finish

CallsGoWrong ==
    \/ GcFails \/ ApplyFails \/ OwnFails \/ UnsuspendFails \/ MarkReadyFails
    \/ CallFails \/ KeptFails \/ DeleteFails \/ UnexpectedInTry \/ UnexpectedOutside

SignalsArrive ==
    \/ SignalOutside \/ SignalInTry \/ SignalInTeardown \/ SignalWhileKept \/ SigtermInDelete

PodMoves(r) ==
    Arrive(r) \/ GiveUp(r) \/ RecordsResult(r) \/ SaysFinished(r) \/ Leave(r)

ClusterMoves ==
    \/ \E r \in Ranks : PodStarts(r) \/ PodLost(r) \/ PodRemoved(r) \/ PodMoves(r)
    \/ JobEnds \/ TtlDeletes \/ NextRunGc

Done == cli \in Over /\ AllGone /\ UNCHANGED vars

Next ==
    \/ CliMoves \/ SeesItsLookalike \/ CallsGoWrong \/ SignalsArrive \/ Crash
    \/ ClusterMoves \/ Done

(***************************************************************************)
(* The CLI keeps going, and its windows end; an unsuspended Job ends by its *)
(* deadline, its pods go and its TTL passes.  No call has to fail, no pod   *)
(* has to start or finish, and nobody has to run the CLI again.             *)
(***************************************************************************)
Fairness ==
    /\ WF_vars(CliMoves)
    /\ WF_vars(JobEnds)
    /\ WF_vars(TtlDeletes)
    /\ \A r \in Ranks : WF_vars(PodRemoved(r))

Spec == Init /\ [][Next]_vars
FairSpec == Spec /\ Fairness

-----------------------------------------------------------------------------
\* Every variable of the model holds what the code could put there.
TypeOK ==
    /\ cli \in CliPcs /\ at \in Ranks /\ flags \subseteq Flags /\ seen \subseteq Ranks
    /\ got \in [Ranks -> {"none", "pass", "fail", "infra"}]
    /\ verified \in BOOLEAN /\ exit \in {NoExit, 0, 1, 2, 3, 4, 130}
    /\ signals \in 0..MaxSignals /\ asked \in BOOLEAN
    /\ job \in {"none", "suspended", "active", "ended"} /\ owned \in BOOLEAN
    /\ pod \in [Ranks -> {"absent", "up", "down"}]
    /\ copied \subseteq Ranks /\ ready \subseteq Ranks /\ marked \subseteq Ranks
    /\ phase \in [Ranks -> {"waiting", "running", "finished", "exited"}]
    /\ report \in [Ranks -> {"none", "pass", "fail", "infra"}]
    /\ said \subseteq Ranks
    /\ settled \in [Ranks -> {"none", "pass", "fail"}]

\* Exit 0 is earned: every pod's supervisor recorded a pass of its whole plan,
\* also when a step printed a line that looks like the finished line, and
\* nothing of the run is left in the cluster (core.py final_exit, _pipeline).
ExitZeroIsEarned ==
    exit = 0 => AllGone /\ \A r \in Ranks : settled[r] = "pass"

\* The exit 1 that _pipeline returns is a test result: every pod recorded one.  A
\* pod that was evicted, timed out or never got the code makes it exit 3 instead.
\* The other exit 1 is OstiaApp's, for an error outside the try block, and it
\* prints that ostia-dev failed unexpectedly (core.py final_exit, cli.py).
ExitOneIsATestResult ==
    exit = 1 /\ "unexpected" \notin flags => \A r \in Ranks : settled[r] # "none"

\* A teardown that says verified left nothing, and nothing comes back: not the
\* Job of an apply whose reply was lost, nor a pod (backend.teardown).
VerifiedMeansGone == cli \in {"finish", "ended"} /\ verified => AllGone

\* No pod is told to leave before the results of every rank are copied out, and
\* none at all when the run is kept for debugging (backend.collect).
MarkedWhenCollected ==
    marked # {} => "kept" \notin flags /\ \A r \in Ranks : got[r] # "none"

\* No pod runs before its NetworkPolicy and its Secret exist (RFC-0005 4.2).
NoPodBeforeItsPolicy == \A r \in Ranks : pod[r] # "absent" => owned

\* No rank runs a step before every rank has its whole copy of the code (4.11).
NoStepBeforeEveryCopy == \A r \in Ranks : phase[r] \in {"running", "finished"} => copied = Ranks

\* Nothing of a run happens before what must precede it, whichever calls fail
\* and whenever signals come: the policy before a pod, every rank's copy before
\* a step, every rank's results before a pod may leave (start, upload, collect).
NothingTooEarly == NoPodBeforeItsPolicy /\ NoStepBeforeEveryCopy /\ MarkedWhenCollected

\* Each pod behaves as the supervisor promises.
PodOf(r) == INSTANCE PodContract WITH phase <- phase[r], report <- report[r]
PodsKeepTheContract ==
    /\ \A r \in Ranks : PodOf(r)!Init
    /\ [][\A r \in Ranks : [PodOf(r)!Next]_<<phase[r], report[r]>>]_supVars

\* Unless it is killed the CLI ends: no pod and no lost connection holds it.
CliEnds == <>(cli \in Over)

\* An unsuspended run ends by itself, whatever happens to the CLI (4.8).
RunEndsByItself == (job = "active") ~> AllGone

=============================================================================
