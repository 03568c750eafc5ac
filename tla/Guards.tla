------------------------------ MODULE Guards ------------------------------
(***************************************************************************)
(* The verdict on a finished run (remote/guards.py): what the CLI concludes *)
(* from the steps.json and the junit files it copied out of each pod.       *)
(*                                                                          *)
(* A step is named by its position in the plan; None (0) stands for         *)
(* Python's None.  A junit file is [valid, cases], a case is [gpu, skipped]: *)
(* nothing else of the XML reaches the verdict.  Messages are left out.     *)
(***************************************************************************)
EXTENDS Integers, Sequences

None == 0
\* The name evaluate() gives a wrong configure summary.
Configure == -1

\* The kinds supervisor.sh knows; "other" stands for any kind it refuses.
StepKinds == {"preflight", "install", "build", "command", "report"}
Kinds == StepKinds \cup {"other"}

\* What steps.json may hold in its "state" and "code_wait" fields.
States == {"waiting", "running", "done", "code_wait_timeout", "timeout", "terminated"}
CodeWaits == {"pending", "ok", "timeout"}
Results == {"ok", "failed", "timeout", "terminated"}

Verdict(code, infra, step) ==
    [test_code |-> code, infra |-> infra, failing_step |-> step]

Infra(step) == Verdict(0, TRUE, step)
Passed == Verdict(0, FALSE, None)

Names(ran) == [k \in DOMAIN ran |-> ran[k].name]
LastName(ran) == IF ran = <<>> THEN None ELSE ran[Len(ran)].name

\* The first position of a sequence whose element satisfies Test, else 0.
FirstWith(s, Test(_)) ==
    LET hits == {k \in DOMAIN s : Test(s[k])}
    IN  IF hits = {} THEN 0 ELSE CHOOSE k \in hits : \A j \in hits : k <= j

\* A step that counts against the run: it failed and it is not a report.
Failing(e) == e.code # 0 /\ e.kind # "report"

\* Mutant: a failed install is a failed test.
StepVerdictAlwaysTest(e) == Verdict(1, FALSE, e.name)

\* What a failing step makes of the run: preflight and install are not tests.
StepVerdict(e) ==
    IF e.kind \in {"preflight", "install"} THEN Infra(e.name) ELSE Verdict(1, FALSE, e.name)

\* The step a junit problem is blamed on: the last command, else the last step.
CommandName(ran) ==
    LET cmds == {k \in DOMAIN ran : ran[k].kind = "command"}
    IN  IF cmds = {} THEN LastName(ran)
        ELSE ran[CHOOSE k \in cmds : \A j \in cmds : j <= k].name

\* Mutant: a plan that was begun counts as complete.
IncompleteIfNoneRan(ran, planned) == ran = <<>> /\ planned # <<>>

\* The supervisor stopped before the end of the plan.
Incomplete(ran, planned) == Names(ran) # planned

SkippedGpu(file) == \E c \in file.cases : c.gpu /\ c.skipped

\* A junit file that stops the loop over the files.
BadJunit(gpu_profile, file) ==
    \/ ~file.valid
    \/ file.cases = {}
    \/ gpu_profile /\ SkippedGpu(file)

JunitVerdict(file, command) ==
    IF ~file.valid \/ file.cases = {} THEN Verdict(1, FALSE, command) ELSE Infra(command)

\* evaluate(): the first reason found decides.  summary is "the configure
\* summary shows what the plan expects, or the plan expects nothing".
Evaluate(steps, junits, gpu_profile, planned, oom, summary) ==
    LET ran   == steps.steps
        bad   == FirstWith(ran, Failing)
        Stops(file) == BadJunit(gpu_profile, file)
        junit == FirstWith(junits, Stops)
    IN  IF oom THEN Infra(LastName(ran))
        ELSE IF steps.state = "code_wait_timeout" \/ steps.code_wait = "timeout" THEN Infra(None)
        ELSE IF steps.state \in {"timeout", "terminated"} THEN Infra(LastName(ran))
        ELSE IF bad # 0 THEN StepVerdict(ran[bad])
        ELSE IF Incomplete(ran, planned) THEN Infra(LastName(ran))
        ELSE IF ~summary THEN Infra(Configure)
        ELSE IF junit # 0 THEN JunitVerdict(junits[junit], CommandName(ran))
        ELSE Passed

\* combine(): infrastructure wins over a test failure, which wins over a pass.
Combine(verdicts) ==
    LET IsInfra(v)  == v.infra
        IsFailed(v) == v.test_code # 0
        infra  == FirstWith(verdicts, IsInfra)
        failed == FirstWith(verdicts, IsFailed)
    IN  IF Len(verdicts) = 1 THEN verdicts[1]
        ELSE IF infra # 0 THEN verdicts[infra]
        ELSE IF failed # 0 THEN verdicts[failed]
        ELSE Passed

\* K8sBackend._failed: whether --keep-on-failure keeps the pod.
KeepWorthy(steps) ==
    steps.state # "done" \/ \E k \in DOMAIN steps.steps : Failing(steps.steps[k])
=============================================================================
