----------------------------- MODULE Verdicts -----------------------------
(***************************************************************************)
(* From the pods' files to the run's verdict: each supervisor records its   *)
(* steps in steps.json and its tests write junit files, while the CLI       *)
(* copies, rank by rank, first the control files and then the artifacts     *)
(* (backend.collect), and then judges the copies (guards.evaluate, combine). *)
(*                                                                          *)
(* A step may print a line that reads like the finished line, so a copy may *)
(* be made of a plan that still runs.  Guards has the verdict's rules.      *)
(***************************************************************************)
EXTENDS Guards, FiniteSets

CONSTANTS
    Pods,         \* --pods
    Plan,         \* the kinds of the planned steps
    GpuProfile,   \* the profile has a GPU
    JunitFiles,   \* the junit files a command may write
    Keep          \* --keep-on-failure is set

ASSUME VerdictsAssumption ==
    /\ Pods \in Nat \ {0}
    /\ Plan \in Seq(StepKinds)
    /\ GpuProfile \in BOOLEAN /\ Keep \in BOOLEAN
    /\ \A f \in JunitFiles : f.valid \in BOOLEAN /\ f.cases \subseteq [gpu : BOOLEAN, skipped : BOOLEAN]

Ranks == 1..Pods

VARIABLES
    steps,     \* per rank, steps.json
    junit,     \* per rank, the junit files in the build directory
    at,        \* the rank that is copied
    phase,     \* what the CLI copies next: "control", "artifacts"; "judge", "judged"
    control,   \* per rank, the copy of steps.json
    files,     \* per rank, the copy of the junit files
    kept,      \* the pods are kept for debugging
    verdict    \* combine's answer

podVars == <<steps, junit>>
cliVars == <<at, phase, control, files, kept, verdict>>
copyVars == <<podVars, cliVars>>

Planned == [k \in DOMAIN Plan |-> k]
Document(state, ran) == [state |-> state, code_wait |-> "ok", steps |-> ran]
NotBegun == Document("running", <<>>)

CopyInit ==
    /\ steps = [r \in Ranks |-> NotBegun]
    /\ junit = [r \in Ranks |-> <<>>]
    /\ at = 1 /\ phase = "control"
    /\ control = [r \in Ranks |-> NotBegun]
    /\ files = [r \in Ranks |-> <<>>]
    /\ kept = FALSE /\ verdict = Passed

-----------------------------------------------------------------------------
(* The supervisors.                                                         *)

Ran(r) == steps[r].steps
Stopped(r) == \E k \in DOMAIN Ran(r) : Ran(r)[k].code # 0 /\ Ran(r)[k].kind # "report"
Commands(r) == {k \in DOMAIN Ran(r) : Ran(r)[k].kind = "command"}
StepLeft(r) == steps[r].state = "running" /\ ~Stopped(r) /\ Len(Ran(r)) < Len(Plan)
NextEntry(r, code) == [name |-> Len(Ran(r)) + 1, kind |-> Plan[Len(Ran(r)) + 1], code |-> code]

\* A command writes its junit file, at most one, before it ends.
TestWrites(r) ==
    /\ StepLeft(r) /\ Plan[Len(Ran(r)) + 1] = "command"
    /\ Len(junit[r]) <= Cardinality(Commands(r))
    /\ \E f \in JunitFiles : junit' = [junit EXCEPT ![r] = Append(@, f)]
    /\ UNCHANGED <<steps, cliVars>>

\* A step ends and is recorded.
StepRecorded(r) ==
    /\ StepLeft(r)
    /\ \E code \in {0, 1} :
          steps' = [steps EXCEPT ![r] = Document("running", Append(Ran(r), NextEntry(r, code)))]
    /\ UNCHANGED <<junit, cliVars>>

\* The limit passed during the step: its entry is written with the state.
StepTimedOut(r) ==
    /\ StepLeft(r)
    /\ \E code \in {0, 1} :
          steps' = [steps EXCEPT ![r] = Document("timeout", Append(Ran(r), NextEntry(r, code)))]
    /\ UNCHANGED <<junit, cliVars>>

Finish(r) ==
    /\ steps[r].state = "running" /\ ~StepLeft(r)
    /\ steps' = [steps EXCEPT ![r] = Document("done", Ran(r))]
    /\ UNCHANGED <<junit, cliVars>>

\* TERM: the step that runs, if one does, gets an entry with 143.
OnTerm(r) ==
    /\ steps[r].state # "terminated"
    /\ \E ran \in {Ran(r)} \cup (IF StepLeft(r) THEN {Append(Ran(r), NextEntry(r, 143))} ELSE {}) :
          steps' = [steps EXCEPT ![r] = Document("terminated", ran)]
    /\ UNCHANGED <<junit, cliVars>>

-----------------------------------------------------------------------------
(* collect: the control tar, then the artifact tar, of each rank in turn.   *)

CopyControl ==
    /\ phase = "control"
    /\ control' = [control EXCEPT ![at] = steps[at]]
    /\ phase' = "artifacts"
    /\ UNCHANGED <<podVars, at, files, kept, verdict>>

NextRank ==
    IF at < Pods THEN at' = at + 1 /\ phase' = "control" ELSE at' = at /\ phase' = "judge"

\* After the last rank: keep the pods when one of the copies shows a failure.
CopyArtifacts ==
    /\ phase = "artifacts"
    /\ files' = [files EXCEPT ![at] = junit[at]]
    /\ NextRank
    /\ kept' = (Keep /\ at = Pods /\ \E r \in Ranks : KeepWorthy(control[r]))
    /\ UNCHANGED <<podVars, control, verdict>>

\* summary: the configure summary is what the plan expects.
Judge ==
    /\ phase = "judge"
    /\ \E summary \in BOOLEAN :
          verdict' = Combine([r \in Ranks |->
              Evaluate(control[r], files[r], GpuProfile, Planned, FALSE, summary)])
    /\ phase' = "judged"
    /\ UNCHANGED <<podVars, at, control, files, kept>>

CopyNext ==
    \/ \E r \in Ranks : TestWrites(r) \/ StepRecorded(r) \/ StepTimedOut(r) \/ Finish(r) \/ OnTerm(r)
    \/ CopyControl \/ CopyArtifacts \/ Judge

CopySpec == CopyInit /\ [][CopyNext]_copyVars

-----------------------------------------------------------------------------
CompletePlan(r) == Len(Ran(r)) = Len(Plan) /\ ~Stopped(r)
BadTests(r) ==
    \E k \in DOMAIN junit[r] :
        LET f == junit[r][k]
        IN  \/ ~f.valid
            \/ f.cases = {}
            \/ GpuProfile /\ \E c \in f.cases : c.gpu /\ c.skipped

\* A pass is earned in every pod, not only in the copies: the whole plan ran
\* there, nothing but a report failed, and no junit file that exists by then is
\* invalid, empty or, on a GPU, skips a GPU test (guards.evaluate on collect's
\* copies, made while the pods may still run).
PassIsEarned ==
    phase = "judged" /\ verdict = Passed =>
        \A r \in Ranks : CompletePlan(r) /\ ~BadTests(r)

\* The rank has a junit file that is no test run: not XML, or with no test in it.
NothingTested(r) == \E k \in DOMAIN junit[r] : ~junit[r][k].valid \/ junit[r][k].cases = {}

\* A test failure is one: no rank was timed out, killed, without an environment
\* or short of its plan when it was copied, and some rank has a failed step or a
\* junit file with no tests to show for it; a skipped GPU test alone never makes
\* one (guards.combine: infrastructure wins).  Beside a failed step or such a
\* file a skipped GPU test goes unmentioned, and the run ends with 1 although
\* RFC-0005 3.2 has 3 for it.
FailIsATestResult ==
    phase = "judged" /\ verdict.test_code = 1 =>
        /\ \A r \in Ranks :
              /\ control[r].state \notin {"timeout", "terminated"}
              /\ \/ CompletePlan(r)
                 \/ \E k \in DOMAIN Ran(r) :
                       Ran(r)[k].kind \in {"build", "command"} /\ Ran(r)[k].code # 0
        /\ \E r \in Ranks : Stopped(r) \/ NothingTested(r)

=============================================================================
