---------------------------- MODULE Supervisor ----------------------------
(***************************************************************************)
(* The in-pod supervisor (remote/pod/supervisor.sh): one POSIX shell that   *)
(* waits for the code, runs the plan's steps one by one and waits to be     *)
(* collected; a watchdog subshell that enforces --timeout; the TERM trap;   *)
(* and the step processes.  They share the marker files of $W/.ostia and    *)
(* steps.json, which the CLI reads from outside.                            *)
(*                                                                          *)
(* Clocks are abstract: a wait that ends after n seconds may end at any     *)
(* moment, and fairness says that it does end.                              *)
(***************************************************************************)
EXTENDS Guards, FiniteSets

CONSTANTS
    Plan,      \* OSTIA_PLAN: the kind of each step, in order
    Codes      \* the exit codes a step may end with

ASSUME PlanAssumption == Plan \in Seq(Kinds)
ASSUME CodesAssumption == 0 \in Codes /\ Codes \subseteq Nat /\ {1, 137, 143} \subseteq Codes

Steps == 1..Len(Plan)
Planned == [k \in Steps |-> k]

VARIABLES
    pc,        \* where the main shell is
    cur,       \* the plan line being read
    sh,        \* the shell variables state, code_wait, exit_code, entries
    running,   \* the shell variable running: a step, or None
    disk,      \* steps.json, replaced by a rename
    said,      \* the "finished with exit" line is in the log
    files,     \* the marker files that exist
    pgid,      \* the step whose process group the pgid file names, or None
    rc,        \* the rc file: a code, or NoCode
    grp,       \* the process group of each step
    sig,       \* the strongest signal each group was sent
    wd         \* where the watchdog subshell is

main == <<pc, cur, sh, running, disk, said>>
step == <<rc, grp, sig, pgid>>
vars == <<main, step, files, wd>>

NoCode == -1
Markers == {"ready", "collected", "stop-watchdog", "timed-out"}

\* fork: forked, its pgid not written yet; rest: the command ended and its rc
\* is written, what it left behind is being killed; over: the pipe is closed.
GroupStates == {"none", "fork", "live", "rest", "over"}

MainPcs == {"code_wait", "code_time", "loop", "fork", "wait", "check", "finish", "say",
            "collect", "join", "term_stop", "term_grace", "term_kill", "term_entry",
            "term_write", "exited"}

\* The shell is the container's first process: when it exits, all of it ends.
Up == pc # "exited"

\* on_term has begun: it ignores a second TERM.
InTrap == pc \in {"term_stop", "term_grace", "term_kill", "term_entry", "term_write"}

Entry(name, kind, code, result) ==
    [name |-> name, kind |-> kind, code |-> code, result |-> result]
Entries == [name : Steps, kind : Kinds, code : Codes, result : Results]

\* write_steps: steps.json says what the shell variables say.
Document(s) == [state |-> s.state, code_wait |-> s.code_wait, exit |-> s.exit, steps |-> s.steps]

Init ==
    /\ pc = "code_wait"
    /\ cur = 1
    /\ sh = [state |-> "waiting", code_wait |-> "pending", exit |-> 0, steps |-> <<>>]
    /\ running = None
    /\ disk = Document(sh)
    /\ said = FALSE
    /\ files = {}
    /\ pgid = None
    /\ rc = NoCode
    /\ grp = [k \in Steps |-> "none"]
    /\ sig = [k \in Steps |-> "none"]
    /\ wd = "off"

-----------------------------------------------------------------------------
(* The CLI's markers, touched from outside.                                 *)

MarkReady ==
    /\ Up
    /\ "ready" \notin files
    /\ files' = files \cup {"ready"}
    /\ UNCHANGED <<main, step, wd>>

MarkCollected ==
    /\ Up
    /\ "collected" \notin files
    /\ files' = files \cup {"collected"}
    /\ UNCHANGED <<main, step, wd>>

-----------------------------------------------------------------------------
(* The code wait.                                                           *)

\* The loop's test: the code is there, so the watchdog and the steps start.
CodeArrived ==
    /\ pc = "code_wait"
    /\ "ready" \in files
    /\ sh' = [sh EXCEPT !.code_wait = "ok", !.state = "running"]
    /\ disk' = Document(sh')
    /\ files' = files \ {"timed-out", "stop-watchdog"}
    /\ wd' = "counting"
    /\ pc' = "loop"
    /\ UNCHANGED <<cur, running, said, step>>

CodeNotThere ==
    /\ pc = "code_wait"
    /\ "ready" \notin files
    /\ pc' = "code_time"
    /\ UNCHANGED <<cur, sh, running, disk, said, step, files, wd>>

\* Time is left: nap, then look again.
CodeNap ==
    /\ pc = "code_time"
    /\ pc' = "code_wait"
    /\ UNCHANGED <<cur, sh, running, disk, said, step, files, wd>>

\* Mutant: the code wait has no limit.
NoCodeWaitLimit ==
    /\ FALSE
    /\ UNCHANGED vars

CodeWaitTimeout ==
    /\ pc = "code_time"
    /\ sh' = [sh EXCEPT !.code_wait = "timeout", !.state = "code_wait_timeout", !.exit = 3]
    /\ disk' = Document(sh')
    /\ pc' = "exited"
    /\ UNCHANGED <<cur, running, said, step, files, wd>>

-----------------------------------------------------------------------------
(* The step loop.                                                           *)

\* A known kind: forget the last step's rc and pgid files, then fork.
StepBegin ==
    /\ pc = "loop"
    /\ cur \in Steps
    /\ Plan[cur] \in StepKinds
    /\ rc' = NoCode
    /\ pgid' = None
    /\ running' = cur
    /\ pc' = "fork"
    /\ UNCHANGED <<cur, sh, disk, said, grp, sig, files, wd>>

UnknownKind ==
    /\ pc = "loop"
    /\ cur \in Steps
    /\ Plan[cur] \notin StepKinds
    /\ sh' = [sh EXCEPT !.exit = 3]
    /\ pc' = "finish"
    /\ UNCHANGED <<cur, running, disk, said, step, files, wd>>

PlanRead ==
    /\ pc = "loop"
    /\ cur \notin Steps
    /\ pc' = "finish"
    /\ UNCHANGED <<cur, sh, running, disk, said, step, files, wd>>

StepFork ==
    /\ pc = "fork"
    /\ grp' = [grp EXCEPT ![cur] = "fork"]
    /\ pc' = "wait"
    /\ UNCHANGED <<cur, sh, running, disk, said, rc, sig, pgid, files, wd>>

\* wait $! returns once the step's pipeline is over.
WaitReturns ==
    /\ pc = "wait"
    /\ grp[cur] = "over"
    /\ running' = None
    /\ pc' = "check"
    /\ UNCHANGED <<cur, sh, disk, said, step, files, wd>>

\* Mutant: a timeout leaves the exit code as it was.
TimedOutKeepsExit ==
    /\ pc = "check"
    /\ "timed-out" \in files
    /\ sh' = [sh EXCEPT !.steps = Append(@, Entry(cur, Plan[cur], rc, "timeout")),
                        !.state = "timeout"]
    /\ pc' = "finish"
    /\ UNCHANGED <<cur, running, disk, said, step, files, wd>>

\* The .timed-out marker exists when the step has ended.
StepTimedOut ==
    /\ pc = "check"
    /\ "timed-out" \in files
    /\ sh' = [sh EXCEPT !.steps = Append(@, Entry(cur, Plan[cur], rc, "timeout")),
                        !.state = "timeout", !.exit = 3]
    /\ pc' = "finish"
    /\ UNCHANGED <<cur, running, disk, said, step, files, wd>>

\* After a step with code c: does the plan go on, and with which exit code?
GoesOn(kind, c) == c = 0 \/ kind = "report"
StopCode(kind, c) == IF kind \in {"preflight", "install"} THEN 3 ELSE c

StepRecorded ==
    /\ pc = "check"
    /\ "timed-out" \notin files
    /\ LET on == GoesOn(Plan[cur], rc)
           e  == Entry(cur, Plan[cur], rc, IF rc = 0 THEN "ok" ELSE "failed")
       IN  /\ disk' = Document([sh EXCEPT !.steps = Append(@, e)])
           /\ sh' = [sh EXCEPT !.steps = Append(@, e),
                               !.exit = IF on THEN @ ELSE StopCode(Plan[cur], rc)]
           /\ pc' = IF on THEN "loop" ELSE "finish"
           /\ cur' = IF on THEN cur + 1 ELSE cur
    /\ UNCHANGED <<running, said, step, files, wd>>

-----------------------------------------------------------------------------
(* The end of the run.                                                      *)

Finish ==
    /\ pc = "finish"
    /\ files' = files \cup {"stop-watchdog"}
    /\ sh' = [sh EXCEPT !.state = IF @ = "running" THEN "done" ELSE @]
    /\ disk' = Document(sh')
    /\ pc' = "say"
    /\ UNCHANGED <<cur, running, said, step, wd>>

SayFinished ==
    /\ pc = "say"
    /\ said' = TRUE
    /\ pc' = "collect"
    /\ UNCHANGED <<cur, sh, running, disk, step, files, wd>>

Collected ==
    /\ pc = "collect"
    /\ "collected" \in files
    /\ pc' = "join"
    /\ UNCHANGED <<cur, sh, running, disk, said, step, files, wd>>

CollectWindowEnds ==
    /\ pc = "collect"
    /\ "collected" \notin files
    /\ pc' = "join"
    /\ UNCHANGED <<cur, sh, running, disk, said, step, files, wd>>

\* wait "$watchdog", then exit.
Exit ==
    /\ pc = "join"
    /\ wd = "gone"
    /\ pc' = "exited"
    /\ UNCHANGED <<cur, sh, running, disk, said, step, files, wd>>

-----------------------------------------------------------------------------
(* The processes of a step.                                                 *)

\* The directory is gone: the subshell writes rc 1 and never starts the step.
StepCdFails ==
    /\ Up
    /\ \E k \in Steps :
          /\ grp[k] = "fork"
          /\ rc' = 1
          /\ grp' = [grp EXCEPT ![k] = "over"]
    /\ UNCHANGED <<main, sig, pgid, files, wd>>

\* The step's own shell writes its pgid file, then execs the command.
StepStarts ==
    /\ Up
    /\ \E k \in Steps :
          /\ grp[k] = "fork"
          /\ pgid' = k
          /\ grp' = [grp EXCEPT ![k] = "live"]
    /\ UNCHANGED <<main, rc, sig, files, wd>>

\* The command ends: by itself, or because it heeds a TERM.
StepEnds ==
    /\ Up
    /\ \E k \in Steps, c \in Codes :
          /\ grp[k] = "live"
          /\ rc' = c
          /\ grp' = [grp EXCEPT ![k] = "rest"]
    /\ UNCHANGED <<main, sig, pgid, files, wd>>

\* KILL is not heeded, it works.
StepKilled ==
    /\ Up
    /\ \E k \in Steps :
          /\ grp[k] = "live"
          /\ sig[k] = "KILL"
          /\ rc' = 137
          /\ grp' = [grp EXCEPT ![k] = "rest"]
    /\ UNCHANGED <<main, sig, pgid, files, wd>>

\* kill_group_all on what the step left behind; then the pipe closes.
StepReaped ==
    /\ Up
    /\ \E k \in Steps :
          /\ grp[k] = "rest"
          /\ grp' = [grp EXCEPT ![k] = "over"]
    /\ UNCHANGED <<main, rc, sig, pgid, files, wd>>

-----------------------------------------------------------------------------
(* kill_group and group_alive read the pgid file each time they are called, *)
(* whoever calls them: the group they reach is the one it names then.       *)

GroupAlive == pgid # None /\ grp[pgid] \in {"live", "rest"}

KillGroup(signal) ==
    sig' = IF GroupAlive /\ sig[pgid] # "KILL" THEN [sig EXCEPT ![pgid] = signal] ELSE sig

\* kill_group_all: again until the group is empty, or about 2 s have passed.
KillAllDone == IF GroupAlive THEN sig[pgid] = "KILL" ELSE TRUE

-----------------------------------------------------------------------------
(* The watchdog.                                                            *)

WatchdogStops ==
    /\ Up
    /\ wd = "counting"
    /\ "stop-watchdog" \in files
    /\ wd' = "gone"
    /\ UNCHANGED <<main, step, files>>

\* Mutant: the watchdog kills before it leaves its marker.
WatchdogKillsFirst ==
    /\ Up
    /\ wd = "counting"
    /\ wd' = "fired"
    /\ UNCHANGED <<main, step, files>>

\* The limit passed: the loop's test comes before the look at the marker.
WatchdogFires ==
    /\ Up
    /\ wd = "counting"
    /\ files' = files \cup {"timed-out"}
    /\ wd' = "fired"
    /\ UNCHANGED <<main, step>>

WatchdogTerm ==
    /\ Up
    /\ wd = "fired"
    /\ KillGroup("TERM")
    /\ wd' = "grace"
    /\ UNCHANGED <<main, rc, grp, pgid, files>>

\* Mutant: TERM only, no KILL after the grace.
WatchdogNeverKills ==
    /\ Up
    /\ wd = "grace"
    /\ wd' = "gone"
    /\ UNCHANGED <<main, step, files>>

\* stop_group waits for the group to go, at most 10 s.
WatchdogGraceOver ==
    /\ Up
    /\ wd = "grace"
    /\ wd' = "kill"
    /\ UNCHANGED <<main, step, files>>

WatchdogKill ==
    /\ Up
    /\ wd = "kill"
    /\ ~KillAllDone
    /\ KillGroup("KILL")
    /\ UNCHANGED <<main, rc, grp, pgid, files, wd>>

WatchdogGone ==
    /\ Up
    /\ wd = "kill"
    /\ KillAllDone
    /\ wd' = "gone"
    /\ UNCHANGED <<main, step, files>>

-----------------------------------------------------------------------------
(* The TERM trap.  The kubelet (or docker) may send TERM at any moment.     *)

OnTerm ==
    /\ Up /\ ~InTrap
    /\ files' = files \cup {"stop-watchdog"}
    /\ pc' = IF running # None THEN "term_stop" ELSE "term_write"
    /\ UNCHANGED <<cur, sh, running, disk, said, step, wd>>

TermSignal ==
    /\ pc = "term_stop"
    /\ KillGroup("TERM")
    /\ pc' = "term_grace"
    /\ UNCHANGED <<cur, sh, running, disk, said, rc, grp, pgid, files, wd>>

\* Mutant: the trap waits for the group without a limit.
TermWaitsForever ==
    /\ pc = "term_grace"
    /\ ~GroupAlive
    /\ pc' = "term_kill"
    /\ UNCHANGED <<cur, sh, running, disk, said, step, files, wd>>

\* The same wait, at most 5 s.
TermGraceOver ==
    /\ pc = "term_grace"
    /\ pc' = "term_kill"
    /\ UNCHANGED <<cur, sh, running, disk, said, step, files, wd>>

TermKill ==
    /\ pc = "term_kill"
    /\ ~KillAllDone
    /\ KillGroup("KILL")
    /\ UNCHANGED <<main, rc, grp, pgid, files, wd>>

TermKilled ==
    /\ pc = "term_kill"
    /\ KillAllDone
    /\ pc' = "term_entry"
    /\ UNCHANGED <<cur, sh, running, disk, said, step, files, wd>>

TermEntry ==
    /\ pc = "term_entry"
    /\ sh' = [sh EXCEPT !.steps = Append(@, Entry(running, Plan[running], 143, "terminated"))]
    /\ pc' = "term_write"
    /\ UNCHANGED <<cur, running, disk, said, step, files, wd>>

\* Mutant: the trap writes steps.json and returns instead of exiting.
TermReturns ==
    /\ pc = "term_write"
    /\ sh' = [sh EXCEPT !.state = "terminated", !.exit = 3]
    /\ disk' = Document(sh')
    /\ pc' = "collect"
    /\ UNCHANGED <<cur, running, said, step, files, wd>>

TermWrite ==
    /\ pc = "term_write"
    /\ sh' = [sh EXCEPT !.state = "terminated", !.exit = 3]
    /\ disk' = Document(sh')
    /\ pc' = "exited"
    /\ UNCHANGED <<cur, running, said, step, files, wd>>

-----------------------------------------------------------------------------
\* The container has ended; nothing happens any more.
Ended == pc = "exited" /\ UNCHANGED vars

Cli == MarkReady \/ MarkCollected

ShellMoves ==
    \/ CodeArrived \/ CodeNotThere \/ CodeNap
    \/ StepBegin \/ UnknownKind \/ PlanRead \/ StepFork \/ WaitReturns
    \/ StepTimedOut \/ StepRecorded
    \/ Finish \/ SayFinished \/ Collected \/ Exit

Shell == ShellMoves \/ CodeWaitTimeout \/ CollectWindowEnds

Process == StepCdFails \/ StepStarts \/ StepEnds \/ StepKilled \/ StepReaped

Watchdog ==
    \/ WatchdogStops \/ WatchdogFires \/ WatchdogTerm
    \/ WatchdogGraceOver \/ WatchdogKill \/ WatchdogGone

TrapMoves ==
    \/ TermSignal \/ TermGraceOver \/ TermKill
    \/ TermKilled \/ TermEntry \/ TermWrite

Trap == OnTerm \/ TrapMoves

Next == Cli \/ Shell \/ Process \/ Watchdog \/ Trap \/ Ended

(***************************************************************************)
(* What keeps moving: the shell, the watchdog and a trap once it has begun; *)
(* a fork, a KILL and the reaping of a group.  The code wait's clock makes  *)
(* its timeout strongly fair, and the collection window passes.  Nobody     *)
(* promises that a step ends by itself or that the CLI leaves a marker.     *)
(***************************************************************************)
Fairness ==
    /\ WF_vars(ShellMoves)
    /\ SF_vars(CodeWaitTimeout)
    /\ WF_vars(CollectWindowEnds)
    /\ WF_vars(Watchdog)
    /\ WF_vars(TrapMoves)
    /\ WF_vars(StepCdFails \/ StepStarts)
    /\ WF_vars(StepKilled)
    /\ WF_vars(StepReaped)

Spec == Init /\ [][Next]_vars
FairSpec == Spec /\ Fairness

-----------------------------------------------------------------------------
Documents == [state : States, code_wait : CodeWaits, exit : Codes \cup {3}, steps : Seq(Entries)]

\* Every variable of the model holds what the code could put there.
TypeOK ==
    /\ pc \in MainPcs
    /\ cur \in 1..(Len(Plan) + 1)
    /\ sh \in Documents /\ disk \in Documents
    /\ running \in Steps \cup {None}
    /\ said \in BOOLEAN
    /\ files \subseteq Markers
    /\ pgid \in Steps \cup {None}
    /\ rc \in Codes \cup {NoCode}
    /\ grp \in [Steps -> GroupStates]
    /\ sig \in [Steps -> {"none", "TERM", "KILL"}]
    /\ wd \in {"off", "counting", "fired", "grace", "kill", "gone"}

\* A step whose group the watchdog or the TERM trap signalled is never scored:
\* steps.json has it as timeout or terminated, not as ok or failed, even when
\* the step heeded the signal with exit 0 or ended in the same instant
\* (supervisor.sh lines 133-134 and 159: marker first, then the kill).
SignalledIsNotScored ==
    \A j \in DOMAIN disk.steps :
       sig[disk.steps[j].name] # "none" => disk.steps[j].result \in {"timeout", "terminated"}

\* A step starts only when the last one's whole process group is gone, so two
\* steps never touch the build directory together (kill_group_all, line 153).
OneGroupAtATime ==
    \A j, k \in Steps :
       grp[j] \in {"fork", "live", "rest"} /\ grp[k] \in {"fork", "live", "rest"} => j = k

\* A steps.json that says done with exit 0 lists every planned step, in order,
\* and none of them failed except reports.
DoneIsEarned ==
    disk.state = "done" /\ disk.exit = 0 =>
       /\ Names(disk.steps) = Planned
       /\ \A j \in DOMAIN disk.steps : ~Failing(disk.steps[j])

\* The verdict the CLI reads off steps.json (guards.evaluate, without junit).
CliVerdict == Evaluate(disk, <<>>, FALSE, Planned, FALSE, TRUE)
VerdictClass(v) == IF v.infra THEN "infra" ELSE IF v.test_code # 0 THEN "fail" ELSE "pass"

\* The supervisor as the pod of PodContract: the report is what a reader of
\* steps.json would conclude, "none" while it would find the plan unfinished.
PodPhase ==
    CASE pc = "exited" -> "exited"
      [] pc # "exited" /\ said -> "finished"
      [] pc # "exited" /\ ~said /\ sh.state = "waiting" -> "waiting"
      [] OTHER -> "running"
PodReport ==
    LET c == VerdictClass(CliVerdict)
    IN  IF PodPhase = "waiting" \/ (PodPhase = "running" /\ c = "infra") THEN "none" ELSE c
Contract == INSTANCE PodContract WITH phase <- PodPhase, report <- PodReport

\* The supervisor implements the contract the CLI relies on.
ImplementsContract == Contract!Spec

\* Once the pod says it has finished, or has exited, its exit code and the
\* CLI's reading of its steps.json agree: 0 is a pass and nothing else is, and
\* an infrastructure verdict is exit 3.
ExitAgreesWithVerdict ==
    said \/ pc = "exited" =>
       /\ VerdictClass(CliVerdict) = "pass" <=> disk.exit = 0
       /\ VerdictClass(CliVerdict) = "infra" => disk.exit = 3

\* A watchdog that finds a step's group stops it and the supervisor exits,
\* however stubborn the step (stop_group: TERM, 10 s, KILL).
WatchdogStopsALiveStep ==
    (wd = "fired" /\ pgid # None /\ grp[pgid] = "live") ~> (pc = "exited")

\* If no step hangs for ever the supervisor exits: the code wait and the
\* collection window are bounded, and the watchdog that the shell joins last
\* ends by its marker or its limit (supervisor.sh's last two lines).
RunEndsIfStepsDo ==
    []<>(\A k \in Steps : grp[k] # "live") => <>(pc = "exited")

\* A TERM ends the container, whatever the step does.
TermEnds == InTrap ~> (pc = "exited")

=============================================================================
