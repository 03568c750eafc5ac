# Ostia in TLA+

A verification development kept beside `src/`: TLA+ models of the parts of Ostia
whose correctness depends on order, failure and concurrency, the TLC runs that
check them on small instances, and TLAPS proofs of the properties that matter
most for every value of the constants.

## The system and its parts

Ostia is a data-exchange fabric for GPU clusters. What exists at this commit is the
topology layer of the fabric, the tools that capture and replay machine
topologies, the UCX and CUDA benchmarks, the telemetry macros, and the developer
CLI `ostia-dev`, whose remote runner builds, tests and measures all of that on
rented GPU machines. `exchange`, `query` and `runtime` are empty stubs.

| Part | State | Operations | Hard because | Module |
|---|---|---|---|---|
| in-pod supervisor (`remote/pod/supervisor.sh`) | shell variables, `steps.json`, marker files, pgid and rc files, process groups | wait for the code, run the plan, watchdog, TERM trap, collection window | three concurrent processes share files; TERM at any line; a step may ignore signals | `Supervisor` |
| what a pod promises | phase, report | arrive, give up, settle, complete, leave, terminate | the CLI relies on nothing else | `PodContract` |
| run pipeline (`remote/core.py`) over the Kubernetes backend (`remote/k8s/backend.py`, `kube.py`) | the run's flags, the Job, owned objects, pods, markers | gc, start, upload, stream, collect, judge, teardown, final exit | every call may fail with its effect unknown; signals anywhere; the CLI may die; pods are evicted | `RemoteRun` |
| verdict (`remote/guards.py`) | none | `evaluate`, `combine` | fixed order of guards, partial files | `Guards`, `Verdicts` |
| log of a one-pod run (`backend.stream`, `kube.logs_follow`) | last time, count at that time, outage age | follow, resume, give up | whole-second resume, equal times, drops | `LogFollow` |
| log of a many-pod run (`backend._poll_ranks`) | per rank the last time and count | status, logs | one since-time for all ranks, dead ranks | `LogPoll` |
| request of a run (`remote/cli.py`, `core.prepare`, `preflight.resolve`, `profiles.py`, `suites.py`) | none | flags, context, profile, plan, rules for variables and contributor code | three checks over one request | `RunRequest` |
| shared namespace (`k8s/preflight.py`, `admin.py`, `manifests.py`) | guardrail objects, labels, Jobs, cache claim, saved keys | preflight check, `init`, `verify`, `cleanup`, gc | several developers and admins, one kubectl call at a time, each stopped anywhere; the namespace may vanish and come back | `Namespace` |
| decisions of a bench gate (`gate.py`, `bench/capabilities.py`, `evidence.py`, `compare.py`) | none | capabilities, machine check, plan, evidence, comparison | four tables in three files have to agree | `GateTables` |
| ranks of a gate run (`bench/ostia_bench.py`) | place in the plan, barrier socket, records, evidence | barrier, program, evidence, records | two drivers on one port, lost connections, a rank that fails alone | `Rendezvous` |
| bench gate (`remote/k8s/gate.py`) | merged records and evidence, captures, `pair.json` | check, run, merge, pair id, stamp, judge, compare | partial results of a pair | `Gate` |
| topo commands (`topo/cli.py`, `topo/importer.py`) | fixture folders, the file with identifiers | `capture`, `import`, `golden --update` | several readers of a directory a capture rewrites; Ctrl-C anywhere | `Fixtures` |
| container backend (`remote/container.py`) | container, volumes | the same pipeline on docker | a subset of `RemoteRun`'s faults, on one host | none |
| UCX workers (`fabric/bench/common/ucx.cpp`) | sockets, requests in flight | progress, teardown | inside libucp | none |
| capture tool (`fabric/tools/topo-capture`) | `--out`, scratch directory, manifest, tracked paths | prepare, stage, validate, leak search, publish, take back, signal cleanup | a failing write, a signal or SIGKILL between any two files; the next capture finds what is left | `TopoCapture` |
| what a capture directory promises | data files, manifest | write, publish, remove | readers rely on nothing else | `CaptureDir` |
| capture fetch (`remote/capture.py`, `topo/manifest.py`) | first manifest, staging copies, results | three execs per read, retry, check, verify, move | the directory changes between and during the reads | `CaptureFetch` |
| topology builder and identity (`fabric/src/topology`) | none (pure) | build, canonical form | order independence | none |
| limits (`remote/k8s/manifests.py`) | windows and deadlines | `code_wait`, `deadline_seconds` | windows of three clocks that start at different moments | none |
| tarball, results, doctor, CI checks, docs CLI | files | sequential, one process | I/O and text | only as their outcome |

### How they interact

`ostia-dev remote` (core) builds a plan, packs the working tree and drives a backend.
The Kubernetes backend creates a suspended Job, then the objects it owns, then
unsuspends it. Each pod runs the supervisor as its first process. CLI and pod talk
only through files and the log: the CLI copies the code in and touches `ready`; the
supervisor writes `steps.json`, prints `finished with exit`; the CLI follows the
log until that line, copies `steps.json` and the artifacts out, and touches
`collected`. `guards.evaluate` turns the copies of each rank into a verdict,
`combine` merges the ranks, `final_exit` makes the exit code of it, the errors met
on the way and of what teardown could verify.

Before a run has a Job, `prepare` has accepted the request on the host and
`preflight.check` has looked at the namespace, which `init`, `verify`, `cleanup` and
other runs share. `remote gate` is a run whose plan is made of workloads; with two pods
the drivers of the two ranks meet before every workload, and afterwards the command
merges what they wrote, gives it the id of the two captures and compares it with a
baseline. `topo capture` runs the capture tool, `topo import` makes a fixture of what
lies in a capture directory, and `golden --update` rebuilds what the fixtures should
give.

## Modules

- `Guards`: `guards.evaluate`, `combine` and `_failed` as operators; a junit file is
  reduced to validity and the set of its cases, a case to (gpu, skipped).
- `Supervisor`: the shell as a program counter, one action per branch of the
  script; `sh` holds the shell variables that `write_steps` prints, `disk` is
  `steps.json` (a rename makes it atomic). The watchdog subshell and the processes
  of a step are actors of their own; a process group goes none, fork (pgid file not
  written yet), live, rest (command ended, leftovers being killed), over.
- `PodContract`: two variables and six actions; what RemoteRun assumes of a pod.
- `RemoteRun`: the CLI as a program counter over `_pipeline` and the backend, the
  booleans of the run as a set of `flags`, the cluster's objects, and each pod as
  PodContract. A failed call that changes something has both outcomes, except a
  refused one. An error that is no `OstiaError` is exit 3 inside the pipeline's `try` and
  OstiaApp's exit 1 outside it (`GcFails`, teardown, `Finish`). Histories (`settled`, `asked`) only serve the properties.
- `Verdicts`: two ranks' files copied one after another, while pods still run.
- `LogFollow`, `LogPoll`: the two log readers, over `LogLines`; a line is its time.
- `TopoCapture`: the tool as a program counter over `main`, `prepare_out`, `Run` and
  `write_manifest_atomic`; `disk` gives every path its writer and whether it is
  whole, for `--out`, the directory of `--print-id` and the scratch directory.
  `why` is the three booleans `exit_for` reads, `tracked` the list the handler
  walks. Signals and SIGKILL are possible at every step; the handler is a
  loop of its own, so SIGKILL can cut it short.
- `CaptureDir`: what is left of that for a reader: data, manifest, and four actions.
- `CaptureFetch`: the fetch beside any behaviour that `CaptureDir` allows. A hash
  matches when the copy is whole and of the manifest's capture, or is a file whose bytes
  are the same in every capture (`Same`), as on a machine that has not changed; the
  manifest moves to the results with the files (`dest.doc`).
  `tar` copies the manifest first and the listed files after it, in any order.
- `RunRequest`: what a request is refused for, and its plan, as operators over a record
  of flags.
- `Namespace`: each terminal runs one command as a program counter, one action per
  kubectl call. A namespace that was deleted and created again has another `inc`.
  `seen` is the set of incarnations a command looked at; only properties read what a
  Job copies of it. A run from its Job to its teardown is one step here, its inside is
  `RemoteRun`.
- `GateTables`: the tables and decisions of the gate as operators. A traffic snapshot
  gives bytes per device; a record is of a case, its benchmark and its parameters, and a
  program prints one record for each case it measures (`Prints`).
- `Rendezvous`: per rank the step loop of the supervisor and, in a bench step, the
  driver; `backlog`, `held` and `mine` are the one connection at its two ends and in
  the queue between them. `peer` says which step the other program was at when the
  two met.
- `Gate`: the command around it, composed with `Rendezvous` by EXTENDS: the pods take
  their steps while the command is at `run`.
- `Fixtures`: the capture command, the tool as `CaptureDir` allows it, any number of
  imports and one update, over one capture directory. It extends `CaptureDir`, so
  what `TopoCapture` is shown to implement is what an import is checked against. An import
  that ended is `ok`, `failed` or, where Ctrl-C left its folder as it was, `cut`.
- `*Proofs`: the theorems about the module of that name and their proofs. `LogProofs` is
  about both log readers, `CollectProofs` about `CaptureFetch` and `Verdicts`, what the CLI
  copies out of the pods.
- `MC*`: the instances TLC checks; they only give constants values.

Definitions marked "Mutant" are plausible bugs of the definition below them. No
specification uses them; substituting one must make the named property fail.

## Runs

| Run | Instance | Shows |
|---|---|---|
| `supervisor` | plan install, report, command; codes 0, 1, 137, 143 | a signalled step is never scored, exit code and verdict agree; a stubborn step the watchdog caught, a TERM and the end of the plan end the supervisor, its join with the watchdog included |
| `supervisor_contract` | plan build, unknown kind, command | Supervisor implements PodContract |
| `remoterun` | 2 pods, keep, 2 signals, failing calls | exits 0 and 1 are earned, verified means gone, nothing happens before what it needs (`NothingTooEarly`: policy before pods, copies before markers), pods keep their contract; CLI and run end |
| `verdicts` | 2 ranks, plan install, command, report, 4 kinds of junit file | a pass and a test failure mean what they say |
| `log_follow` | 4 lines, 2 lines of time per second, outage limit 2 | `WholeLog`: every line once and in order, up to the first line that starts with FINISHED; the loop ends |
| `log_follow_lost` (violation) | 1 line | finding: a silent resume does not end an outage |
| `log_poll` | 2 ranks, 4 lines together | the same for the poll (`WholeLogs`); it never goes on past a dead rank |
| `capture` | 2 captures, 2 data files (one always there, one optional) | no unchecked data in `--out`, each way to end leaves what it says (`EndsAsItSays`: exit codes, signals, `--print-id`), the manifest comes last and goes first; TopoCapture implements CaptureDir |
| `capture_fetch` | 2 captures, 2 data files | the results hold one published capture, manifest and files; the fetch ends |
| `namespace` | 2 terminals with 16 and 6 commands, 2 incarnations by others, 1 leftover Job | a run without `--allow-unguarded` has guardrails around its Job, `init` leaves all of them, `verify`'s exit 0 is a complete probe, Jobs carry only what their request may ask for, nobody's gc or own cleanup takes another's Job; every command ends |
| `gate` | 9 setups (3 of them run), 3 baselines or none, 7 kinds of capture, 2 broken connections | programs that talk run one workload, exit 0 is measured, of no case twice and contradicted by no comparable case of the baseline, `pair.json` exactly with stamped records, a gate that starts can show its transport; the gate ends |
| `fixtures` | 1 import and 3 captures, or 2 imports (with and without `--name`) and 1 capture; 2 names, 1 update | a reported import is whole and of one capture, nothing half imported stays but in the three ways named, no import touches another's folder, `topo capture` ends clean |

### Bounds, and why they are enough

Two pods are the least for which ranks differ and a loop over ranks can be
interrupted between two of them; the theorems of `RemoteRunProofs` hold for any
number. Two signals: one that starts teardown and one inside it. Three plan
steps: one before and one after the step in question, each kind that the code tells
apart (build and command behave alike in the shell). Two units of time per
second and four lines give equal times, times that differ within a second
and times that differ by it, on both sides of a resume. Two captures: one whose
leavings the other meets. Two data files: one written and one not, and the two
kinds (always staged, optional) that the code tells apart; the theorem of
`CollectProofs` holds for any number of both.

`Namespace`: two commands at once, one of each kind against each kind that can disturb
it; two incarnations, so that a command can look at one and act on the other. `Gate`:
two workloads per gate make it possible for the ranks to be at different ones, two
breaks to lose both the go of one and the connection of the next; the setups refused
are one for each reason. `Fixtures`: it starts from a directory with a complete
capture, and a second and a third replace it under an import, so that its reads may meet
three; the second has an identifier that the leak search finds, so an import can be
refused as late as its last step, and another name than its neighbours. What two imports
do to each other is about the folders, so the start with two imports has no more captures.

### Fairness

`Supervisor`: the shell, the watchdog and a trap that has begun keep running, a
KILL works, a fork happens. The code wait's limit is strongly fair, because the loop
passes it again and again while the clock goes on; the collection window passes, as
`COLLECT_WINDOW` does. No step has to end, no marker has to be touched. `RemoteRun`: the CLI keeps going and its windows end, an
unsuspended Job ends by `activeDeadlineSeconds` and goes by
`ttlSecondsAfterFinished`, and Kubernetes removes the pods of a Job that is gone. No
call has to fail or succeed first, no pod has to start or finish. `LogFollow`
and `LogPoll`: the loop goes on. `CaptureFetch`: every exec in the pod returns; kubectl
has no time limit there, so that a hung connection ends is assumed. `Gate`: the command
and each rank are scheduled, and every wait of a driver has a limit (`BARRIER_WAIT`,
the program's own minute), so the step that gives up is a step of the rank. That two
programs meet or a connection breaks is not fair. `Namespace`: each terminal goes on
(`WF` of `Proceeds`); nobody has to answer any of the three prompts (`Answer` is a step of
its own after each of them), no pod has to start, no line has to come. `verify` follows
its probe's log without a limit (`admin.py:135`), so what ends it is the probe Job's
`activeDeadlineSeconds`, which counts because that Job is not suspended; that `kubectl logs
-f` ends once its pod has is assumed. `Fixtures`
has no liveness property and no fairness.

### Assumptions

- A call whose reply was lost took effect at once or never, not after teardown.
- A pod's log is appended to, its times do not go back, and it is not rotated.
- `kubectl delete` with background cascade removes the Job before it returns or
  keeps it; the pods go afterwards.
- In `Fixtures` a capture's files differ from those of any other capture; `CaptureFetch`
  has both kinds of file. A removal that the tool asks for works; a staged file
  that opens is read to its end.
- A step's own output may hold a line that starts as the finished line does. All
  three models of a reader stop there as the code does: `RemoteRun` collects early,
  `LogFollow` returns with the rest of the log unread, `LogPoll` counts the rank as
  finished and prints on until every rank is.
- Each kubectl call of `Namespace` takes effect at once; a lost reply is `Stops` after it.
- The tool that `Fixtures` runs keeps the contract of `CaptureDir`, writes no data file
  once it has published, and heeds a signal. It may take back what it published, for a
  failed manifest (`ToolWithdraws`: the sync after the rename failed).

## What is proved

Each proof module defines an inductive invariant and proves: the initial states
satisfy it, every action keeps it (one step per action), and it implies the
property.

- `SupervisorProofs`, for every plan and every set of exit codes: `TypeOK`,
  `SignalledIsNotScored`, `OneGroupAtATime`, `DoneIsEarned`, `ExitAgreesWithVerdict`, and,
  for every plan with a step in it, `ImplementsContract`. The properties alone
  are not inductive: that a scored step was never signalled needs
  `MarkerBeforeSignal` (who signals leaves `.timed-out`, or the shell is in the trap)
  and `OnlyTheCurrent` (no group but the one the loop waits for has processes, so
  no later signal reaches a scored step). `VerdictInv` follows what `guards.evaluate`
  makes of steps.json: `ClassOf` says it in three cases (stopped, no failing step, the
  last step failed), so that while a step is left to run the reader finds an unfinished
  plan, the record that ends the loop settles the result, and the last write changes
  nothing a reader concludes. That is also the step mapping of the refinement:
  the code's arrival, the settling record, the finished line, the exit, the code wait's end
  and the trap's write are steps of `PodContract`, all others are stutters. (Every
  plan has a step: `suites.build_plan` puts the install step into it, `suites.py:134`.)
- `RemoteRunProofs`, for any number of pods and signals: `ExitZeroIsEarned`,
  `ExitOneIsATestResult`, `VerifiedMeansGone`, `NothingTooEarly` (theorem
  `OrderIsKept`) and the contract of each pod. `Ownership` ties objects to the place of the
  CLI and to `created`, `Copies` and `Marks` are the loop invariants of upload and
  collect, `Results` says what the CLI's copies and flags imply of the
  supervisors' own records.
- `LogProofs`, for any log, resolution and outage limit: `WholeLog`
  (theorem `LogIsWhole`). The invariant says that what is printed is a prefix of the
  log with no line in it that starts with FINISHED but its last, at which stream returns, that `at_last` counts its lines with the last time, and that the next line
  of a resumed stream together with `skip` points just behind the prefix.
  Then the poll of several logs, for any number of ranks: `WholeLogs` and
  `NoPollPastADeath` of `LogPoll`. `PollInv` is the same per rank, with
  what `finished` claims beside it. One since-time, the least of all ranks, serves every
  rank, so most of what a poll returns was printed before; `FreshIsTheRest` says that
  the lines which pass the filter are exactly those not printed yet, whatever the
  other ranks' times are.
- `CollectProofs`, for any data files and any number of captures: `TypeOK` and
  `DestIsOneCapture`. `Placed` says where the copy is: data are in the results
  only after the second read was verified, and the manifest is not read again then.
  Then the verdict, for any plan, junit files and number of pods: `PassIsEarned` and
  `FailIsATestResult` of `Verdicts`. `evaluate` and `combine` look for the first
  guard that applies; `EvaluateSays` and `CombineSays` say what each answer means without
  that order. `CopiesOK` says that a copy is how the pod's file began, whenever
  it was made, and that beside a complete plan the junit files are all there are, because
  they are copied after the steps. So what the copies show (`VerdictOK`) is true of the pods.
- `NamespaceProofs`, for any number of terminals and any number of times the namespace
  is deleted and made again: `TypeOK`, `GuardedJobs`, `InitLeavesAll`,
  `VerifyIsComplete`, `JobsAsAllowed`, and `OnlyItsOwn` as an action property. Guardrails
  are only added within one incarnation (`NsSteady`), so what a check saw of an
  incarnation in `seen` still holds when the Job is made (`CheckedOf`); what an init has
  applied stays (`InitOf`); the probe's lines are counted against the length of its
  script (`CountOf`); a name on a list of gc or cleanup is that of a Job the
  command may take, because a name is used once (`TodoOf`, `NamedOnce`).
- `GateProofs`, for any setup files, baselines, facts and any number of broken
  connections: `TypeOK`, `RanksRunOneWorkload`, `PairIffStamped`, `EvidenceIsReachable`,
  `PassIsBacked` and `PassIsMeasured`. That programs meet in one workload does not rest on the barrier:
  `NeverAlone` says that a rank that left a two-node step, or met in it, was not alone
  in it, so neither is ever more than one such step ahead. `PassIsBacked`
  is `PassIsMeasured` with "two carriers are used" where that has a sum of bytes; the
  sum is at least what each device carried (`TotalCountsEach`).
- `FixturesProofs`, for any data files, captures, imports and names: `TypeOK`,
  `ImportedIsWhole`, `NothingHalfImported`, `CaptureEndsClean`, and
  `FoldersAreTheirMakers` as an action property. The name is read from a `meta.json` that
  may be another capture's by then. `NamedInv` says what saves the import: a manifest is
  accepted only of a capture that is over (`Settled`), a file of such a
  capture never comes back, so the check of the copy cannot succeed under a name that is not
  that capture's. For the same reason no earlier manifest than the accepted one is ever in
  the directory again, so the `manifest.json` copied last is that capture's or a later one's
  (`AcceptedInv`, `CopiedInv`). `HeldInv` ties every folder to the place of the import that
  made it.
- `TopoCaptureProofs`, for any list of data files and any number of captures into one
  directory: `TypeOK`, `NothingUnchecked`, `ManifestComesLast`, `EndsAsItSays` and
  `ImplementsDir`. The invariant follows a capture through its places. `SickInv` and
  `MemoryInv` say what a file has passed when it is published, and that the manifest in
  memory lists exactly the files written so far. `RecordInv` takes over at `finish`:
  from there on the manifest, the exit code to come and the data files agree
  (`Settled`). `TrackInv` and `HandlerInv` are about a signal at any step: what the tool
  writes is on the handler's list before it is on the disk (`WillGo`), and the newest entry
  is the manifest, so the handler takes it before the files it lists. In the
  refinement the write of a data file maps to `CaptureDir`'s write, the rename to its
  publication, `prepare_out`, `finish` and the handler to its removals, the rest to
  stutters. The list of tracked paths has no limit in the model; the code's is
  `kMaxTracked` = 64 (`cleanup.cpp:13`), and its five data files need at most 27.

Assumed of the constants: only what the named `ASSUME`s say; TLC evaluates them in
every run. Each inductive invariant was checked by TLC on the run's instance before it
was proved.

Where a proof goes by induction over data (the first guard that applies, the sum over
devices) it takes a least counterexample: `LeastNat`, from the library's theorem
that `<` is well-founded on the naturals. For the sum this includes that the function
which the library's fold defines exists (`SumsOfEverySize`).

Every invariant and every action property of the passing runs is stated by a theorem. Only
model-checked is all liveness (`RunEndsIfStepsDo`, `CliEnds`, `FollowEnds` and the
others under "Fairness"): the prover has no fairness and no ENABLED.

## Findings

One finding has a run that shows it:

- `log_follow_lost`: outages are added up across silent resumes (`backend.py:353`), although
  RFC-0005 (`docs/rfcs/0005-dev-cli-remote-runner.md:628`) says "Log stream drops | kubectl |
  Nothing; the stream resumes".

Observations without a run of their own, met while modelling. Each is part of the
models: the properties hold with it, and their comments say where they leave it out.

The supervisor and the run:

- An error that is no `OstiaError` in gc (`core.py:302`), in teardown or in `_finish` ends with
  OstiaApp's exit 1 (`cli.py:53`), whatever the run had earned; RFC-0005:305 says of exit 1
  "The tests or the command failed". `ExitOneIsATestResult` is about the exit 1 that
  `_pipeline` returns.
- A failed step, or an unreadable or empty junit file, is judged before the skipped GPU tests
  (`guards.py:88`), so such a run ends with 1; RFC-0005:254 says that a skipped GPU test
  "fails the run with exit 3". `FailIsATestResult` says only that a skipped test alone
  never ends so.
- A watchdog that fires while no step has a process group leaves the next step without
  a limit (`supervisor.sh:134`); RFC-0005:215 calls `--timeout` the "Limit for the
  pipeline inside the pod". The Job's deadline is what is left. `WatchdogStopsALiveStep`
  is about a step that was running.
- `_delete` ignores SIGINT only, so a SIGTERM in teardown ends it without a delete
  (`backend.py:645`); RFC-0005:460 says that the CLI deletes "on success, failure,
  Ctrl-C and SIGTERM". The Job's time to live removes it later.
- Exit 2, which RFC-0005 3.5 describes as "Nothing was created", is also the exit of a
  run whose credentials are refused after its Job was created.
- `--keep-on-failure` decides from `steps.json` alone (`backend.py:594`), before the
  verdict, so a run failed only by the junit or summary guards is not kept.

The namespace:

- `run --yes` creates the namespace with restricted labels and only then refuses an RDMA
  profile; RFC-0005:599 says "Nothing created" there.
- A namespace made by somebody else between the test and the apply is relabelled by a
  run, where RFC-0005:517 says that a run "never creates or relabels one" that is
  privileged. The label that says ostia-dev made it depends on the same test, and a
  second `init` takes it away, after which `cleanup --namespace` refuses.
- A namespace that vanishes before the second read is `None`, and `check` ends with a
  `TypeError` (`Reread`). A Job can reach another incarnation of the namespace than
  the one that was checked; `GuardedJobs` is about a Job in the one that was.
- `verify` applies its Job before its `try`: Ctrl-C in that call leaves the probe to its
  deadline. `cleanup --namespace` leaves the ClusterRole. `config.append_table` writes
  through one fixed temporary name, so two prompts at once may lose an answer.

The gate:

- A case that compare skips, because the baseline does not have it or a compatibility field
  other than the topology differs, does not fail a required gate, although `gate.py:275-276`
  says that it "never passes on what it could not compare". `PassIsMeasured` is about the
  cases that can be compared.
- Ctrl-C between `write_pair_json` and the stamp leaves `pair.json` beside unstamped
  records; the command ends with 130 (`PairIffStamped`).

Captures and fixtures:

- `prepare_out` removes the data files of a previous capture before its manifest
  (`pipeline.cpp:347`) and with nothing tracked, and `finish` takes a capture back in
  the same order: a signal or SIGKILL in between leaves a manifest that says complete
  beside missing files, which readers reject, or a `diagnostics.txt` alone, for which
  the next capture refuses the directory; `write_failed_capture` tracks nothing either.
- In `capture._diagnostics` the `mkdtemp` is outside the `try` (`capture.py:178`): an
  `OSError` there makes an accepted capture a rejected one with all files in place.
- An import copies `manifest.json` again, after the data files, and does not compare it
  with the one it accepted: when the capture is replaced after its last file was copied, or
  by one with the same files, or taken back, the folder holds another manifest than its
  files'. `ImportedIsWhole` says what holds: never an earlier one.
- Ctrl-C in the instant between the `mkdir` of a folder and the `try`, or between
  `copy_capture` and the `try` of `import_`, leaves the folder; Ctrl-C while the folder is
  removed leaves the rest of it, because `ignore_errors` is about `OSError`s only. A
  `golden --update` beside an import can write a golden of earlier files, or a file that
  keeps the folder from being removed. `NothingHalfImported` names these ways.
- Ctrl-C between the start of the tool and the `try` of `_run_tool` (`topo/cli.py:268-275`)
  ends `topo capture` while the tool still cleans up; Ctrl-C in the `finally` leaves the file
  with the identifiers (`CaptureEndsClean`).
- A manifest less than two seconds older than a capture counts as fresh
  (`FRESH_SLACK_NS`), so a capture that wrote none may tell of the one before it.

## Not modelled

Left out, and why:

- the topology builder and the canonical identity: pure functions of one fixture, with
  goldens; no order of events changes what they compute, and the goldens test it;
- the UCX transport of the two-node benchmarks: its state is inside libucp;
- the container backend: the pipeline of `RemoteRun` with local processes for calls;
- the arithmetic of windows and deadlines, the bootstrap statistics of a comparison,
  the pooling of baselines and the oracles;
- how the capture sources read a machine, and the matching of identifiers;
- text, formatting and logging; the XML and JSON parsers; the error texts of kubectl
  (`map_error`), which are the two classes refused and lost; doctor and the CI checks
  that read the source tree.
