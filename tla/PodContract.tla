---------------------------- MODULE PodContract ----------------------------
(***************************************************************************)
(* What a pod promises the CLI, whatever its supervisor does inside: it     *)
(* waits for the code, runs, says once that it has finished, and ends.  Its *)
(* report is what the CLI would conclude from its steps.json.  Supervisor   *)
(* implements this specification; RemoteRun is built on it.                 *)
(***************************************************************************)

VARIABLES
    phase,     \* "waiting", "running", "finished" or "exited"
    report     \* "none", "pass", "fail" or "infra"

podVars == <<phase, report>>

Init == phase = "waiting" /\ report = "none"

\* The code is there in time, or it is not.
Arrive ==
    /\ phase = "waiting"
    /\ phase' = "running"
    /\ UNCHANGED report

GiveUp ==
    /\ phase = "waiting"
    /\ phase' = "exited"
    /\ report' = "infra"

\* The last step is recorded: a test result is in steps.json, once.
Settle ==
    /\ phase = "running" /\ report = "none"
    /\ report' \in {"pass", "fail"}
    /\ UNCHANGED phase

\* The finished line: what was not settled before is not a test result.
Complete ==
    /\ phase = "running"
    /\ phase' = "finished"
    /\ report' = IF report = "none" THEN "infra" ELSE report

\* Collected, or the window is over.
Leave ==
    /\ phase = "finished"
    /\ phase' = "exited"
    /\ UNCHANGED report

\* TERM: whatever was known before, the run counts as terminated.
Terminate ==
    /\ phase # "exited"
    /\ phase' = "exited"
    /\ report' = "infra"

Next == Arrive \/ GiveUp \/ Settle \/ Complete \/ Leave \/ Terminate

Spec == Init /\ [][Next]_podVars
=============================================================================
