---------------------------- MODULE MCVerdicts ----------------------------
(* Verdicts on two ranks, with every kind of junit file the guards tell apart. *)
EXTENDS Verdicts

MCPlan == <<"install", "command", "report">>

File(valid, cases) == [valid |-> valid, cases |-> cases]
Ran1 == [gpu |-> TRUE, skipped |-> FALSE]
Skipped1 == [gpu |-> TRUE, skipped |-> TRUE]
MCFiles == {File(FALSE, {}), File(TRUE, {}), File(TRUE, {Ran1}), File(TRUE, {Ran1, Skipped1})}
=============================================================================
