--------------------------- MODULE MCSupervisor ---------------------------
(* Supervisor on one plan that has every kind of step the shell tells apart. *)
EXTENDS Supervisor
MCCodes == {0, 1, 137, 143}
MCPlan == <<"install", "report", "command">>
MCPlanOdd == <<"build", "other", "command">>
=============================================================================
