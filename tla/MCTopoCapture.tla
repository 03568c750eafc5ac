--------------------------- MODULE MCTopoCapture ---------------------------
(* TopoCapture with one data file that is always staged and one that is not. *)
EXTENDS TopoCapture
MCDataFiles == <<"hwloc.xml", "nvml.json">>
MCAlways == {"hwloc.xml"}
=============================================================================
