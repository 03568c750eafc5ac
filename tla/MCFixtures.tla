----------------------------- MODULE MCFixtures -----------------------------
(* One update of all goldens beside one import from a directory into which  *)
(* two more captures go, the first of which fixture-leaks objects to; or    *)
(* beside two imports that may choose one name, with no more captures.      *)
EXTENDS Fixtures, TLC

MCData == {"meta.json", "hwloc.xml"}
MCAlways == {"meta.json", "hwloc.xml"}
MCImporters == {"import-1", "import-2"}
MCNames == {"gcp-l4", "lab-h100"}
MCNameOf == <<"gcp-l4", "lab-h100", "gcp-l4">>
MCNameGiven == [i \in Importers |-> IF i = "import-1" THEN "unknown" ELSE "gcp-l4"]
MCSorted == <<"hwloc.xml", "meta.json">>
MCLeaky == {<<"hwloc.xml", 2>>}
MCStarts == {[n |-> 1, imports |-> {"import-1"}], [n |-> 3, imports |-> MCImporters]}
=============================================================================
