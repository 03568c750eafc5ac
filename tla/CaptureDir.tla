----------------------------- MODULE CaptureDir -----------------------------
(***************************************************************************)
(* What a capture directory promises whoever reads it (RFC-0003 section 4,  *)
(* as core/pipeline.cpp keeps it): the data files in it are of one capture; *)
(* a data file is written only while there is no manifest; a manifest that  *)
(* is not failed appears, in one step, when all the files it lists are      *)
(* there.  Nothing is promised about removal: files and manifest may go at  *)
(* any time and in any order.                                               *)
(*                                                                          *)
(* A file is who wrote it and whether all of its bytes are there.           *)
(***************************************************************************)
EXTENDS Integers, FiniteSets

CONSTANTS
    Data,         \* the names of data files
    Always,       \* those in every capture that is not failed (ALWAYS)
    MaxCaptures   \* bound: captures into the directory

ASSUME CaptureDirAssumption == MaxCaptures \in Nat /\ Always \subseteq Data

VARIABLES
    data,   \* per name, its content
    doc     \* what manifest.json says, NoManifest when there is none

dirVars == <<data, doc>>

Captures == 1..MaxCaptures
Nothing == [by |-> 0, whole |-> FALSE]
Content == {Nothing} \cup [by : Captures, whole : BOOLEAN]

Manifest ==
    [by : Captures, status : {"complete", "partial", "failed"}, sanitized : BOOLEAN,
     leak_check : {"not_run", "passed", "failed"}, files : SUBSET Data, id : BOOLEAN]

NoManifest ==
    [by |-> 0, status |-> "failed", sanitized |-> FALSE, leak_check |-> "not_run",
     files |-> {}, id |-> FALSE]

DataOf(k) == {f \in Data : data[f].by = k}

DirInit ==
    /\ data = [f \in Data |-> Nothing]
    /\ doc = NoManifest

(* A data file is opened, or its last byte written. *)
Write(k) ==
    /\ doc = NoManifest
    /\ \A f \in Data : data[f].by \in {0, k}
    /\ \E f \in Data, whole \in BOOLEAN : data' = [data EXCEPT ![f] = [by |-> k, whole |-> whole]]
    /\ doc' = doc

(* The manifest is renamed into place. *)
Good(m) ==
    /\ m.status # "failed" /\ m.sanitized /\ m.leak_check = "passed" /\ m.id
    /\ Always \subseteq m.files
    /\ m.files = DataOf(m.by) /\ \A f \in Data : data[f] # Nothing => f \in m.files /\ data[f].whole

Bad(m) == m.status = "failed" /\ m.files = {} /\ ~m.id /\ \A f \in Data : data[f] = Nothing

Publish(k) ==
    /\ doc = NoManifest
    /\ doc' \in Manifest /\ doc'.by = k
    /\ Good(doc') \/ Bad(doc')
    /\ data' = data

RemoveData ==
    /\ \E fs \in SUBSET Data :
          /\ fs # {}
          /\ data' = [f \in Data |-> IF f \in fs THEN Nothing ELSE data[f]]
    /\ doc' = doc

RemoveManifest == doc' = NoManifest /\ data' = data

DirNext == (\E k \in Captures : Write(k) \/ Publish(k)) \/ RemoveData \/ RemoveManifest

DirSpec == DirInit /\ [][DirNext]_dirVars
=============================================================================
