---------------------------- MODULE CaptureFetch ----------------------------
(***************************************************************************)
(* Fetching a capture out of a pod before its teardown (remote/capture.py,  *)
(* topo/manifest.py, backend._read_capture): the manifest is read and       *)
(* checked first, then read again with the files it lists, and the copy is  *)
(* moved into the results only when manifest and hashes agree.  Each read   *)
(* is three execs in the pod, retried once, and tar copies one file after   *)
(* another: the capture tool may be at work in the directory all the while, *)
(* within what CaptureDir promises.  A hash tells bytes apart and not       *)
(* captures: a file of Same has the same bytes in every capture, as on a    *)
(* machine that has not changed between two.                                *)
(***************************************************************************)
EXTENDS CaptureDir

CONSTANT Same   \* data files whose bytes are the same in every capture

ASSUME FetchAssumption == Same \subseteq Data

VARIABLES
    pc,      \* the step of the fetch; accepted, rejected or absent at its end
    again,   \* whether the read under way was tried before
    first,   \* the manifest as first read, once it is checked
    got,     \* the copies that tar has made: manifest.json, then the data files
    dest     \* the run's results: is dest there, its manifest.json and data, diagnostics.txt

vars == <<dirVars, pc, again, first, got, dest>>

NoData == [f \in Data |-> Nothing]
NoCopies == [doc |-> NoManifest, data |-> NoData]
NoDest == [there |-> FALSE, doc |-> NoManifest, data |-> NoData, diagnostics |-> FALSE]
Ended == {"accepted", "rejected", "absent"}

Init ==
    /\ DirInit
    /\ pc = "probe" /\ again = FALSE
    /\ first = NoManifest /\ got = NoCopies /\ dest = NoDest

Second == first # NoManifest

(* The data files of the read under way: what the manifest lists. *)
Wanted == IF Second THEN first.files ELSE {}

(* A rejected capture: dest is made, for diagnostics.txt if it can be had. *)
Reject ==
    /\ pc' = "rejected"
    /\ \E d \in BOOLEAN : dest' = [NoDest EXCEPT !.there = TRUE, !.diagnostics = d]

(* fetch: an OSError of this machine, wherever it happens, is a rejection. *)
LocalIo ==
    /\ pc \notin Ended
    /\ pc' = "rejected"
    /\ UNCHANGED <<dirVars, again, first, got, dest>>

-----------------------------------------------------------------------------
(* One read: the probe, the sizes, the tar.                                 *)

Probe ==
    /\ pc = "probe"
    /\ \/ doc # NoManifest /\ pc' = "sizes" /\ dest' = dest
       \/ doc = NoManifest /\ ~Second /\ pc' = "absent" /\ dest' = dest
       \/ doc = NoManifest /\ Second /\ Reject
    /\ UNCHANGED <<dirVars, again, first, got>>

(* A name that is not a regular file, or a total above the limit, ends the fetch. *)
Sizes ==
    /\ pc = "sizes"
    /\ \/ doc # NoManifest /\ (\A f \in Wanted : data[f] # Nothing) /\ pc' = "tar" /\ dest' = dest
       \/ Reject
    /\ UNCHANGED <<dirVars, again, first, got>>

TarCopies ==
    /\ pc = "tar"
    /\ \/ got.doc = NoManifest /\ doc # NoManifest /\ got' = [got EXCEPT !.doc = doc]
       \/ /\ got.doc # NoManifest
          /\ \E f \in Wanted : /\ got.data[f] = Nothing /\ data[f] # Nothing
                               /\ got' = [got EXCEPT !.data[f] = data[f]]
    /\ UNCHANGED <<dirVars, pc, again, first, dest>>

TarDone == pc = "tar" /\ got.doc # NoManifest /\ \A f \in Wanted : got.data[f] # Nothing

(* Mutant: for as long as it takes. *)
TransportErrorForEver ==
    /\ pc \in {"probe", "sizes", "tar"}
    /\ pc' = "probe" /\ got' = NoCopies
    /\ UNCHANGED <<dirVars, again, first, dest>>

(* An exec that fails, or a tar that misses a file: once more, then no more. *)
TransportError ==
    /\ pc \in {"probe", "sizes", "tar"}
    /\ \/ ~again /\ pc' = "probe" /\ dest' = dest
       \/ again /\ Reject
    /\ again' = TRUE /\ got' = NoCopies
    /\ UNCHANGED <<dirVars, first>>

-----------------------------------------------------------------------------
(* _accept.                                                                 *)

(* manifest.check_manifest *)
check_manifest(m) ==
    /\ m.status # "failed" /\ m.sanitized /\ m.leak_check = "passed" /\ m.id
    /\ Always \subseteq m.files

(* Without jsonschema here no manifest can be checked, and all are rejected. *)
FirstManifest ==
    /\ TarDone /\ ~Second
    /\ \/ check_manifest(got.doc) /\ first' = got.doc /\ pc' = "probe" /\ dest' = dest
       \/ Reject /\ first' = first
    /\ again' = FALSE /\ got' = NoCopies
    /\ UNCHANGED dirVars

(* The bytes the capture of manifest m wrote, or the same bytes. *)
SameBytes(c, f, m) == c.whole /\ (c.by = m.by \/ f \in Same)

(* The hash of a listed file is that of what the manifest's capture wrote. *)
Hash(f, m) == SameBytes(got.data[f], f, m)

verify_dir(m) == \A f \in m.files : Hash(f, m)

(* Mutant: the hashes are enough. *)
UnchangedOrNot == TRUE

(* manifest.json of the second read is, byte for byte, that of the first. *)
Unchanged == got.doc = first

(* The copy is moved into the results, manifest.json with it. *)
Verify ==
    /\ TarDone /\ Second
    /\ LET ok == Unchanged /\ verify_dir(first) IN
       \/ /\ ok /\ pc' = "diagnostics"
          /\ dest' = [NoDest EXCEPT !.there = TRUE, !.doc = got.doc, !.data = got.data]
       \/ ~ok /\ Reject
    /\ UNCHANGED <<dirVars, again, first, got>>

(* diagnostics.txt is fetched if it can be; after that the capture is accepted. *)
Diagnostics ==
    /\ pc = "diagnostics"
    /\ pc' = "accepted"
    /\ \E d \in BOOLEAN : dest' = [dest EXCEPT !.diagnostics = d]
    /\ UNCHANGED <<dirVars, again, first, got>>

Fetch ==
    \/ Probe \/ Sizes \/ TarCopies \/ TransportError
    \/ FirstManifest \/ Verify \/ Diagnostics \/ LocalIo

Next ==
    \/ DirNext /\ UNCHANGED <<pc, again, first, got, dest>>
    \/ Fetch

Spec == Init /\ [][Next]_vars

(* Every exec in the pod returns, and the fetch goes on from there. *)
FairSpec == Spec /\ WF_vars(Fetch)

-----------------------------------------------------------------------------
(* What is always true of the state; only listed files are ever copied. *)
TypeOK ==
    /\ data \in [Data -> Content] /\ doc \in Manifest \cup {NoManifest}
    /\ pc \in {"probe", "sizes", "tar", "diagnostics"} \cup Ended
    /\ again \in BOOLEAN /\ first \in Manifest \cup {NoManifest}
    /\ got \in [doc : Manifest \cup {NoManifest}, data : [Data -> Content]]
    /\ dest \in [there : BOOLEAN, doc : Manifest \cup {NoManifest},
                data : [Data -> Content], diagnostics : BOOLEAN]
    /\ \A f \in Data : got.data[f] # Nothing => f \in first.files

(* The results hold one published capture or nothing of one: its manifest,  *)
(* which was checked, and beside it whole all the files that manifest lists *)
(* and no others, with the bytes its capture wrote, whatever the tool did   *)
(* to the directory between the reads (_accept, verify_dir).                *)
DestIsOneCapture ==
    /\ dest.doc # NoManifest => check_manifest(dest.doc)
    /\ \A f \in Data : dest.data[f] # Nothing => f \in dest.doc.files
    /\ \A f \in dest.doc.files : SameBytes(dest.data[f], f, dest.doc)
    /\ pc = "accepted" => dest.doc # NoManifest

(* A fetch ends, although every read is tried twice and the directory may   *)
(* change under it for ever (_read).                                        *)
FetchEnds == <>(pc \in Ended)
=============================================================================
