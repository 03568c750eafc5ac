---------------------------- MODULE TopoCapture ----------------------------
(***************************************************************************)
(* ostia-topo-capture and the directory it writes (core/pipeline.cpp,       *)
(* core/cleanup.cpp, core/manifest.cpp, main.cpp).  The data files are      *)
(* staged in a private scratch directory, validated and searched for        *)
(* identifiers there, copied into --out, and published by a manifest that   *)
(* is renamed into place last.  A write may fail at any step, SIGINT and    *)
(* SIGTERM run the cleanup handler, and SIGKILL runs nothing; the next      *)
(* capture finds what the last one left.                                    *)
(*                                                                          *)
(* A file is who wrote it and whether all of its bytes are there.  What a   *)
(* capture reads from the machine is `sick`: whether its files would break  *)
(* a schema or hold an identifier.                                          *)
(***************************************************************************)
EXTENDS Integers, Sequences, FiniteSets, SequencesExt

CONSTANTS
    kDataFiles,   \* the data files, in the order they are staged
    Always,       \* those that every capture stages (ALWAYS)
    MaxCaptures   \* bound: runs of the tool

ASSUME CaptureAssumption ==
    /\ MaxCaptures \in Nat \ {0}
    /\ kDataFiles \in Seq(Range(kDataFiles)) /\ IsInjective(kDataFiles)
    /\ Always \subseteq Range(kDataFiles)
    /\ "nvml.json" \notin Always
    /\ Range(kDataFiles) \cap {"diagnostics.txt", "manifest.json.tmp", "manifest.json", "other", "."} = {}

Data == Range(kDataFiles)
Record == <<"diagnostics.txt", "manifest.json.tmp", "manifest.json">>
Names == Data \cup Range(Record) \cup {"other"}   \* other: a file of the user's
Dirs == {"out", "id", "scratch"}                  \* --out, --print-id's, Scratch
Paths == Dirs \X (Names \cup {"."})               \* ".": the directory itself

Captures == 1..MaxCaptures
User == MaxCaptures + 1
Nothing == [by |-> 0, whole |-> FALSE]
Content == {Nothing} \cup [by : Captures \cup {User}, whole : BOOLEAN]

VARIABLES
    disk,   \* what is at every path
    doc,    \* what the manifest.json in --out says, while there is one
    sick,   \* per capture: none, or what its checks should find
    t,      \* the tool: where it is, what it holds in memory, and the list for the handler
    exit    \* per capture: running, its exit code, signal or killed

vars == <<disk, doc, sick, t, exit>>

(* The promise of the directory, and the manifest it is about. *)
Promise == INSTANCE CaptureDir WITH
    Data <- Range(kDataFiles), data <- [f \in Data |-> disk[<<"out", f>>]], doc <- doc
NoManifest == Promise!NoManifest

(* The tool before it starts; `why` is leak_or_schema_, other_failure_ and  *)
(* partial_, `left` what a loop over the staged files has still to do.      *)
(* `tracked` is g_tracked without its limit kMaxTracked = 64 (cleanup.cpp): *)
(* a capture of the code's five data files tracks at most 27 entries.       *)
Fresh ==
    [n |-> 0, kind |-> "capture", pc |-> "idle", i |-> 0, staged |-> {}, left |-> {}, why |-> {},
     m |-> NoManifest, written |-> {}, tracked |-> <<>>, mark |-> 0, retry |-> FALSE]

There(p) == disk[p] # Nothing
DirIsEmpty(d) == \A x \in Names : ~There(<<d, x>>)
Dir == IF t.kind = "print_id" THEN "id" ELSE "out"

Init ==
    /\ \E used \in BOOLEAN, other \in BOOLEAN :
          disk = [p \in Paths |->
                    IF \/ used /\ p = <<"out", ".">>
                       \/ used /\ other /\ p = <<"out", "other">>
                    THEN [by |-> User, whole |-> TRUE] ELSE Nothing]
    /\ doc = NoManifest
    /\ sick = [k \in Captures |-> "none"]
    /\ t = Fresh
    /\ exit = [k \in Captures |-> "running"]

-----------------------------------------------------------------------------
(* Steps the tool is made of.                                               *)

At(p) == t.pc = p
Goto(p) == t' = [t EXCEPT !.pc = p, !.i = 1]

Put(p, whole) == disk' = [disk EXCEPT ![p] = [by |-> t.n, whole |-> whole]]
Unlink(ps) == disk' = [p \in Paths |-> IF p \in ps THEN Nothing ELSE disk[p]]
Under(d) == {d} \X (Names \cup {"."})

(* The process is gone: what it held in memory is too. *)
Ends(code) ==
    /\ exit' = [exit EXCEPT ![t.n] = code]
    /\ t' = [Fresh EXCEPT !.n = t.n, !.kind = t.kind]

exit_for(why) ==
    CASE "leak_or_schema" \in why -> "3"
      [] "leak_or_schema" \notin why /\ "other" \in why -> "1"
      [] why \cap {"leak_or_schema", "other"} = {} /\ "partial" \in why -> "2"
      [] OTHER -> "0"

(* Run::go: every failure of the pipeline unwinds the scratch directory. *)
Unwind(why) == t' = [t EXCEPT !.why = @ \cup why, !.pc = "unwind"]

-----------------------------------------------------------------------------
(* main.                                                                    *)

Start ==
    /\ At("idle") /\ t.n < MaxCaptures
    /\ \E kind \in {"capture", "print_id"}, s \in {"none", "schema", "leak"} :
          /\ t' = [Fresh EXCEPT !.n = t.n + 1, !.kind = kind, !.pc = "discover"]
          /\ sick' = [sick EXCEPT ![t.n + 1] = s]
    /\ Unlink(Under("scratch") \cup Under("id"))   \* a killed capture's have other names
    /\ UNCHANGED <<doc, exit>>

Discover ==
    /\ At("discover")
    /\ \/ Goto(IF t.kind = "print_id" THEN "mkid" ELSE "prepare") /\ exit' = exit
       \/ t.kind = "capture" /\ t' = [t EXCEPT !.kind = "failed", !.pc = "prepare"] /\ exit' = exit
       \/ t.kind = "print_id" /\ Ends("1")
    /\ UNCHANGED <<disk, doc, sick>>

-----------------------------------------------------------------------------
(* print_id: the directory and the names a capture can write there are      *)
(* tracked below the mark that capture's own scope goes back to.            *)

MakeIdDir ==
    /\ At("mkid")
    /\ \/ Put(<<"id", ".">>, TRUE) /\ Goto("trackid") /\ exit' = exit
       \/ Ends("1") /\ disk' = disk
    /\ UNCHANGED <<doc, sick>>

IdNames ==
    <<<<"id", ".">>>> \o [k \in 1..Len(kDataFiles) |-> <<"id", kDataFiles[k]>>]
                      \o [k \in 1..Len(Record) |-> <<"id", Record[k]>>]

TrackId ==
    /\ At("trackid")
    /\ t' = [t EXCEPT !.tracked = IdNames, !.mark = Len(IdNames), !.pc = "prepare"]
    /\ UNCHANGED <<disk, doc, sick, exit>>

RemoveTree ==
    /\ At("rmtree")
    /\ Unlink(Under("id"))
    /\ Goto("exit")
    /\ UNCHANGED <<doc, sick, exit>>

-----------------------------------------------------------------------------
(* prepare_out.                                                             *)

Prepared == IF t.kind = "failed" THEN "diagnostics" ELSE "mkscratch"
HasManifest == There(<<Dir, "manifest.json">>)

Prepare ==
    /\ At("prepare")
    /\ \/ /\ ~There(<<Dir, ".">>)
          /\ \/ Put(<<Dir, ".">>, TRUE) /\ Goto(Prepared) /\ exit' = exit
             \/ Ends("1") /\ disk' = disk
       \/ There(<<Dir, ".">>) /\ DirIsEmpty(Dir) /\ Goto(Prepared) /\ UNCHANGED <<disk, exit>>
       \/ ~DirIsEmpty(Dir) /\ HasManifest /\ Goto("clear") /\ UNCHANGED <<disk, exit>>
       \/ ~DirIsEmpty(Dir) /\ ~HasManifest /\ Ends("1") /\ disk' = disk
    /\ UNCHANGED <<doc, sick>>

(* Mutant: the data files are left to be overwritten. *)
ClearRecordOnly == <<"manifest.json", "manifest.json.tmp", "diagnostics.txt">>

ClearOrder == kDataFiles \o <<"manifest.json", "manifest.json.tmp", "diagnostics.txt">>

Clear ==
    /\ At("clear")
    /\ Unlink({<<Dir, ClearOrder[t.i]>>})
    /\ doc' = IF ClearOrder[t.i] = "manifest.json" /\ Dir = "out" THEN NoManifest ELSE doc
    /\ IF t.i < Len(ClearOrder) THEN t' = [t EXCEPT !.i = @ + 1] ELSE Goto(Prepared)
    /\ UNCHANGED <<sick, exit>>

-----------------------------------------------------------------------------
(* stage_and_check.                                                         *)

MakeScratch ==
    /\ At("mkscratch")
    /\ \/ Put(<<"scratch", ".">>, TRUE) /\ Goto("trackscratch")
       \/ t' = [t EXCEPT !.why = @ \cup {"other"}, !.pc = "finish"] /\ disk' = disk
    /\ UNCHANGED <<doc, sick, exit>>

TrackScratch ==
    /\ At("trackscratch")
    /\ t' = [t EXCEPT !.tracked = Append(@, <<"scratch", ".">>), !.pc = "read"]
    /\ UNCHANGED <<disk, doc, sick, exit>>

(* What the sources may give: nvml.json when NVML answered, no nvml.json on *)
(* a machine without a GPU, and a missing one when a GPU machine's NVML did *)
(* not answer; links.json when --links named a file.                        *)
Sources ==
    [have : SUBSET (Data \ Always), nvml_missing : BOOLEAN]
        \ [have : {h \in SUBSET (Data \ Always) : "nvml.json" \in h}, nvml_missing : {TRUE}]

ReadSources ==
    /\ At("read")
    /\ \E s \in Sources :
          LET partial == IF s.nvml_missing THEN {"partial"} ELSE {}
              files == Always \cup s.have
          IN \/ t' = [t EXCEPT !.staged = files, !.left = files, !.why = partial, !.pc = "stage"]
             \/ Unwind(partial \cup {"other"})   \* xml_reimport, links_read, links_schema
    /\ UNCHANGED <<disk, doc, sick, exit>>

(* Of the files left, the one that comes first in the list. *)
First(left) ==
    {f \in left : \E k \in DOMAIN kDataFiles :
                    kDataFiles[k] = f /\ \A j \in 1..(k - 1) : kDataFiles[j] \notin left}

Stage ==
    /\ At("stage")
    /\ \E f \in First(t.left) :
          LET p == <<"scratch", f>>
              last == t.left = {f}
              tracked == Append(t.tracked, p)
          IN \/ /\ Put(p, TRUE)
                /\ t' = [t EXCEPT !.tracked = tracked, !.pc = IF last THEN "validate" ELSE "stage",
                                  !.left = IF last THEN t.staged ELSE @ \ {f}]
             \/ /\ Put(p, FALSE)
                /\ t' = [t EXCEPT !.tracked = tracked, !.why = @ \cup {"other"}, !.pc = "unwind"]
    /\ UNCHANGED <<doc, sick, exit>>

(* A staged file that cannot be read back is not valid either. *)
Validate ==
    /\ At("validate")
    /\ \/ Unwind({"leak_or_schema"})
       \/ sick[t.n] # "schema" /\ t' = [t EXCEPT !.m.sanitized = TRUE, !.pc = "search"]
    /\ UNCHANGED <<disk, doc, sick, exit>>

(* Mutant: a file the search cannot read counts as clean. *)
FindingsReadable == IF sick[t.n] = "leak" THEN {{"leak"}, {}} ELSE {{}}

(* What the search of the staged files may find. *)
Findings ==
    IF sick[t.n] = "leak" THEN {{"leak"}, {"unreadable"}, {"leak", "unreadable"}}
                          ELSE {{}, {"unreadable"}}

LeakSearch ==
    /\ At("search")
    /\ LET p == <<"scratch", "diagnostics.txt">>
           tracked == Append(t.tracked, p)
       IN \/ /\ Put(p, FALSE)
             /\ t' = [t EXCEPT !.tracked = tracked, !.why = @ \cup {"other"}, !.pc = "unwind"]
          \/ /\ Put(p, TRUE)
             /\ \E found \in Findings :
                   t' = [t EXCEPT
                           !.tracked = tracked,
                           !.m.leak_check = IF found = {} THEN "passed" ELSE "failed",
                           !.why = @ \cup (IF "leak" \in found THEN {"leak_or_schema"} ELSE {})
                                     \cup (IF "unreadable" \in found THEN {"other"} ELSE {}),
                           !.pc = IF found = {} THEN "replay" ELSE "unwind"]
    /\ UNCHANGED <<doc, sick, exit>>

Replay ==
    /\ At("replay")
    /\ Goto("publish") \/ Unwind({"other"})
    /\ UNCHANGED <<disk, doc, sick, exit>>

(* Mutant: the data files in --out are not tracked. *)
PublishUntracked ==
    /\ At("publish")
    /\ \E f \in First(t.left) :
          LET p == <<Dir, f>> IN
          Put(p, FALSE) /\ t' = [t EXCEPT !.written = @ \cup {p}, !.pc = "write"]
    /\ UNCHANGED <<doc, sick, exit>>

(* A data file is opened, then its bytes are written and synced. *)
Publish ==
    /\ At("publish")
    /\ \E f \in First(t.left) :
          LET p == <<Dir, f>> IN
          \/ Put(p, FALSE) /\ t' = [t EXCEPT !.tracked = Append(@, p), !.written = @ \cup {p}, !.pc = "write"]
          \/ /\ t' = [t EXCEPT !.tracked = Append(@, p), !.written = @ \cup {p},
                               !.why = @ \cup {"other"}, !.pc = "unwind"]
             /\ disk' = disk
    /\ UNCHANGED <<doc, sick, exit>>

WriteData ==
    /\ At("write")
    /\ \E f \in First(t.left) :
          LET last == t.left = {f} IN
          \/ /\ Put(<<Dir, f>>, TRUE)
             /\ t' = [t EXCEPT !.m.files = @ \cup {f}, !.m.id = last, !.left = @ \ {f},
                               !.pc = IF last THEN "unwind" ELSE "publish"]
          \/ Unwind({"other"}) /\ disk' = disk
    /\ UNCHANGED <<doc, sick, exit>>

(* ~Scratch, on every way out of stage_and_check. *)
UnwindScratch ==
    /\ At("unwind")
    /\ Unlink(Under("scratch"))
    /\ Goto("finish")
    /\ UNCHANGED <<doc, sick, exit>>

-----------------------------------------------------------------------------
(* finish.                                                                  *)

Failed(why) == exit_for(why) \in {"1", "3"}
FailedForm(m) == [m EXCEPT !.by = t.n, !.status = "failed", !.files = {}, !.id = FALSE]

Finish ==
    /\ At("finish")
    /\ IF Failed(t.why)
       THEN Unlink(t.written) /\ t' = [t EXCEPT !.m = FailedForm(@), !.pc = "diagnostics"]
       ELSE /\ t' = [t EXCEPT !.m = [@ EXCEPT !.by = t.n, !.status = IF "partial" \in t.why THEN "partial" ELSE "complete"],
                              !.pc = "diagnostics"]
            /\ disk' = disk
    /\ UNCHANGED <<doc, sick, exit>>

(* write_failed_capture tracks nothing. *)
RecordTracked ==
    IF t.kind = "failed" THEN t.tracked
    ELSE t.tracked \o [k \in 1..Len(Record) |-> <<Dir, Record[k]>>]

WriteDiagnostics ==
    /\ At("diagnostics")
    /\ \E ok \in BOOLEAN :
          /\ Put(<<Dir, "diagnostics.txt">>, ok)
          /\ t' = [t EXCEPT !.tracked = RecordTracked, !.pc = IF ok THEN "manifest" ELSE "recordfails",
                            !.m = IF t.kind = "failed" THEN FailedForm(@) ELSE @]
    /\ UNCHANGED <<doc, sick, exit>>

(* write_manifest_atomic: the temporary file goes whether or not the rename happens. *)
WriteTmp ==
    /\ At("manifest")
    /\ \/ Put(<<Dir, "manifest.json.tmp">>, TRUE) /\ Goto("rename")
       \/ Unlink({<<Dir, "manifest.json.tmp">>}) /\ Goto("recordfails")
    /\ UNCHANGED <<doc, sick, exit>>

Rename ==
    /\ At("rename")
    /\ \/ /\ disk' = [disk EXCEPT ![<<Dir, "manifest.json.tmp">>] = Nothing,
                                  ![<<Dir, "manifest.json">>] = [by |-> t.n, whole |-> TRUE]]
          /\ doc' = IF Dir = "out" THEN t.m ELSE doc
          /\ Goto("sync")
       \/ Unlink({<<Dir, "manifest.json.tmp">>}) /\ Goto("recordfails") /\ doc' = doc
    /\ UNCHANGED <<sick, exit>>

SyncDir ==
    /\ At("sync")
    /\ Goto(IF t.kind = "failed" \/ t.retry THEN "return" ELSE "release") \/ Goto("recordfails")
    /\ UNCHANGED <<disk, doc, sick, exit>>

Release ==
    /\ At("release")
    /\ t' = [t EXCEPT !.tracked = SubSeq(@, 1, t.mark), !.pc = "return"]
    /\ UNCHANGED <<disk, doc, sick, exit>>

(* The catch clauses around write_record: the data files go first, then the record. *)
RecordFails ==
    /\ At("recordfails")
    /\ \/ t.kind = "failed" /\ Goto("return") /\ disk' = disk
       \/ /\ t.kind # "failed" /\ ~t.retry
          /\ Unlink(t.written)
          /\ t' = [t EXCEPT !.why = @ \cup {"other"}, !.m = FailedForm(@), !.pc = "unrecord"]
       \/ t.kind # "failed" /\ t.retry /\ Goto("unrecord") /\ disk' = disk
    /\ UNCHANGED <<doc, sick, exit>>

RemoveRecord ==
    /\ At("unrecord")
    /\ Unlink({<<Dir, Record[k]>> : k \in 1..Len(Record)})
    /\ doc' = IF Dir = "out" THEN NoManifest ELSE doc
    /\ t' = [t EXCEPT !.retry = TRUE, !.pc = IF t.retry THEN "return" ELSE "diagnostics"]
    /\ UNCHANGED <<sick, exit>>

(* ~CleanupScope, then RemoveTree for print_id, then the exit code. *)
Return ==
    /\ At("return")
    /\ t' = [t EXCEPT !.tracked = SubSeq(@, 1, t.mark), !.pc = IF t.kind = "print_id" THEN "rmtree" ELSE "exit"]
    /\ UNCHANGED <<disk, doc, sick, exit>>

Exit ==
    /\ At("exit")
    /\ Ends(IF t.kind = "failed" THEN "1" ELSE exit_for(t.why))
    /\ UNCHANGED <<disk, doc, sick>>

-----------------------------------------------------------------------------
(* SIGINT and SIGTERM run the handler, at any step; SIGKILL ends the tool,  *)
(* the handler included.                                                    *)

Signal ==
    /\ t.pc \notin {"idle", "handler"}
    /\ t' = [t EXCEPT !.pc = "handler", !.i = Len(t.tracked)]
    /\ UNCHANGED <<disk, doc, sick, exit>>

(* Mutant: oldest first. *)
VictimOldest(i) == t.tracked[Len(t.tracked) + 1 - i]

(* The entry the handler removes when i entries are left: the newest. *)
Victim(i) == t.tracked[i]

Handler ==
    /\ At("handler")
    /\ IF t.i = 0
       THEN Ends("signal") /\ UNCHANGED <<disk, doc>>
       ELSE LET p == Victim(t.i) IN
            /\ disk' = IF p[2] = "." /\ ~DirIsEmpty(p[1]) THEN disk ELSE [disk EXCEPT ![p] = Nothing]
            /\ doc' = IF p = <<"out", "manifest.json">> THEN NoManifest ELSE doc
            /\ t' = [t EXCEPT !.i = @ - 1]
            /\ exit' = exit
    /\ sick' = sick

Kill ==
    /\ ~At("idle")
    /\ Ends("killed")
    /\ UNCHANGED <<disk, doc, sick>>

Pipeline ==
    \/ Start \/ Discover \/ MakeIdDir \/ TrackId \/ RemoveTree \/ Prepare \/ Clear
    \/ MakeScratch \/ TrackScratch \/ ReadSources \/ Stage \/ Validate \/ LeakSearch
    \/ Replay \/ Publish \/ WriteData \/ UnwindScratch \/ Finish \/ WriteDiagnostics
    \/ WriteTmp \/ Rename \/ SyncDir \/ Release \/ RecordFails \/ RemoveRecord \/ Return \/ Exit

Next == Pipeline \/ Signal \/ Handler \/ Kill

Spec == Init /\ [][Next]_vars

-----------------------------------------------------------------------------
MainPcs ==
    {"idle", "discover", "mkid", "trackid", "rmtree", "prepare", "clear", "mkscratch", "trackscratch",
     "read", "stage", "validate", "search", "replay", "publish", "write", "unwind", "finish",
     "diagnostics", "manifest", "rename", "sync", "release", "recordfails", "unrecord", "return",
     "exit", "handler"}

Memory ==
    [n : 0..MaxCaptures, kind : {"capture", "failed", "print_id"}, pc : MainPcs, i : Nat,
     staged : SUBSET Data, left : SUBSET Data, why : SUBSET {"leak_or_schema", "other", "partial"},
     m : [by : 0..MaxCaptures, status : {"complete", "partial", "failed"}, sanitized : BOOLEAN,
          leak_check : {"not_run", "passed", "failed"}, files : SUBSET Data, id : BOOLEAN],
     written : SUBSET Paths, tracked : Seq(Paths), mark : Nat, retry : BOOLEAN]

(* Every path, the manifest and the tool's memory hold what the code can    *)
(* put there.                                                               *)
TypeOK ==
    /\ disk \in [Paths -> Content]
    /\ doc \in Promise!Manifest \cup {NoManifest}
    /\ sick \in [Captures -> {"none", "schema", "leak"}]
    /\ exit \in [Captures -> {"running", "0", "1", "2", "3", "signal", "killed"}]
    /\ t \in Memory

(* Published data files of capture k in --out. *)
DataOf(d, k) == {f \in Data : disk[<<d, f>>].by = k}
Mine(k) == {x \in Names : disk[<<"out", x>>].by = k}

(* A manifest that is not failed, with all of its files and no others. *)
Published(k) ==
    /\ doc.by = k /\ doc.status # "failed" /\ doc.sanitized /\ doc.leak_check = "passed" /\ doc.id
    /\ Always \subseteq doc.files /\ doc.files = DataOf("out", k)
    /\ \A f \in doc.files : disk[<<"out", f>>].whole

Over(k, codes) == At("idle") /\ t.n = k /\ exit[k] \in codes

(* No data file reaches --out, not even in part and not even for a moment,  *)
(* from a capture whose files break a schema or hold an identifier (exit 3: *)
(* no data file reaches --out, stage_and_check).                            *)
NothingUnchecked ==
    \A d \in {"out", "id"}, k \in Captures : DataOf(d, k) # {} => sick[k] = "none"

(* The exit code tells what is in --out: 0 and 2 a published capture, 1 and *)
(* 3 no data file and at most a failed manifest; the scratch directory is   *)
(* gone, and no capture that ran its pipeline leaves files without the      *)
(* manifest that the next capture needs to replace them (finish,            *)
(* to_failed_form, remove_record).                                          *)
EndedAsReported ==
    \A k \in Captures : Over(k, {"0", "1", "2", "3"}) =>
        /\ \A p \in Under("scratch") : ~There(p)
        /\ t.kind = "capture" =>
              /\ exit[k] = "0" => Published(k) /\ doc.status = "complete"
              /\ exit[k] = "2" => Published(k) /\ doc.status = "partial"
              /\ Mine(k) # {} => doc.by = k
        /\ exit[k] \in {"1", "3"} =>
              /\ DataOf("out", k) = {}
              /\ doc.by = k => doc.status = "failed" /\ doc.files = {} /\ ~doc.id

(* A signal leaves either a published capture or none of its data files,    *)
(* and nothing in the scratch directory, whichever step it hits (on_signal  *)
(* and the scopes; release keeps what a published manifest lists).          *)
SignalLeavesAllOrNothing ==
    \A k \in Captures : Over(k, {"signal"}) =>
        /\ DirIsEmpty("scratch")
        /\ \/ Published(k)
           \/ DataOf("out", k) = {} /\ (doc.by = k => doc.files = {})

(* While a capture runs, its handler included, a manifest of its own that   *)
(* is not failed has its files: the manifest comes last and goes first, so  *)
(* that even SIGKILL leaves no other (write_manifest_atomic,                *)
(* run_signal_cleanup).  Once a sync of the directory has failed this is    *)
(* not so: finish then removes the data files before the manifest.          *)
ManifestComesLast ==
    ~At("idle") /\ t.n > 0 /\ doc.by = t.n /\ doc.status # "failed" /\ "other" \notin t.why
        => Published(t.n)

(* --print-id keeps nothing: every file of its directory is gone, by its    *)
(* own removal or by the handler (print_id, RemoveTree).                    *)
PrintIdKeepsNothing ==
    \A k \in Captures : Over(k, {"0", "1", "2", "3", "signal"}) /\ t.kind = "print_id" =>
        /\ DirIsEmpty("id")
        /\ exit[k] # "signal" => ~There(<<"id", ".">>)

(* However a capture ends, but for SIGKILL, what it left is what its end    *)
(* says: by its exit code, after a signal, and after --print-id.            *)
EndsAsItSays == EndedAsReported /\ SignalLeavesAllOrNothing /\ PrintIdKeepsNothing

(* --out keeps the promise that readers rely on: files of one capture only, *)
(* written only while there is no manifest, listed only when all are there  *)
(* (prepare_out, stage_and_check, finish, write_manifest_atomic).           *)
ImplementsDir == Promise!DirSpec
=============================================================================
