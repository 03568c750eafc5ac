------------------------------ MODULE Fixtures ------------------------------
(***************************************************************************)
(* `ostia-dev topo capture`, `topo import` and `topo golden --update`       *)
(* (topo/cli.py, topo/importer.py) over one capture directory and the       *)
(* fixture folders captured/<name>.                                         *)
(*                                                                          *)
(* The capture tool is a process of its own.  All that is assumed of it is  *)
(* what CaptureDir promises of the directory (shown of it in TopoCapture),  *)
(* that it writes no data file once it published and that a signal ends it, *)
(* so an import may meet the directory at any moment of a capture.  Imports *)
(* and an update run side by side; Ctrl-C may come at any step of an        *)
(* import, its removal of a folder included, and of a capture.  The content *)
(* of a file is the capture that wrote it and whether all of it is there; a *)
(* model is the contents it was made from.                                  *)
(***************************************************************************)
EXTENDS CaptureDir, SequencesExt

CONSTANTS
    Importers,   \* the imports
    Names,       \* the fixture names
    NameOf,      \* per capture, the name its meta.json makes, or "unknown"
    NameGiven,   \* per import, its --name, or "unknown" for none
    Sorted,      \* the data files in the order of their names
    Leaky,       \* what fixture-leaks finds an identifier in: <<file, capture>>
    Starts       \* how it may begin: the captures there have been, and the imports about to run

ASSUME FixturesAssumption ==
    /\ MaxCaptures > 0 /\ "meta.json" \in Always /\ "hwloc.xml" \in Always
    /\ "nobody" \notin Importers /\ "update" \notin Importers
    /\ NameOf \in [Captures -> Names \cup {"unknown"}] /\ "unknown" \notin Names
    /\ NameGiven \in [Importers -> Names \cup {"unknown"}]
    /\ IsInjective(Sorted) /\ Range(Sorted) = Data
    /\ Leaky \subseteq (Data \cup {"manifest.json"}) \X Captures
    /\ Starts \subseteq [n : Captures, imports : SUBSET Importers]

VARIABLES
    tool,   \* the capture tool: idle, or what it does
    w,      \* the capture command
    imp,    \* the imports
    fix,    \* per name, the folder there is
    g       \* golden --update

vars == <<data, doc, tool, w, imp, fix, g>>
dir == <<data, doc>>

Empty == [f \in Data |-> Nothing]
NoFolder == [by |-> "nobody", files |-> Empty, manifest |-> 0, golden |-> {}, writer |-> "nobody"]

(* The inputs ostia-topo reads in a folder; what is not there is not in the set. *)
Replay(n) == {<<f, fix[n].files[f]>> : f \in {x \in Data : fix[n].files[x] # Nothing}}

Ended(p) == p.pc = "ended"

(* The directory holds a complete capture, and other commands are about to run. *)
Begins(s) ==
    /\ data = [f \in Data |-> [by |-> s.n, whole |-> TRUE]]
    /\ doc = [by |-> s.n, status |-> "complete", sanitized |-> TRUE, leak_check |-> "passed",
              files |-> Data, id |-> TRUE]
    /\ tool = "idle"
    /\ w = [pc |-> "idle", n |-> s.n, ids |-> FALSE, sigint |-> 0,
            raised |-> FALSE, told |-> "nothing"]
    /\ imp = [i \in Importers |->
                [pc |-> IF i \in s.imports THEN "accept" ELSE "ended", acc |-> NoManifest,
                 name |-> "unknown", todo |-> {}, end |-> IF i \in s.imports THEN "" ELSE "failed"]]
    /\ fix = [n \in Names |-> NoFolder]
    /\ g = [pc |-> "idle", todo |-> {}, models |-> [n \in Names |-> {}]]

Init == \E s \in Starts : Begins(s)

-----------------------------------------------------------------------------
(* The capture command.                                                     *)

Working == {"works", "published", "withdraws", "signalled"}

(* _capture_tool: no tool, one to build, or one that is there. *)
FindTool ==
    /\ w.pc \in {"idle", "ended"} /\ w.n < MaxCaptures /\ tool \notin Working
    /\ \E at \in {"build", "identifiers", "ended"} :
          w' = [w EXCEPT !.pc = at, !.n = @ + 1, !.ids = FALSE, !.sigint = 0,
                         !.raised = FALSE, !.told = "nothing"]
    /\ UNCHANGED <<dir, tool, imp, fix, g>>

BuildTool ==
    /\ w.pc = "build"
    /\ \E at \in {"identifiers", "ended"} : w' = [w EXCEPT !.pc = at]
    /\ UNCHANGED <<dir, tool, imp, fix, g>>

(* _identifiers and the private file that hands them to the tool. *)
WriteIdentifiers ==
    /\ w.pc = "identifiers"
    /\ \/ w' = [w EXCEPT !.pc = "ended"]
       \/ \E some \in BOOLEAN : w' = [w EXCEPT !.pc = "popen", !.ids = some]
       \/ w' = [w EXCEPT !.pc = "finally", !.ids = TRUE, !.raised = TRUE]
    /\ UNCHANGED <<dir, tool, imp, fix, g>>

(* The tool starts, or it does not.  Ctrl-C between its start and the try leaves it to itself. *)
Popen ==
    /\ w.pc = "popen"
    /\ \/ w' = [w EXCEPT !.pc = "wait"] /\ tool' = "works"
       \/ w' = [w EXCEPT !.pc = "finally", !.raised = TRUE] /\ tool' = tool
       \/ w' = [w EXCEPT !.pc = "finally", !.raised = TRUE, !.sigint = 2] /\ tool' = "signalled"
    /\ UNCHANGED <<dir, imp, fix, g>>

(* The tool in the directory, in any order that CaptureDir allows, until it publishes. *)
ToolWorks ==
    /\ tool = "works"
    /\ \/ (RemoveData \/ RemoveManifest \/ Write(w.n)) /\ tool' = tool
       \/ Publish(w.n) /\ tool' = "published"
    /\ dir' # dir
    /\ UNCHANGED <<w, imp, fix, g>>

(* The directory was not synced after the rename: finish takes all back, for a failed manifest. *)
ToolWithdraws ==
    /\ tool \in {"published", "withdraws"}
    /\ \/ (RemoveData \/ RemoveManifest) /\ tool' = "withdraws"
       \/ tool = "withdraws" /\ Publish(w.n) /\ doc'.status = "failed" /\ tool' = "published"
    /\ dir' # dir
    /\ UNCHANGED <<w, imp, fix, g>>

(* Published or not: a tool may have refused before it touched anything, failed, or been killed. *)
ToolEnds ==
    /\ tool \in Working \ {"signalled"}
    /\ tool' = "idle"
    /\ UNCHANGED <<dir, w, imp, fix, g>>

(* run_signal_cleanup removes what this capture wrote, the manifest first. *)
SignalledToolWorks ==
    /\ tool = "signalled"
    /\ \/ doc.by = w.n /\ RemoveManifest
       \/ doc.by # w.n /\ RemoveData
    /\ dir' # dir
    /\ \A f \in Data : data'[f] # data[f] => data[f].by = w.n
    /\ UNCHANGED <<tool, w, imp, fix, g>>

(* Nothing of it is left, or it had released what it published. *)
SignalledToolEnds ==
    /\ tool = "signalled" /\ (DataOf(w.n) = {} \/ doc.by = w.n)
    /\ tool' = "idle"
    /\ UNCHANGED <<dir, w, imp, fix, g>>

(* Mutant: the command does not wait for a tool that was interrupted. *)
InterruptOnce ==
    /\ w.pc = "wait" /\ tool \in Working
    /\ tool' = "signalled"
    /\ w' = [w EXCEPT !.sigint = 1, !.pc = "finally", !.raised = TRUE]
    /\ UNCHANGED <<dir, imp, fix, g>>

(* _run_tool: the first Ctrl-C reaches both, and the command waits on; the second ends its wait. *)
Interrupt ==
    /\ w.pc = "wait" /\ tool \in Working
    /\ tool' = "signalled"
    /\ w' = IF w.sigint = 0 THEN [w EXCEPT !.sigint = 1]
            ELSE [w EXCEPT !.sigint = 2, !.pc = "finally", !.raised = TRUE]
    /\ UNCHANGED <<dir, imp, fix, g>>

(* Ctrl-C in the finally keeps the file from being removed; in the report it only cuts it short. *)
InterruptLate ==
    /\ w.pc \in {"finally", "report"}
    /\ w' = [w EXCEPT !.pc = "ended", !.raised = TRUE]
    /\ UNCHANGED <<dir, tool, imp, fix, g>>

Waited ==
    /\ w.pc = "wait" /\ tool \notin Working
    /\ w' = [w EXCEPT !.pc = "finally", !.sigint = 0]
    /\ UNCHANGED <<dir, tool, imp, fix, g>>

Finally ==
    /\ w.pc = "finally"
    /\ w' = [w EXCEPT !.ids = FALSE, !.raised = FALSE, !.pc = IF w.raised THEN "ended" ELSE "report"]
    /\ UNCHANGED <<dir, tool, imp, fix, g>>

(* `old`: what lay in the directory is older than FRESH_SLACK_NS. *)
_fresh_manifest(old) == IF doc = NoManifest \/ (doc.by # w.n /\ old) THEN 0 ELSE doc.by

(* _interpretation, by the manifest it goes by; the tool's exit code is the command's. *)
Report ==
    /\ w.pc = "report"
    /\ \E old \in BOOLEAN :
          w' = [w EXCEPT !.pc = "ended", !.sigint = 0,
                         !.told = CASE _fresh_manifest(old) = 0 -> "nothing"
                                    [] _fresh_manifest(old) = w.n -> "its own"
                                    [] OTHER -> IF old THEN "an old one" ELSE "a recent one"]
    /\ UNCHANGED <<dir, tool, imp, fix, g>>

-----------------------------------------------------------------------------
(* An import.                                                               *)

IGoto(i, p) == imp' = [imp EXCEPT ![i].pc = p]
IEnds(i, how) ==
    imp' = [imp EXCEPT ![i].pc = "ended", ![i].end = how, ![i].todo = {},
                       ![i].acc = IF how = "ok" THEN @ ELSE NoManifest,
                       ![i].name = IF how = "ok" THEN @ ELSE "unknown"]
Mine(i) == fix[imp[i].name]

(* manifest.accept: the manifest is read and checked first, the files it lists after it. *)
check_manifest(m) ==
    /\ m.status # "failed" /\ m.sanitized /\ m.leak_check = "passed" /\ m.id
    /\ Always \subseteq m.files

(* manifest.verify_dir, of a directory that holds the contents d. *)
verify_dir(d, m) ==
    \A f \in Data : d[f] = IF f \in m.files THEN [by |-> m.by, whole |-> TRUE] ELSE Nothing

Accept(i) ==
    /\ imp[i].pc = "accept"
    /\ \/ check_manifest(doc) /\ imp' = [imp EXCEPT ![i].acc = doc, ![i].pc = "verify"]
       \/ ~check_manifest(doc) /\ IEnds(i, "failed")
    /\ UNCHANGED <<dir, tool, w, fix, g>>

Verify(i) ==
    /\ imp[i].pc = "verify"
    /\ IF verify_dir(data, imp[i].acc) /\ imp[i].acc.status = "complete"
       THEN IGoto(i, "name") ELSE IEnds(i, "failed")
    /\ UNCHANGED <<dir, tool, w, fix, g>>

(* --name, or fixture_name: meta.json is read once more. *)
Name(i) ==
    /\ imp[i].pc = "name"
    /\ LET meta == data["meta.json"] IN
       \/ /\ NameGiven[i] # "unknown"
          /\ imp' = [imp EXCEPT ![i].name = NameGiven[i], ![i].pc = "mkdir"]
       \/ /\ NameGiven[i] = "unknown" /\ meta.whole /\ NameOf[meta.by] # "unknown"
          /\ imp' = [imp EXCEPT ![i].name = NameOf[meta.by], ![i].pc = "mkdir"]
       \/ /\ NameGiven[i] = "unknown" /\ (meta.whole => NameOf[meta.by] = "unknown")
          /\ IEnds(i, "failed")
    /\ UNCHANGED <<dir, tool, w, fix, g>>

(* sorted(): of the files left to copy, the one whose name comes first. *)
First(left) ==
    {f \in left : \E k \in DOMAIN Sorted : Sorted[k] = f /\ \A j \in 1..(k - 1) : Sorted[j] \notin left}

(* Mutant: mkdir(exist_ok=True). *)
MkdirAnyway(i) ==
    /\ imp[i].pc = "mkdir"
    /\ imp' = [imp EXCEPT ![i].pc = "gap", ![i].todo = imp[i].acc.files]
    /\ fix' = [fix EXCEPT ![imp[i].name].by = i]
    /\ UNCHANGED <<dir, tool, w, g>>

(* copy_capture: the test for the folder and its mkdir, which fails when there is one by then. *)
Mkdir(i) ==
    /\ imp[i].pc = "mkdir"
    /\ \/ Mine(i).by # "nobody" /\ IEnds(i, "failed") /\ fix' = fix
       \/ /\ Mine(i).by = "nobody"
          /\ imp' = [imp EXCEPT ![i].pc = "gap", ![i].todo = imp[i].acc.files]
          /\ fix' = [fix EXCEPT ![imp[i].name] = [NoFolder EXCEPT !.by = i]]
    /\ UNCHANGED <<dir, tool, w, g>>

Fails(i) == IGoto(i, "rmtree") /\ fix' = fix

(* The files in the order of their names, then the manifest.  At "gap" the folder is made and        *)
(* copy_capture is not in its try yet. *)
CopyFile(i) ==
    /\ imp[i].pc \in {"gap", "copy"} /\ imp[i].todo # {}
    /\ \E f \in First(imp[i].todo) :
       \/ data[f] = Nothing /\ Fails(i)
       \/ /\ data[f] # Nothing
          /\ imp' = [imp EXCEPT ![i].todo = @ \ {f}, ![i].pc = "copy"]
          /\ fix' = [fix EXCEPT ![imp[i].name].files[f] = data[f]]
    /\ UNCHANGED <<dir, tool, w, g>>

CopyManifest(i) ==
    /\ imp[i].pc = "copy" /\ imp[i].todo = {}
    /\ \/ doc = NoManifest /\ Fails(i)
       \/ /\ doc # NoManifest
          /\ IGoto(i, "check")
          /\ fix' = [fix EXCEPT ![imp[i].name].manifest = doc.by]
    /\ UNCHANGED <<dir, tool, w, g>>

(* Mutant: the copy is taken for what was accepted. *)
CheckCopyByName(i) ==
    /\ imp[i].pc = "check"
    /\ IGoto(i, "copied")
    /\ UNCHANGED <<dir, tool, w, fix, g>>

(* verify_dir of the copy: an expected.json in it is an unexpected entry. *)
CheckCopy(i) ==
    /\ imp[i].pc = "check"
    /\ IGoto(i, IF verify_dir(Mine(i).files, imp[i].acc) /\ Mine(i).golden = {} THEN "copied"
                ELSE "rmtree")
    /\ UNCHANGED <<dir, tool, w, fix, g>>

(* At "copied" import_ is not in its try yet. *)
Build(i) ==
    /\ imp[i].pc = "copied"
    /\ IGoto(i, "golden")
    /\ UNCHANGED <<dir, tool, w, fix, g>>

WriteGolden(i) ==
    /\ imp[i].pc = "golden"
    /\ IGoto(i, "scan")
    /\ fix' = [fix EXCEPT ![imp[i].name].golden = Replay(imp[i].name), ![imp[i].name].writer = i]
    /\ UNCHANGED <<dir, tool, w, g>>

(* fixture-leaks over every file of the folder. *)
LeakScan(i) ==
    /\ imp[i].pc = "scan"
    /\ LET there == {<<f, Mine(i).files[f].by>> : f \in Data} \cup {<<"manifest.json", Mine(i).manifest>>}
       IN
       IF there \cap Leaky = {} THEN IEnds(i, "ok") ELSE IGoto(i, "rmtree")
    /\ UNCHANGED <<dir, tool, w, fix, g>>

(* An error that is no file's fault, or Ctrl-C: inside a try the folder is removed, outside one *)
(* it stays as it is, and so does what the removal has not come to when Ctrl-C ends that. *)
InTry == {"copy", "check", "golden", "scan"}
Outside == {"accept", "verify", "name", "mkdir", "gap", "copied", "rmdir"}
CutAt(pc) == IF pc \in {"gap", "copied", "rmdir"} THEN "cut" ELSE "failed"

(* Mutant: only the copy cleans up behind itself. *)
InterruptImportLate(i) ==
    /\ \/ imp[i].pc \in {"copy", "check"} /\ IGoto(i, "rmtree")
       \/ imp[i].pc \in Outside \cup {"golden", "scan"} /\ IEnds(i, CutAt(imp[i].pc))
    /\ UNCHANGED <<dir, tool, w, fix, g>>

InterruptImport(i) ==
    /\ \/ imp[i].pc \in InTry /\ IGoto(i, "rmtree")
       \/ imp[i].pc \in Outside /\ IEnds(i, CutAt(imp[i].pc))
    /\ UNCHANGED <<dir, tool, w, fix, g>>

(* shutil.rmtree(ignore_errors): the entries, then the folder if nothing was put in it since. *)
RemoveEntries(i) ==
    /\ imp[i].pc = "rmtree"
    /\ IGoto(i, "rmdir")
    /\ fix' = [fix EXCEPT ![imp[i].name] = [NoFolder EXCEPT !.by = i]]
    /\ UNCHANGED <<dir, tool, w, g>>

(* ignore_errors is about OSErrors: Ctrl-C ends it, whatever is left of the folder. *)
InterruptRemoval(i) ==
    /\ imp[i].pc = "rmtree"
    /\ IEnds(i, "cut")
    /\ \E left \in SUBSET Data, manifest \in {0, Mine(i).manifest}, golden \in {{}, Mine(i).golden} :
          fix' = [fix EXCEPT ![imp[i].name].files = [f \in Data |-> IF f \in left THEN @[f] ELSE Nothing],
                             ![imp[i].name].manifest = manifest, ![imp[i].name].golden = golden]
    /\ UNCHANGED <<dir, tool, w, g>>

RemoveFolder(i) ==
    /\ imp[i].pc = "rmdir"
    /\ IEnds(i, "failed")
    /\ fix' = IF Mine(i).writer = "update" THEN fix ELSE [fix EXCEPT ![imp[i].name] = NoFolder]
    /\ UNCHANGED <<dir, tool, w, g>>

-----------------------------------------------------------------------------
(* golden --update: all models first, then the goldens that differ.         *)

(* _fixtures: the folders with an input in them. *)
_fixtures == {n \in Names : fix[n].files["hwloc.xml"] # Nothing}

(* Whether all is written or an error ended it, the update is over. *)
UEnds == g' = [pc |-> "ended", todo |-> {}, models |-> [n \in Names |-> {}]]

Choose ==
    /\ g.pc = "idle"
    /\ g' = [g EXCEPT !.todo = _fixtures, !.pc = "model"]
    /\ UNCHANGED <<dir, tool, w, imp, fix>>

(* ostia-topo may refuse a folder, and does when its input is gone. *)
Model ==
    /\ g.pc = "model" /\ g.todo # {}
    /\ \E n \in g.todo :
       \/ /\ n \in _fixtures
          /\ g' = [g EXCEPT !.todo = @ \ {n}, !.models[n] = Replay(n)]
       \/ UEnds
    /\ UNCHANGED <<dir, tool, w, imp, fix>>

Modelled ==
    /\ g.pc = "model" /\ g.todo = {}
    /\ g' = [g EXCEPT !.pc = "write"]
    /\ UNCHANGED <<dir, tool, w, imp, fix>>

Update ==
    /\ g.pc = "write"
    /\ LET left == {n \in Names : g.models[n] # {}} IN
       \/ left = {} /\ UEnds /\ fix' = fix
       \/ \E n \in left :
          \/ /\ fix[n].golden = g.models[n]
             /\ g' = [g EXCEPT !.models[n] = {}] /\ fix' = fix
          \/ /\ fix[n].golden # g.models[n] /\ fix[n].by # "nobody"
             /\ g' = [g EXCEPT !.models[n] = {}]
             /\ fix' = [fix EXCEPT ![n].golden = g.models[n], ![n].writer = "update"]
          \/ /\ fix[n].by = "nobody"
             /\ UEnds /\ fix' = fix
    /\ UNCHANGED <<dir, tool, w, imp>>

-----------------------------------------------------------------------------
AllEnded ==
    /\ w.pc \in {"idle", "ended"} /\ w.n = MaxCaptures /\ tool \notin Working
    /\ \A i \in Importers : Ended(imp[i])
    /\ Ended(g)
    /\ UNCHANGED vars

CaptureStep ==
    \/ FindTool \/ BuildTool \/ WriteIdentifiers \/ Popen \/ Interrupt \/ Waited \/ Finally \/ InterruptLate
    \/ Report

ImportStep(i) ==
    \/ Accept(i) \/ Verify(i) \/ Name(i) \/ Mkdir(i) \/ CopyFile(i) \/ CopyManifest(i)
    \/ CheckCopy(i) \/ Build(i) \/ WriteGolden(i) \/ LeakScan(i)
    \/ RemoveEntries(i) \/ InterruptRemoval(i) \/ RemoveFolder(i)

UpdateStep == Choose \/ Model \/ Modelled \/ Update

Next ==
    \/ CaptureStep \/ ToolWorks \/ ToolWithdraws \/ ToolEnds \/ SignalledToolWorks \/ SignalledToolEnds
    \/ UpdateStep \/ AllEnded
    \/ \E i \in Importers : ImportStep(i) \/ InterruptImport(i)

Spec == Init /\ [][Next]_vars

-----------------------------------------------------------------------------
Imported(i) == imp[i].end = "ok"

(* A fixture that an import reported holds the very files the manifest it accepted listed, all   *)
(* of one capture, whole, with no identifier the scan knows, under that capture's own name       *)
(* unless --name gave another, and with the golden of those files unless an update wrote it:     *)
(* whatever the capture tool did in the directory between the import's six reads of it           *)
(* (import_, copy_capture, verify_dir).  manifest.json is copied last and compared with nothing: *)
(* it may be a later capture's, or the failed one this capture ended with, never an earlier one, *)
(* and it passed the scan. *)
ImportedIsWhole ==
    \A i \in Importers : Imported(i) =>
        LET n == imp[i].name
            k == imp[i].acc.by
        IN
        /\ fix[n].by = i
        /\ \A f \in Data :
              fix[n].files[f] = IF f \in imp[i].acc.files THEN [by |-> k, whole |-> TRUE] ELSE Nothing
        /\ \A f \in imp[i].acc.files : <<f, k>> \notin Leaky
        /\ NameGiven[i] = n \/ NameOf[k] = n
        /\ fix[n].manifest >= k /\ <<"manifest.json", fix[n].manifest>> \notin Leaky
        /\ fix[n].golden = Replay(n) \/ fix[n].writer = "update"

(* A folder whose import is over is an imported fixture.  Three ways are left to leave another   *)
(* one behind: Ctrl-C in the instant before a try begins, Ctrl-C in the removal itself, and an   *)
(* update that writes its golden under the removal (copy_capture, import_: rmtree on every other *)
(* way out). *)
NothingHalfImported ==
    \A n \in Names : \A i \in Importers :
        fix[n].by = i /\ Ended(imp[i]) =>
            Imported(i) \/ imp[i].end = "cut" \/ fix[n].writer = "update"

(* No import changes or removes a folder that another one made; only an update writes into      *)
(* folders it did not make (copy_capture: the mkdir that must make the folder). *)
FoldersAreTheirMakers ==
    [][\A n \in Names :
          fix[n].by # "nobody" /\ fix'[n] # fix[n] =>
             \/ g' # g
             \/ \E i \in Importers : fix[n].by = i /\ imp'[i] # imp[i]]_vars

(* When `topo capture` is over, the file with the identifiers is gone unless Ctrl-C came in the   *)
(* finally that removes it, the tool it ran has ended unless Ctrl-C came a second time or before  *)
(* the wait had begun, and the capture it told of is its own, unless the one before it ended less *)
(* than the two seconds of FRESH_SLACK_NS earlier (capture, _run_tool, _fresh_manifest). *)
CaptureEndsClean ==
    w.pc = "ended" =>
        /\ w.ids => w.raised
        /\ tool \in Working => w.sigint = 2
        /\ w.told # "an old one"
=============================================================================
