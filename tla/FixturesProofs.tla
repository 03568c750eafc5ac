--------------------------- MODULE FixturesProofs ---------------------------
(***************************************************************************)
(* What is proved of the topo commands for any data files, any number of    *)
(* captures into the directory and any number of imports and fixture names. *)
(***************************************************************************)
EXTENDS Fixtures, TLAPS

Models == SUBSET (Data \X Content)
Folder ==
    [by : Importers \cup {"nobody"}, files : [Data -> Content], manifest : Captures \cup {0},
     golden : Models, writer : Importers \cup {"nobody", "update"}]
Import ==
    [pc : {"accept", "verify", "name", "mkdir", "gap", "copy", "check", "copied", "golden", "scan",
           "rmtree", "rmdir", "ended"},
     acc : Manifest \cup {NoManifest}, name : Names \cup {"unknown"}, todo : SUBSET Data,
     end : {"", "ok", "failed", "cut"}]

DirOK == data \in [Data -> Content] /\ doc \in Manifest \cup {NoManifest}
CaptureOK ==
    /\ tool \in {"idle", "works", "published", "withdraws", "signalled"}
    /\ w \in [pc : {"idle", "build", "identifiers", "popen", "wait", "finally", "report", "ended"},
              n : Captures, ids : BOOLEAN, sigint : {0, 1, 2}, raised : BOOLEAN,
              told : {"nothing", "its own", "a recent one", "an old one"}]
UpdateOK ==
    g \in [pc : {"idle", "model", "write", "ended"}, todo : SUBSET Names, models : [Names -> Models]]

(* Every variable of the topo commands has its type. *)
TypeOK ==
    /\ DirOK /\ CaptureOK /\ UpdateOK
    /\ imp \in [Importers -> Import] /\ fix \in [Names -> Folder]

-----------------------------------------------------------------------------
(* The capture command: the file with the identifiers is there only until the finally, unless    *)
(* Ctrl-C ended that, and the tool works only under its wait, or when Ctrl-C ended or forestalled *)
(* the wait. *)
CaptureInv ==
    /\ w.ids => w.pc \in {"popen", "wait", "finally"} \/ (w.pc = "ended" /\ w.raised)
    /\ tool \in Working =>
          \/ w.pc = "wait"
          \/ w.sigint = 2 /\ (w.pc = "ended" \/ (w.pc = "finally" /\ w.raised))
    /\ w.told # "an old one"

(* Nothing more is written by capture k. *)
Settled(k) ==
    \/ k < w.n
    \/ k = w.n /\ tool # "works" /\ w.pc \notin {"build", "identifiers", "popen"}

DocInv == doc # NoManifest => Settled(doc.by)

Holding == {"gap", "copy", "check", "copied", "golden", "scan", "rmtree", "rmdir"}
Checked == {"copied", "golden", "scan"}

(* An import past its accept has a manifest that passed the checks, of a capture that is over;   *)
(* whatever manifest is in the directory since is no earlier one. *)
AcceptedInv(i) ==
    imp[i].pc \notin {"accept", "ended"} \/ Imported(i) =>
        /\ imp[i].acc \in Manifest
        /\ check_manifest(imp[i].acc)
        /\ Settled(imp[i].acc.by)
        /\ doc = NoManifest \/ doc.by >= imp[i].acc.by

(* The name is the given one or that of the capture accepted.  If it is neither, the meta.json   *)
(* it was read from was of another capture, so the one accepted is gone and cannot be copied.    *)
NamedInv(i) ==
    imp[i].pc \in {"mkdir"} \cup (Holding \ {"rmtree", "rmdir"}) \/ Imported(i) =>
        LET n == imp[i].name
            k == imp[i].acc.by
        IN
        /\ n \in Names
        /\ \/ n = NameGiven[i] \/ n = NameOf[k]
           \/ /\ data["meta.json"].by # k
              /\ imp[i].pc # "mkdir" => fix[n].files["meta.json"].by # k

(* An import holds the folder of its name from its mkdir on and no other; what it leaves when    *)
(* it ends is a fixture, or was left by Ctrl-C outside a try, or has an update's golden.         *)
HeldInv(i) ==
    /\ imp[i].pc \in Holding \/ Imported(i) => imp[i].name \in Names /\ fix[imp[i].name].by = i
    /\ imp[i].pc # "ended" => imp[i].end = ""
    /\ \A n \in Names : fix[n].by = i =>
          \/ imp[i].pc \in Holding /\ imp[i].name = n
          \/ /\ imp[i].pc = "ended"
             /\ \/ Imported(i) /\ imp[i].name = n
                \/ imp[i].end = "cut" \/ fix[n].writer = "update"

(* From the check of the copy on, the folder holds what was accepted; its manifest.json is at    *)
(* least as late from its copy on. *)
CopiedInv(i) ==
    /\ imp[i].pc \in {"check"} \cup Checked \/ Imported(i) => Mine(i).manifest >= imp[i].acc.by
    /\ imp[i].pc \in Checked \/ Imported(i) => verify_dir(Mine(i).files, imp[i].acc)
    /\ imp[i].pc = "scan" \/ Imported(i) =>
          Mine(i).golden = Replay(imp[i].name) \/ Mine(i).writer = "update"
    /\ Imported(i) =>
          /\ \A f \in imp[i].acc.files : <<f, imp[i].acc.by>> \notin Leaky
          /\ <<"manifest.json", Mine(i).manifest>> \notin Leaky

ImportInv(i) == AcceptedInv(i) /\ NamedInv(i) /\ HeldInv(i) /\ CopiedInv(i)

Inv == TypeOK /\ CaptureInv /\ DocInv /\ \A i \in Importers : ImportInv(i)

-----------------------------------------------------------------------------
(* A directory with one complete capture and no folders is where it starts. *)
LEMMA InitInv == Init => Inv
<1> SUFFICES ASSUME NEW s \in Starts, Begins(s) PROVE Inv
    BY DEF Init
<1> USE CaptureDirAssumption, FixturesAssumption
<1>0. s.n \in Captures
    OBVIOUS
<1>1. DirOK
  <2>1. doc \in Manifest
      BY <1>0 DEF Begins, Manifest
  <2>2. data \in [Data -> Content]
      BY <1>0 DEF Begins, Content
  <2> QED
      BY <2>1, <2>2 DEF DirOK
<1>2. CaptureOK
    BY <1>0 DEF CaptureOK, Begins
<1>3. UpdateOK
    BY DEF UpdateOK, Begins, Models
<1>4. imp \in [Importers -> Import]
    BY DEF Begins, Import
<1>5. NoFolder \in Folder
    BY DEF NoFolder, Folder, Empty, Content, Models
<1>6. fix \in [Names -> Folder]
    BY <1>5 DEF Begins
<1>7. CaptureInv /\ DocInv
    BY DEF Begins, CaptureInv, DocInv, Settled, Working
<1>8. ASSUME NEW i \in Importers PROVE ImportInv(i)
    BY DEF Begins, ImportInv, AcceptedInv, NamedInv, HeldInv, CopiedInv, Imported, Holding, Checked, NoFolder
<1> QED
    BY <1>1, <1>2, <1>3, <1>4, <1>6, <1>7, <1>8 DEF Inv, TypeOK

-----------------------------------------------------------------------------
(* What the capture command and its tool do, seen by the imports: a capture that is over stays   *)
(* over, a file of it that is not there does not come back, and a new manifest is the last       *)
(* capture's.                                                                                    *)
DirMoves ==
    /\ doc' \in {doc, NoManifest} \/ doc'.by = w.n
    /\ \A k \in Captures : Settled(k) => Settled(k)'
    /\ \A k \in Captures : \A f \in Data : Settled(k) /\ data'[f].by = k => data[f].by = k
    /\ UNCHANGED <<imp, fix, g>>

(* A step of the command alone leaves the directory as it is. *)
LEMMA CommandSteps ==
    ASSUME Inv, CaptureStep
    PROVE  DirOK' /\ CaptureOK' /\ CaptureInv' /\ DocInv' /\ DirMoves
<1> USE CaptureDirAssumption, FixturesAssumption
<1>0. DirOK /\ CaptureOK /\ CaptureInv /\ DocInv
    BY DEF Inv, TypeOK
<1>1. UNCHANGED <<dir, imp, fix, g>>
    BY DEF CaptureStep, FindTool, BuildTool, WriteIdentifiers, Popen, Interrupt, Waited, Finally, InterruptLate,
           Report
<1>2. DirOK'
    BY <1>0, <1>1 DEF DirOK, dir
<1>3. ASSUME CaptureOK', CaptureInv', \A k \in Captures : Settled(k) => Settled(k)'
      PROVE  DirOK' /\ CaptureOK' /\ CaptureInv' /\ DocInv' /\ DirMoves
  <2>1. DocInv'
      BY <1>0, <1>1, <1>3 DEF DocInv, DirOK, Manifest, dir
  <2> QED
      BY <1>1, <1>2, <1>3, <2>1 DEF DirMoves, dir
<1>4. CASE FindTool
  <2>0. w.n \in Captures
      BY <1>0 DEF CaptureOK
  <2>a. w.n < MaxCaptures /\ w'.n = w.n + 1
      BY <1>0, <1>4 DEF CaptureOK, FindTool
  <2>b. w.n + 1 \in Captures /\ \A k \in Captures : k <= w.n => k < w.n + 1
      BY <2>0, <2>a DEF Captures
  <2>1. CaptureOK'
      BY <1>0, <1>4, <2>b DEF CaptureOK, FindTool
  <2>2. CaptureInv'
      BY <1>0, <1>4 DEF CaptureOK, CaptureInv, FindTool, Captures, Working
  <2>3. \A k \in Captures : Settled(k) => Settled(k)'
    <3>1. \A k \in Captures : Settled(k) => k <= w.n
        BY <2>0 DEF Settled, Captures
    <3> QED
        BY <2>a, <2>b, <3>1 DEF Settled
  <2> QED
      BY <1>3, <2>1, <2>2, <2>3
<1>5. CASE BuildTool
  <2>1. CaptureOK' /\ CaptureInv'
      BY <1>0, <1>5 DEF CaptureOK, CaptureInv, BuildTool, Working
  <2>2. \A k \in Captures : Settled(k) => Settled(k)'
      BY <1>0, <1>5 DEF CaptureOK, Settled, BuildTool
  <2> QED
      BY <1>3, <2>1, <2>2
<1>6. CASE WriteIdentifiers
  <2>1. CaptureOK' /\ CaptureInv'
      BY <1>0, <1>6 DEF CaptureOK, CaptureInv, WriteIdentifiers, Working
  <2>2. \A k \in Captures : Settled(k) => Settled(k)'
      BY <1>0, <1>6 DEF CaptureOK, Settled, WriteIdentifiers
  <2> QED
      BY <1>3, <2>1, <2>2
<1>7. CASE Popen
  <2>1. CaptureOK' /\ CaptureInv'
      BY <1>0, <1>7 DEF CaptureOK, CaptureInv, Popen, Working
  <2>2. \A k \in Captures : Settled(k) => Settled(k)'
      BY <1>0, <1>7 DEF CaptureOK, Settled, Popen
  <2> QED
      BY <1>3, <2>1, <2>2
<1>8. CASE Interrupt
  <2>1. CaptureOK'
      BY <1>0, <1>8 DEF CaptureOK, Interrupt
  <2>3. w.sigint = 0 \/ (w'.sigint = 2 /\ w'.pc = "finally" /\ w'.raised)
      BY <1>0, <1>8 DEF CaptureOK, Interrupt
  <2>4. CaptureInv'
      BY <1>0, <1>8, <2>3 DEF CaptureOK, CaptureInv, Interrupt, Working
  <2>2. \A k \in Captures : Settled(k) => Settled(k)'
      BY <1>0, <1>8 DEF CaptureOK, Settled, Interrupt
  <2> QED
      BY <1>3, <2>1, <2>2, <2>4
<1>9. CASE Waited
  <2>1. CaptureOK' /\ CaptureInv'
      BY <1>0, <1>9 DEF CaptureOK, CaptureInv, Waited, Working
  <2>2. \A k \in Captures : Settled(k) => Settled(k)'
      BY <1>0, <1>9 DEF CaptureOK, Settled, Waited
  <2> QED
      BY <1>3, <2>1, <2>2
<1>10. CASE Finally
  <2>1. CaptureOK' /\ CaptureInv'
      BY <1>0, <1>10 DEF CaptureOK, CaptureInv, Finally, Working
  <2>2. \A k \in Captures : Settled(k) => Settled(k)'
      BY <1>0, <1>10 DEF CaptureOK, Settled, Finally
  <2> QED
      BY <1>3, <2>1, <2>2
<1>11. CASE Report
  <2>1. PICK old \in BOOLEAN :
          w' = [w EXCEPT !.pc = "ended", !.sigint = 0,
                         !.told = CASE _fresh_manifest(old) = 0 -> "nothing"
                                    [] _fresh_manifest(old) = w.n -> "its own"
                                    [] OTHER -> IF old THEN "an old one" ELSE "a recent one"]
      BY <1>11 DEF Report
  <2>2. old => _fresh_manifest(old) \in {0, w.n}
      BY DEF _fresh_manifest
  <2>3. CaptureOK'
      BY <1>0, <1>11, <2>1 DEF CaptureOK, Report
  <2>4. w'.told # "an old one"
      BY <1>0, <2>1, <2>2 DEF CaptureOK
  <2>5. CaptureInv'
      BY <1>0, <1>11, <2>1, <2>4 DEF CaptureOK, CaptureInv, Report, Working
  <2>6. \A k \in Captures : Settled(k) => Settled(k)'
      BY <1>0, <1>11, <2>1 DEF CaptureOK, Settled, Report
  <2> QED
      BY <1>3, <2>3, <2>5, <2>6
<1>12. CASE InterruptLate
  <2>1. CaptureOK' /\ CaptureInv'
      BY <1>0, <1>12 DEF CaptureOK, CaptureInv, InterruptLate, Working
  <2>2. \A k \in Captures : Settled(k) => Settled(k)'
      BY <1>0, <1>12 DEF CaptureOK, Settled, InterruptLate
  <2> QED
      BY <1>3, <2>1, <2>2
<1> QED
    BY <1>4, <1>5, <1>6, <1>7, <1>8, <1>9, <1>10, <1>11, <1>12 DEF CaptureStep

(* The tool writes only files of the command's last capture, and a manifest only when it is done. *)
LEMMA ToolSteps ==
    ASSUME Inv, ToolWorks \/ ToolWithdraws \/ ToolEnds \/ SignalledToolWorks \/ SignalledToolEnds
    PROVE  DirOK' /\ CaptureOK' /\ CaptureInv' /\ DocInv' /\ DirMoves
<1> USE CaptureDirAssumption, FixturesAssumption
<1>0. DirOK /\ CaptureOK /\ CaptureInv /\ DocInv
    BY DEF Inv, TypeOK
<1>1. UNCHANGED <<w, imp, fix, g>>
    BY DEF ToolWorks, ToolWithdraws, ToolEnds, SignalledToolWorks, SignalledToolEnds
<1>2. CASE ToolEnds
  <2>1. CaptureOK' /\ CaptureInv' /\ DirOK'
      BY <1>0, <1>2 DEF CaptureOK, CaptureInv, DirOK, ToolEnds, Working, dir
  <2>2. \A k \in Captures : Settled(k) => Settled(k)'
      BY <1>0, <1>2 DEF CaptureOK, Settled, ToolEnds, Working
  <2>3. DocInv'
      BY <1>0, <1>2, <2>2 DEF DocInv, ToolEnds, DirOK, Manifest, dir
  <2> QED
      BY <1>1, <1>2, <2>1, <2>2, <2>3 DEF DirMoves, ToolEnds, dir
<1>3. CASE SignalledToolEnds
  <2>1. CaptureOK' /\ CaptureInv' /\ DirOK'
      BY <1>0, <1>3 DEF CaptureOK, CaptureInv, DirOK, SignalledToolEnds, Working, dir
  <2>2. \A k \in Captures : Settled(k) => Settled(k)'
      BY <1>0, <1>3 DEF CaptureOK, Settled, SignalledToolEnds
  <2>3. DocInv'
      BY <1>0, <1>3, <2>2 DEF DocInv, SignalledToolEnds, DirOK, Manifest, dir
  <2> QED
      BY <1>1, <1>3, <2>1, <2>2, <2>3 DEF DirMoves, SignalledToolEnds, dir
<1>5. CASE SignalledToolWorks
  <2>1. CaptureOK' /\ CaptureInv' /\ tool' = tool
      BY <1>0, <1>1, <1>5 DEF CaptureOK, CaptureInv, SignalledToolWorks
  <2>2. \A k \in Captures : Settled(k) => Settled(k)'
      BY <1>1, <2>1 DEF Settled
  <2>3. DirOK' /\ doc' \in {doc, NoManifest} /\ \A f \in Data : data'[f] \in {data[f], Nothing}
      BY <1>0, <1>5 DEF DirOK, SignalledToolWorks, RemoveManifest, RemoveData, Content
  <2>4. DocInv'
      BY <1>0, <2>2, <2>3 DEF DocInv, DirOK, Manifest
  <2>5. \A k \in Captures : \A f \in Data : Settled(k) /\ data'[f].by = k => data[f].by = k
      BY <2>3 DEF Nothing, Captures
  <2> QED
      BY <1>1, <2>1, <2>2, <2>3, <2>4, <2>5 DEF DirMoves
<1>6. CASE ToolWithdraws
  <2>1. CaptureOK' /\ CaptureInv' /\ tool \in Working \ {"works"} /\ tool' # "works"
      BY <1>0, <1>6 DEF CaptureOK, CaptureInv, ToolWithdraws, Working
  <2>2. \A k \in Captures : Settled(k) => Settled(k)'
      BY <1>1, <2>1 DEF Settled
  <2>3. CASE Publish(w.n)
    <3>1. data' = data /\ doc' \in Manifest /\ doc'.by = w.n
        BY <2>3 DEF Publish
    <3>2. w.pc \notin {"build", "identifiers", "popen"}
        BY <1>0, <2>1 DEF CaptureInv, CaptureOK
    <3>3. DirOK' /\ DocInv'
        BY <1>0, <1>1, <2>1, <3>1, <3>2 DEF DirOK, DocInv, Settled
    <3> QED
        BY <1>1, <2>1, <2>2, <3>1, <3>3 DEF DirMoves
  <2>4. CASE RemoveManifest \/ RemoveData
    <3>1. DirOK' /\ doc' \in {doc, NoManifest} /\ \A f \in Data : data'[f] \in {data[f], Nothing}
        BY <1>0, <2>4 DEF DirOK, RemoveManifest, RemoveData, Content
    <3>2. DocInv'
        BY <1>0, <2>2, <3>1 DEF DocInv, DirOK, Manifest
    <3>3. \A k \in Captures : \A f \in Data : Settled(k) /\ data'[f].by = k => data[f].by = k
        BY <3>1 DEF Nothing, Captures
    <3> QED
        BY <1>1, <2>1, <2>2, <3>1, <3>2, <3>3 DEF DirMoves
  <2> QED
      BY <1>6, <2>3, <2>4 DEF ToolWithdraws
<1>4. CASE ToolWorks
  <2>1. CaptureOK' /\ CaptureInv' /\ tool = "works" /\ tool' \in {tool, "published"}
      BY <1>0, <1>4 DEF CaptureOK, CaptureInv, ToolWorks, Working
  <2>2. \A k \in Captures : Settled(k) => k # w.n /\ Settled(k)'
    <3>0. w.n \in Captures
        BY <1>0 DEF CaptureOK
    <3>1. ~(w.n < w.n)
        BY <3>0 DEF Captures
    <3> QED
        BY <1>1, <2>1, <3>1 DEF Settled
  <2>3. \/ RemoveData \/ RemoveManifest \/ Write(w.n) \/ (Publish(w.n) /\ tool' = "published")
      BY <1>4 DEF ToolWorks
  <2>4. CASE RemoveData
    <3>1. DirOK' /\ doc' = doc /\ \A f \in Data : data'[f] \in {data[f], Nothing}
        BY <1>0, <2>4 DEF DirOK, RemoveData, Content
    <3>2. DocInv'
        BY <1>0, <2>2, <3>1 DEF DocInv, DirOK, Manifest
    <3>3. \A k \in Captures : \A f \in Data : Settled(k) /\ data'[f].by = k => data[f].by = k
        BY <3>1 DEF Nothing, Captures
    <3> QED
        BY <1>1, <2>1, <2>2, <3>1, <3>2, <3>3 DEF DirMoves
  <2>5. CASE RemoveManifest
    <3>1. DirOK' /\ DocInv' /\ data' = data /\ doc' = NoManifest
        BY <1>0, <2>5 DEF DirOK, DocInv, RemoveManifest
    <3> QED
        BY <1>1, <2>1, <2>2, <3>1 DEF DirMoves
  <2>6. CASE Write(w.n)
    <3>1. PICK h \in Data, whole \in BOOLEAN : data' = [data EXCEPT ![h] = [by |-> w.n, whole |-> whole]]
        BY <2>6 DEF Write
    <3>2. DirOK' /\ doc' = doc
        BY <1>0, <2>6, <3>1 DEF DirOK, Write, Content, CaptureOK
    <3>3. DocInv'
        BY <1>0, <2>2, <3>2 DEF DocInv, DirOK, Manifest
    <3>4. \A f \in Data : data'[f] = data[f] \/ data'[f].by = w.n
        BY <1>0, <3>1 DEF DirOK
    <3>5. \A k \in Captures : \A f \in Data : Settled(k) /\ data'[f].by = k => data[f].by = k
        BY <2>2, <3>4
    <3> QED
        BY <1>1, <2>1, <2>2, <3>2, <3>3, <3>5 DEF DirMoves
  <2>7. CASE Publish(w.n) /\ tool' = "published"
    <3>1. data' = data /\ doc' \in Manifest /\ doc'.by = w.n
        BY <2>7 DEF Publish
    <3>2. DirOK'
        BY <1>0, <3>1 DEF DirOK
    <3>3. w.pc \notin {"build", "identifiers", "popen"}
        BY <1>0, <2>1 DEF CaptureInv, Working, CaptureOK
    <3>4. DocInv'
        BY <1>1, <2>7, <3>1, <3>3 DEF DocInv, Settled
    <3> QED
        BY <1>1, <2>1, <2>2, <3>1, <3>2, <3>4 DEF DirMoves
  <2> QED
      BY <2>3, <2>4, <2>5, <2>6, <2>7
<1> QED
    BY <1>2, <1>3, <1>4, <1>5, <1>6

(* What the imports rely on outlives the steps of the capture. *)
LEMMA ImportsOutlast ==
    ASSUME Inv, DirMoves, NEW i \in Importers
    PROVE  ImportInv(i)'
<1>0. ImportInv(i) /\ imp[i] \in Import
    BY DEF Inv, TypeOK
<1>1. imp' = imp /\ fix' = fix
    BY DEF DirMoves
<1>2. AcceptedInv(i)'
  <2>1. SUFFICES ASSUME imp[i].pc \notin {"accept", "ended"} \/ Imported(i)
                 PROVE  AcceptedInv(i)'
      BY <1>1 DEF AcceptedInv, Imported
  <2>2. /\ imp[i].acc \in Manifest /\ check_manifest(imp[i].acc) /\ Settled(imp[i].acc.by)
        /\ doc = NoManifest \/ doc.by >= imp[i].acc.by
      BY <1>0, <2>1 DEF ImportInv, AcceptedInv
  <2>3. imp[i].acc.by \in Captures /\ Settled(imp[i].acc.by)'
      BY <2>2 DEF DirMoves, Manifest
  <2>4. w.n >= imp[i].acc.by
    <3>1. w.n \in Captures
        BY DEF Inv, TypeOK, CaptureOK
    <3> QED
        BY <2>2, <2>3, <3>1 DEF Settled, Captures
  <2>5. doc' = NoManifest \/ doc'.by >= imp[i].acc.by
      BY <2>2, <2>4 DEF DirMoves
  <2> QED
      BY <1>1, <2>2, <2>3, <2>5 DEF AcceptedInv, check_manifest
<1>3. NamedInv(i)'
  <2>1. SUFFICES ASSUME imp[i].pc \in {"mkdir"} \cup (Holding \ {"rmtree", "rmdir"}) \/ Imported(i)
                 PROVE  NamedInv(i)'
      BY <1>1 DEF NamedInv, Imported
  <2>2. imp[i].acc \in Manifest /\ Settled(imp[i].acc.by)
      BY <1>0, <2>1 DEF ImportInv, AcceptedInv, Holding
  <2>3. data["meta.json"].by # imp[i].acc.by => data'["meta.json"].by # imp[i].acc.by
      BY <2>2, CaptureDirAssumption, FixturesAssumption DEF DirMoves, Manifest
  <2> QED
      BY <1>0, <1>1, <2>1, <2>3 DEF ImportInv, NamedInv, Imported
<1>4. HeldInv(i)'
    BY <1>0, <1>1 DEF ImportInv, HeldInv, Imported
<1>5. CopiedInv(i)'
    BY <1>0, <1>1 DEF ImportInv, CopiedInv, Imported, Mine, verify_dir, Replay
<1> QED
    BY <1>2, <1>3, <1>4, <1>5 DEF ImportInv

-----------------------------------------------------------------------------
(* The step of one import: it leaves the other imports alone, and touches no folder but its own  *)
(* and one that nobody made.                                                                     *)
Alone(i) ==
    /\ UNCHANGED <<data, doc, tool, w, g>>
    /\ \A j \in Importers \ {i} : imp'[j] = imp[j]
    /\ \A n \in Names : fix'[n] = fix[n] \/ (fix[n].by \in {i, "nobody"} /\ fix'[n].by \in {i, "nobody"})

(* What the other imports rely on outlives it. *)
LEMMA OthersKeep ==
    ASSUME Inv, NEW i \in Importers, Alone(i), NEW j \in Importers \ {i}
    PROVE  ImportInv(j)'
<1>0. ImportInv(j) /\ imp[j] \in Import /\ imp'[j] = imp[j] /\ UNCHANGED <<data, doc, tool, w>>
    BY DEF Inv, TypeOK, Alone
<1>1. j \notin {i, "nobody"}
    BY FixturesAssumption
<1>2. \A n \in Names : fix[n].by = j \/ fix'[n].by = j => fix'[n] = fix[n]
    BY <1>1 DEF Alone
<1>3. imp[j].pc \in Holding \/ Imported(j) =>
        imp[j].name \in Names /\ fix[imp[j].name].by = j /\ fix'[imp[j].name] = fix[imp[j].name]
    BY <1>0, <1>2 DEF ImportInv, HeldInv
<1>4. AcceptedInv(j)'
    BY <1>0 DEF ImportInv, AcceptedInv, Imported, Settled, check_manifest
<1>5. NamedInv(j)'
    BY <1>0, <1>3 DEF ImportInv, NamedInv, Imported, Holding
<1>6. HeldInv(j)'
    BY <1>0, <1>2, <1>3 DEF ImportInv, HeldInv, Imported
<1>7. CopiedInv(j)'
  <2>1. SUFFICES ASSUME imp[j].pc \in {"check"} \cup Checked \/ Imported(j) PROVE CopiedInv(j)'
      BY <1>0 DEF CopiedInv, Imported, Checked
  <2>2. Mine(j)' = Mine(j) /\ Replay(imp[j].name)' = Replay(imp[j].name)
      BY <1>0, <1>3, <2>1 DEF Mine, Replay, Holding, Checked
  <2> QED
      BY <1>0, <2>1, <2>2 DEF ImportInv, CopiedInv, Imported, verify_dir, Replay, Mine
<1> QED
    BY <1>4, <1>5, <1>6, <1>7 DEF ImportInv

(* What is shown of a step of import i. *)
Keeps(i) ==
    /\ Alone(i)
    /\ imp' \in [Importers -> Import] /\ fix' \in [Names -> Folder]
    /\ ImportInv(i)'

(* An import only moves on, and touches no folder. *)
LEMMA MovesAreTyped ==
    ASSUME Inv, NEW i \in Importers, NEW p, UNCHANGED <<dir, tool, w, fix, g>>,
           IGoto(i, p), [imp[i] EXCEPT !.pc = p] \in Import
    PROVE  /\ Alone(i) /\ imp' \in [Importers -> Import] /\ fix' \in [Names -> Folder]
           /\ imp'[i] = [imp[i] EXCEPT !.pc = p]
    BY DEF Inv, TypeOK, IGoto, Alone, dir

(* An import ends; of what it held it keeps the manifest and the name if it succeeded. *)
LEMMA EndsAreTyped ==
    ASSUME Inv, NEW i \in Importers, NEW how \in {"ok", "failed", "cut"},
           UNCHANGED <<dir, tool, w, g>>, IEnds(i, how),
           fix' \in [Names -> Folder],
           \A n \in Names : fix'[n] = fix[n] \/ (fix[n].by \in {i, "nobody"} /\ fix'[n].by \in {i, "nobody"})
    PROVE  /\ Alone(i) /\ imp' \in [Importers -> Import]
           /\ imp'[i].pc = "ended" /\ imp'[i].end = how
           /\ how = "ok" => imp'[i].acc = imp[i].acc /\ imp'[i].name = imp[i].name
<1>1. imp \in [Importers -> Import] /\ imp[i] \in Import
    BY DEF Inv, TypeOK
<1>2. imp'[i] = [imp[i] EXCEPT !.pc = "ended", !.end = how, !.todo = {},
                               !.acc = IF how = "ok" THEN @ ELSE NoManifest,
                               !.name = IF how = "ok" THEN @ ELSE "unknown"]
    BY <1>1 DEF IEnds, Import
<1>3. imp'[i] \in Import
    BY <1>1, <1>2 DEF Import
<1>4. imp' \in [Importers -> Import] /\ \A j \in Importers \ {i} : imp'[j] = imp[j]
    BY <1>1, <1>3 DEF IEnds
<1> QED
    BY <1>1, <1>2, <1>4 DEF Import, Alone, dir

(* An import that ends without success before it has a folder, or outside a try, or whose folder *)
(* is gone or has an update's golden. *)
LEMMA EndsWithout ==
    ASSUME Inv, NEW i \in Importers, NEW how \in {"failed", "cut"},
           UNCHANGED <<dir, tool, w, g>>, IEnds(i, how),
           fix' \in [Names -> Folder],
           \A n \in Names : fix'[n] = fix[n] \/ (fix[n].by \in {i, "nobody"} /\ fix'[n].by \in {i, "nobody"}),
           how = "failed" => \A n \in Names : fix'[n].by = i => fix'[n].writer = "update"
    PROVE  Keeps(i)
<1>1. Alone(i) /\ imp' \in [Importers -> Import] /\ imp'[i].pc = "ended" /\ imp'[i].end = how
    BY EndsAreTyped
<1>2. AcceptedInv(i)' /\ NamedInv(i)' /\ CopiedInv(i)'
    BY <1>1 DEF AcceptedInv, NamedInv, CopiedInv, Imported, Holding, Checked
<1>3. HeldInv(i)'
    BY <1>1 DEF HeldInv, Imported, Holding
<1> QED
    BY <1>1, <1>2, <1>3 DEF Keeps, ImportInv

(* Before its mkdir an import has no folder. *)
LEMMA NoneBefore ==
    ASSUME Inv, NEW i \in Importers, imp[i].pc \in {"accept", "verify", "name", "mkdir"}
    PROVE  fix \in [Names -> Folder] /\ \A n \in Names : fix[n].by # i
    BY DEF Inv, TypeOK, ImportInv, HeldInv, Holding

(* The cleanup begins in the folder that the import holds. *)
LEMMA CleansUp ==
    ASSUME Inv, NEW i \in Importers, imp[i].pc \in Holding,
           UNCHANGED <<dir, tool, w, fix, g>>, IGoto(i, "rmtree")
    PROVE  Keeps(i)
<1>0. ImportInv(i) /\ imp[i] \in Import
    BY DEF Inv, TypeOK
<1>1. [imp[i] EXCEPT !.pc = "rmtree"] \in Import
    BY <1>0 DEF Import
<1>2. /\ Alone(i) /\ imp' \in [Importers -> Import] /\ fix' \in [Names -> Folder]
      /\ imp'[i] = [imp[i] EXCEPT !.pc = "rmtree"]
    BY <1>1, MovesAreTyped
<1>3. imp'[i].pc = "rmtree" /\ imp'[i].acc = imp[i].acc /\ imp'[i].name = imp[i].name /\ imp'[i].end = imp[i].end
    BY <1>0, <1>2 DEF Import
<1>4. imp[i].end = "" /\ imp[i].pc \notin {"accept", "ended"}
    BY <1>0 DEF ImportInv, HeldInv, Holding
<1>5. AcceptedInv(i)'
    BY <1>0, <1>3, <1>4 DEF ImportInv, AcceptedInv, Imported, Settled, check_manifest, dir
<1>6. NamedInv(i)' /\ CopiedInv(i)'
    BY <1>3, <1>4 DEF NamedInv, CopiedInv, Imported, Holding, Checked
<1>7. HeldInv(i)'
    BY <1>0, <1>3, <1>4 DEF ImportInv, HeldInv, Imported, Holding
<1> QED
    BY <1>2, <1>5, <1>6, <1>7 DEF Keeps, ImportInv

-----------------------------------------------------------------------------
(* The manifest that an import accepts is of a capture that is over. *)
LEMMA AcceptStep ==
    ASSUME Inv, NEW i \in Importers, Accept(i)
    PROVE  Keeps(i)
<1>0. ImportInv(i) /\ imp \in [Importers -> Import] /\ imp[i] \in Import /\ imp[i].pc = "accept"
    BY DEF Inv, TypeOK, Accept
<1>n. fix \in [Names -> Folder] /\ \A n \in Names : fix[n].by # i
    BY <1>0, NoneBefore
<1>f. UNCHANGED <<dir, tool, w, fix, g>>
    BY DEF Accept
<1>1. CASE IEnds(i, "failed")
    BY <1>1, <1>n, <1>f, EndsWithout
<1>2. CASE check_manifest(doc) /\ imp' = [imp EXCEPT ![i].acc = doc, ![i].pc = "verify"]
  <2>1. doc \in Manifest /\ Settled(doc.by)
      BY <1>2 DEF Inv, TypeOK, DirOK, DocInv, check_manifest, NoManifest
  <2>2. imp'[i] = [imp[i] EXCEPT !.acc = doc, !.pc = "verify"]
      BY <1>0, <1>2
  <2>3. imp'[i] \in Import /\ imp'[i].pc = "verify" /\ imp'[i].acc = doc /\ imp'[i].end = imp[i].end
      BY <1>0, <2>1, <2>2 DEF Import
  <2>4. imp' \in [Importers -> Import] /\ Alone(i)
      BY <1>0, <1>f, <1>2, <2>3 DEF Alone, dir
  <2>5. imp[i].end = ""
      BY <1>0 DEF ImportInv, HeldInv
  <2>6. AcceptedInv(i)'
    <3>1. doc.by >= doc.by
        BY <2>1 DEF Manifest, Captures
    <3> QED
        BY <1>2, <1>f, <2>1, <2>3, <3>1 DEF AcceptedInv, check_manifest, Settled, dir
  <2>7. NamedInv(i)' /\ CopiedInv(i)'
      BY <2>3, <2>5 DEF NamedInv, CopiedInv, Imported, Holding, Checked
  <2>8. HeldInv(i)'
      BY <1>n, <1>f, <2>3, <2>5 DEF HeldInv, Imported, Holding
  <2> QED
      BY <1>n, <1>f, <2>4, <2>6, <2>7, <2>8 DEF Keeps, ImportInv
<1> QED
    BY <1>1, <1>2 DEF Accept

(* The check of the directory changes nothing but where the import is. *)
LEMMA VerifyStep ==
    ASSUME Inv, NEW i \in Importers, Verify(i)
    PROVE  Keeps(i)
<1>0. ImportInv(i) /\ imp[i] \in Import /\ imp[i].pc = "verify"
    BY DEF Inv, TypeOK, Verify
<1>n. fix \in [Names -> Folder] /\ \A n \in Names : fix[n].by # i
    BY <1>0, NoneBefore
<1>f. UNCHANGED <<dir, tool, w, fix, g>>
    BY DEF Verify
<1>1. CASE IEnds(i, "failed")
    BY <1>1, <1>n, <1>f, EndsWithout
<1>2. CASE IGoto(i, "name")
  <2>1. [imp[i] EXCEPT !.pc = "name"] \in Import
      BY <1>0 DEF Import
  <2>2. /\ Alone(i) /\ imp' \in [Importers -> Import] /\ fix' \in [Names -> Folder]
        /\ imp'[i] = [imp[i] EXCEPT !.pc = "name"]
      BY <1>2, <1>f, <2>1, MovesAreTyped
  <2>3. imp'[i].pc = "name" /\ imp'[i].acc = imp[i].acc /\ imp'[i].end = imp[i].end
      BY <1>0, <2>2 DEF Import
  <2>4. imp[i].end = ""
      BY <1>0 DEF ImportInv, HeldInv
  <2>5. AcceptedInv(i)'
      BY <1>0, <1>f, <2>3 DEF ImportInv, AcceptedInv, check_manifest, Settled, dir
  <2>6. NamedInv(i)' /\ CopiedInv(i)'
      BY <2>3, <2>4 DEF NamedInv, CopiedInv, Imported, Holding, Checked
  <2>7. HeldInv(i)'
      BY <1>n, <1>f, <2>3, <2>4 DEF HeldInv, Imported, Holding
  <2> QED
      BY <2>2, <2>5, <2>6, <2>7 DEF Keeps, ImportInv
<1> QED
    BY <1>1, <1>2 DEF Verify

(* A name read from the meta.json of another capture shows that the one accepted is gone. *)
LEMMA NameStep ==
    ASSUME Inv, NEW i \in Importers, Name(i)
    PROVE  Keeps(i)
<1>0. ImportInv(i) /\ imp \in [Importers -> Import] /\ imp[i] \in Import /\ imp[i].pc = "name"
    BY DEF Inv, TypeOK, Name
<1>n. fix \in [Names -> Folder] /\ \A n \in Names : fix[n].by # i
    BY <1>0, NoneBefore
<1>f. UNCHANGED <<dir, tool, w, fix, g>>
    BY DEF Name
<1>1. CASE IEnds(i, "failed")
    BY <1>1, <1>n, <1>f, EndsWithout
<1>2. ASSUME NEW n, imp' = [imp EXCEPT ![i].name = n, ![i].pc = "mkdir"], n \in Names,
             n = NameGiven[i] \/ n = NameOf[data["meta.json"].by]
      PROVE  Keeps(i)
  <2>1. imp'[i] = [imp[i] EXCEPT !.name = n, !.pc = "mkdir"]
      BY <1>0, <1>2
  <2>2. imp'[i] \in Import /\ imp'[i].pc = "mkdir" /\ imp'[i].name = n /\ imp'[i].acc = imp[i].acc
        /\ imp'[i].end = imp[i].end
      BY <1>0, <1>2, <2>1 DEF Import
  <2>3. imp' \in [Importers -> Import] /\ Alone(i)
      BY <1>0, <1>f, <1>2, <2>2 DEF Alone, dir
  <2>4. imp[i].end = ""
      BY <1>0 DEF ImportInv, HeldInv
  <2>5. AcceptedInv(i)'
      BY <1>0, <1>f, <2>2 DEF ImportInv, AcceptedInv, check_manifest, Settled, dir
  <2>6. NamedInv(i)'
      BY <1>2, <1>f, <2>2 DEF NamedInv, dir
  <2>7. CopiedInv(i)'
      BY <2>2, <2>4 DEF CopiedInv, Imported, Checked
  <2>8. HeldInv(i)'
      BY <1>n, <1>f, <2>2, <2>4 DEF HeldInv, Imported, Holding
  <2> QED
      BY <1>n, <1>f, <2>3, <2>5, <2>6, <2>7, <2>8 DEF Keeps, ImportInv
<1>3. CASE NameGiven[i] # "unknown" /\ imp' = [imp EXCEPT ![i].name = NameGiven[i], ![i].pc = "mkdir"]
  <2>1. NameGiven[i] \in Names
      BY <1>3, FixturesAssumption
  <2> QED
      BY <1>2, <1>3, <2>1
<1>4. CASE /\ data["meta.json"].whole /\ NameOf[data["meta.json"].by] # "unknown"
           /\ imp' = [imp EXCEPT ![i].name = NameOf[data["meta.json"].by], ![i].pc = "mkdir"]
  <2>1. data["meta.json"] \in Content
      BY CaptureDirAssumption, FixturesAssumption DEF Inv, TypeOK, DirOK
  <2>2. data["meta.json"].by \in Captures
      BY <1>4, <2>1 DEF Content, Nothing
  <2>3. NameOf[data["meta.json"].by] \in Names
      BY <1>4, <2>2, FixturesAssumption
  <2> QED
      BY <1>2, <1>4, <2>3
<1> QED
    BY <1>1, <1>3, <1>4 DEF Name

(* The folder that an import makes is empty, and nobody had one of that name. *)
LEMMA MkdirStep ==
    ASSUME Inv, NEW i \in Importers, Mkdir(i)
    PROVE  Keeps(i)
<1>0. ImportInv(i) /\ imp \in [Importers -> Import] /\ imp[i] \in Import /\ imp[i].pc = "mkdir"
    BY DEF Inv, TypeOK, Mkdir
<1>n. fix \in [Names -> Folder] /\ \A n \in Names : fix[n].by # i
    BY <1>0, NoneBefore
<1>f. UNCHANGED <<dir, tool, w, g>>
    BY DEF Mkdir
<1>1. CASE IEnds(i, "failed") /\ fix' = fix
    BY <1>1, <1>n, <1>f, EndsWithout
<1>2. CASE /\ Mine(i).by = "nobody"
           /\ imp' = [imp EXCEPT ![i].pc = "gap", ![i].todo = imp[i].acc.files]
           /\ fix' = [fix EXCEPT ![imp[i].name] = [NoFolder EXCEPT !.by = i]]
  <2> DEFINE n == imp[i].name
             new == [NoFolder EXCEPT !.by = i]
  <2>1. n \in Names /\ fix[n].by = "nobody" /\ imp[i].end = ""
      BY <1>0, <1>2 DEF ImportInv, NamedInv, HeldInv, Mine
  <2>2. imp[i].acc \in Manifest /\ imp[i].acc.by \in Captures /\ imp[i].acc.files \in SUBSET Data
      BY <1>0 DEF ImportInv, AcceptedInv, Manifest
  <2>3. new \in Folder /\ new.by = i /\ new.files["meta.json"] = Nothing
      BY CaptureDirAssumption, FixturesAssumption DEF NoFolder, Folder, Empty, Content, Models
  <2>4. fix' \in [Names -> Folder] /\ fix'[n] = new /\ \A x \in Names \ {n} : fix'[x] = fix[x]
      BY <1>2, <1>n, <2>1, <2>3
  <2>5. imp'[i] = [imp[i] EXCEPT !.pc = "gap", !.todo = imp[i].acc.files]
      BY <1>0, <1>2
  <2>6. imp'[i] \in Import /\ imp'[i].pc = "gap" /\ imp'[i].name = n /\ imp'[i].acc = imp[i].acc
        /\ imp'[i].end = ""
      BY <1>0, <2>1, <2>2, <2>5 DEF Import
  <2> HIDE DEF new
  <2>7. imp' \in [Importers -> Import] /\ Alone(i)
      BY <1>0, <1>f, <1>2, <2>1, <2>3, <2>4, <2>6 DEF Alone, dir
  <2>8. AcceptedInv(i)'
      BY <1>0, <1>f, <2>6 DEF ImportInv, AcceptedInv, check_manifest, Settled, dir
  <2>9. NamedInv(i)'
    <3>1. fix'[n].files["meta.json"].by # imp[i].acc.by
        BY <2>2, <2>3, <2>4 DEF Nothing, Captures
    <3> QED
        BY <1>0, <1>f, <2>6, <3>1 DEF ImportInv, NamedInv, dir
  <2>10. CopiedInv(i)'
      BY <2>6 DEF CopiedInv, Imported, Checked
  <2>11. HeldInv(i)'
    <3>1. \A x \in Names : fix'[x].by = i => x = n
        BY <1>n, <2>4
    <3> QED
        BY <2>1, <2>3, <2>4, <2>6, <3>1 DEF HeldInv, Imported, Holding
  <2> QED
      BY <2>4, <2>7, <2>8, <2>9, <2>10, <2>11 DEF Keeps, ImportInv
<1> QED
    BY <1>1, <1>2 DEF Mkdir

-----------------------------------------------------------------------------
(* An import goes on in the folder it holds, and may change that folder. *)
LEMMA WorksIn ==
    ASSUME Inv, NEW i \in Importers, imp[i].pc \in Holding, UNCHANGED <<dir, tool, w, g>>,
           NEW p \in Holding, NEW t \in SUBSET Data, NEW new \in Folder, new.by = i,
           imp' = [imp EXCEPT ![i] = [imp[i] EXCEPT !.pc = p, !.todo = t]],
           fix' = [fix EXCEPT ![imp[i].name] = new],
           NamedInv(i)', CopiedInv(i)'
    PROVE  Keeps(i)
<1>0. ImportInv(i) /\ imp \in [Importers -> Import] /\ imp[i] \in Import /\ fix \in [Names -> Folder]
    BY DEF Inv, TypeOK
<1>1. imp[i].name \in Names /\ fix[imp[i].name].by = i /\ imp[i].end = ""
    BY <1>0 DEF ImportInv, HeldInv, Holding
<1>2. imp'[i] \in Import /\ imp'[i].pc = p /\ imp'[i].name = imp[i].name /\ imp'[i].acc = imp[i].acc
      /\ imp'[i].end = ""
    BY <1>0, <1>1 DEF Import, Holding
<1>3. fix' \in [Names -> Folder] /\ fix'[imp[i].name] = new
      /\ \A x \in Names \ {imp[i].name} : fix'[x] = fix[x]
    BY <1>0, <1>1
<1>4. imp' \in [Importers -> Import] /\ Alone(i)
    BY <1>0, <1>1, <1>2, <1>3 DEF Alone, dir
<1>5. AcceptedInv(i)'
    BY <1>0, <1>2 DEF ImportInv, AcceptedInv, check_manifest, Settled, Holding, dir
<1>6. HeldInv(i)'
  <2>1. \A x \in Names : fix[x].by = i => x = imp[i].name
      BY <1>0 DEF ImportInv, HeldInv, Holding
  <2>2. \A x \in Names : fix'[x].by = i => x = imp[i].name
      BY <1>3, <2>1
  <2> QED
      BY <1>1, <1>2, <1>3, <2>2 DEF HeldInv, Imported, Holding
<1> QED
    BY <1>3, <1>4, <1>5, <1>6 DEF Keeps, ImportInv

(* A step that only moves on is one of them. *)
LEMMA MovesOn ==
    ASSUME Inv, NEW i \in Importers, imp[i].pc \in Holding, UNCHANGED <<dir, tool, w, fix, g>>,
           NEW p \in Holding, IGoto(i, p), NamedInv(i)', CopiedInv(i)'
    PROVE  Keeps(i)
<1>0. ImportInv(i) /\ imp \in [Importers -> Import] /\ imp[i] \in Import /\ fix \in [Names -> Folder]
    BY DEF Inv, TypeOK
<1>1. imp[i].name \in Names /\ fix[imp[i].name].by = i /\ fix[imp[i].name] \in Folder
    BY <1>0 DEF ImportInv, HeldInv, Holding
<1>2. imp[i].todo \in SUBSET Data /\ [imp[i] EXCEPT !.pc = p] = [imp[i] EXCEPT !.pc = p, !.todo = imp[i].todo]
    BY <1>0 DEF Import
<1>3. imp' = [imp EXCEPT ![i] = [imp[i] EXCEPT !.pc = p, !.todo = imp[i].todo]]
    BY <1>2 DEF IGoto
<1>4. fix' = [fix EXCEPT ![imp[i].name] = fix[imp[i].name]]
    BY <1>0, <1>1
<1> QED
    BY <1>1, <1>2, <1>3, <1>4, WorksIn

(* A file is copied as it is then; it is the accepted capture's meta.json only if that one is    *)
(* still there. *)
LEMMA CopyFileStep ==
    ASSUME Inv, NEW i \in Importers, CopyFile(i)
    PROVE  Keeps(i)
<1>0. ImportInv(i) /\ imp \in [Importers -> Import] /\ imp[i] \in Import /\ fix \in [Names -> Folder]
      /\ data \in [Data -> Content] /\ imp[i].pc \in {"gap", "copy"} /\ imp[i].pc \in Holding
    BY DEF Inv, TypeOK, DirOK, CopyFile, Holding
<1>1. UNCHANGED <<dir, tool, w, g>>
    BY DEF CopyFile
<1>2. PICK f \in First(imp[i].todo) :
         \/ Fails(i)
         \/ /\ imp' = [imp EXCEPT ![i].todo = @ \ {f}, ![i].pc = "copy"]
            /\ fix' = [fix EXCEPT ![imp[i].name].files[f] = data[f]]
    BY DEF CopyFile
<1>3. CASE Fails(i)
    BY <1>0, <1>1, <1>3, CleansUp DEF Fails
<1>4. CASE /\ imp' = [imp EXCEPT ![i].todo = @ \ {f}, ![i].pc = "copy"]
           /\ fix' = [fix EXCEPT ![imp[i].name].files[f] = data[f]]
  <2> DEFINE n == imp[i].name
             new == [fix[n] EXCEPT !.files[f] = data[f]]
             t == imp[i].todo \ {f}
  <2>1. f \in Data /\ data[f] \in Content /\ t \in SUBSET Data
      BY <1>0 DEF First, Import
  <2>2. n \in Names /\ fix[n] \in Folder /\ fix[n].by = i /\ imp[i].end = ""
      BY <1>0 DEF ImportInv, HeldInv, Holding
  <2>3. new \in Folder /\ new.by = i
      BY <2>1, <2>2 DEF Folder
  <2>4. new.files["meta.json"] \in {fix[n].files["meta.json"], data["meta.json"]}
    <3>1. new.files = [fix[n].files EXCEPT ![f] = data[f]] /\ fix[n].files \in [Data -> Content]
        BY <2>2 DEF Folder
    <3>2. "meta.json" \in Data
        BY CaptureDirAssumption, FixturesAssumption
    <3> QED
        BY <3>1, <3>2
  <2>5. imp' = [imp EXCEPT ![i] = [imp[i] EXCEPT !.pc = "copy", !.todo = t]]
      BY <1>0, <1>4 DEF Import
  <2>6. fix' = [fix EXCEPT ![n] = new] /\ fix'[n] = new
      BY <1>0, <1>4, <2>2
  <2>7. imp'[i].pc = "copy" /\ imp'[i].name = n /\ imp'[i].acc = imp[i].acc /\ imp'[i].end = ""
      BY <1>0, <2>2, <2>5 DEF Import
  <2> HIDE DEF new, t
  <2>8. NamedInv(i)'
      BY <1>0, <1>1, <2>2, <2>4, <2>6, <2>7 DEF ImportInv, NamedInv, Holding, dir
  <2>9. CopiedInv(i)'
      BY <2>7 DEF CopiedInv, Imported, Checked
  <2>10. "copy" \in Holding
      BY DEF Holding
  <2> QED
      BY <1>0, <1>1, <2>1, <2>3, <2>5, <2>6, <2>8, <2>9, <2>10, WorksIn
<1> QED
    BY <1>2, <1>3, <1>4

(* The manifest is copied as it is then, which is no earlier one than the one accepted. *)
LEMMA CopyManifestStep ==
    ASSUME Inv, NEW i \in Importers, CopyManifest(i)
    PROVE  Keeps(i)
<1>0. ImportInv(i) /\ imp \in [Importers -> Import] /\ imp[i] \in Import /\ fix \in [Names -> Folder]
      /\ imp[i].pc = "copy" /\ imp[i].pc \in Holding
    BY DEF Inv, TypeOK, CopyManifest, Holding
<1>1. UNCHANGED <<dir, tool, w, g>>
    BY DEF CopyManifest
<1>2. CASE Fails(i)
    BY <1>0, <1>1, <1>2, CleansUp DEF Fails
<1>3. CASE doc # NoManifest /\ IGoto(i, "check") /\ fix' = [fix EXCEPT ![imp[i].name].manifest = doc.by]
  <2> DEFINE n == imp[i].name
             new == [fix[n] EXCEPT !.manifest = doc.by]
  <2>1. n \in Names /\ fix[n] \in Folder /\ fix[n].by = i /\ imp[i].end = "" /\ imp[i].todo \in SUBSET Data
      BY <1>0 DEF ImportInv, HeldInv, Holding, Import
  <2>2. doc.by \in Captures
      BY <1>3 DEF Inv, TypeOK, DirOK, Manifest
  <2>3. new \in Folder /\ new.by = i /\ new.files = fix[n].files /\ new.manifest = doc.by
      BY <2>1, <2>2 DEF Folder
  <2>4. imp' = [imp EXCEPT ![i] = [imp[i] EXCEPT !.pc = "check", !.todo = imp[i].todo]]
      BY <1>0, <1>3 DEF Import, IGoto
  <2>5. fix' = [fix EXCEPT ![n] = new] /\ fix'[n] = new
      BY <1>0, <1>3, <2>1
  <2>6. imp'[i].pc = "check" /\ imp'[i].name = n /\ imp'[i].acc = imp[i].acc /\ imp'[i].end = ""
      BY <1>0, <2>1, <2>4 DEF Import
  <2> HIDE DEF new
  <2>7. NamedInv(i)'
      BY <1>0, <1>1, <2>1, <2>3, <2>5, <2>6 DEF ImportInv, NamedInv, Holding, dir
  <2>8. CopiedInv(i)'
    <3>1. doc.by >= imp[i].acc.by
        BY <1>0, <1>3 DEF ImportInv, AcceptedInv
    <3> QED
        BY <2>3, <2>5, <2>6, <3>1 DEF CopiedInv, Imported, Checked, Mine
  <2>9. "check" \in Holding
      BY DEF Holding
  <2> QED
      BY <1>0, <1>1, <2>1, <2>3, <2>4, <2>5, <2>7, <2>8, <2>9, WorksIn
<1> QED
    BY <1>2, <1>3 DEF CopyManifest

(* The copy is checked against the manifest accepted, and so is its name. *)
LEMMA CheckSteps ==
    ASSUME Inv, NEW i \in Importers, CheckCopy(i) \/ Build(i)
    PROVE  Keeps(i)
<1>0. ImportInv(i) /\ imp[i] \in Import /\ imp[i].pc \in {"check", "copied"} /\ imp[i].pc \in Holding
    BY DEF Inv, TypeOK, CheckCopy, Build, Holding
<1>1. UNCHANGED <<dir, tool, w, fix, g>>
    BY DEF CheckCopy, Build
<1>2. CASE IGoto(i, "rmtree")
    BY <1>0, <1>1, <1>2, CleansUp
<1>3. ASSUME NEW p \in {"copied", "golden"}, IGoto(i, p), verify_dir(Mine(i).files, imp[i].acc)
      PROVE  Keeps(i)
  <2>1. imp \in [Importers -> Import] /\ imp[i].end = ""
      BY <1>0 DEF Inv, TypeOK, ImportInv, HeldInv
  <2>2. imp'[i].pc = p /\ imp'[i].name = imp[i].name /\ imp'[i].acc = imp[i].acc /\ imp'[i].end = ""
      BY <1>0, <1>3, <2>1 DEF Import, IGoto
  <2>3. NamedInv(i)'
      BY <1>0, <1>1, <2>2 DEF ImportInv, NamedInv, Holding, dir
  <2>4. CopiedInv(i)'
    <3>1. Mine(i).manifest >= imp[i].acc.by
        BY <1>0 DEF ImportInv, CopiedInv, Checked
    <3> QED
        BY <1>1, <1>3, <2>2, <3>1 DEF CopiedInv, Imported, Checked, Mine, verify_dir
  <2>5. p \in Holding
      BY DEF Holding
  <2> QED
      BY <1>0, <1>1, <1>3, <2>3, <2>4, <2>5, MovesOn
<1>4. CASE CheckCopy(i)
    BY <1>2, <1>3, <1>4 DEF CheckCopy
<1>5. CASE Build(i)
  <2>1. verify_dir(Mine(i).files, imp[i].acc)
      BY <1>0, <1>5 DEF Build, ImportInv, CopiedInv, Checked
  <2> QED
      BY <1>3, <1>5, <2>1 DEF Build
<1> QED
    BY <1>4, <1>5

(* The golden is made of the files of the folder. *)
LEMMA WriteGoldenStep ==
    ASSUME Inv, NEW i \in Importers, WriteGolden(i)
    PROVE  Keeps(i)
<1>0. ImportInv(i) /\ imp \in [Importers -> Import] /\ imp[i] \in Import /\ fix \in [Names -> Folder]
      /\ imp[i].pc = "golden" /\ imp[i].pc \in Holding
    BY DEF Inv, TypeOK, WriteGolden, Holding
<1>1. UNCHANGED <<dir, tool, w, g>>
    BY DEF WriteGolden
<1> DEFINE n == imp[i].name
           model == Replay(n)
           new == [fix[n] EXCEPT !.golden = model, !.writer = i]
<1>2. n \in Names /\ fix[n] \in Folder /\ fix[n].by = i /\ imp[i].end = "" /\ imp[i].todo \in SUBSET Data
    BY <1>0 DEF ImportInv, HeldInv, Holding, Import
<1>3. model \in Models
  <2>1. \A f \in Data : fix[n].files[f] \in Content
      BY <1>2 DEF Folder
  <2> QED
      BY <2>1 DEF Replay, Models
<1>4. fix' = [fix EXCEPT ![n].golden = model, ![n].writer = i] /\ IGoto(i, "scan")
    BY DEF WriteGolden
<1> HIDE DEF model
<1>5. new \in Folder /\ new.by = i /\ new.files = fix[n].files /\ new.golden = model
      /\ new.manifest = fix[n].manifest
    BY <1>2, <1>3 DEF Folder
<1>6. imp' = [imp EXCEPT ![i] = [imp[i] EXCEPT !.pc = "scan", !.todo = imp[i].todo]]
    BY <1>0, <1>4 DEF Import, IGoto
<1>7. fix' = [fix EXCEPT ![n] = new] /\ fix'[n] = new
    BY <1>0, <1>2, <1>4
<1>8. imp'[i].pc = "scan" /\ imp'[i].name = n /\ imp'[i].acc = imp[i].acc /\ imp'[i].end = ""
    BY <1>0, <1>2, <1>6 DEF Import
<1> HIDE DEF new
<1>9. NamedInv(i)'
    BY <1>0, <1>1, <1>2, <1>5, <1>7, <1>8 DEF ImportInv, NamedInv, Holding, dir
<1>10. CopiedInv(i)'
  <2>1. Replay(imp[i].name)' = model
    <3>1. imp'[i].name = n /\ fix'[n].files = fix[n].files
        BY <1>5, <1>7, <1>8
    <3> QED
        BY <3>1 DEF Replay, model
  <2>2. verify_dir(fix[n].files, imp[i].acc) /\ fix[n].manifest >= imp[i].acc.by
      BY <1>0 DEF ImportInv, CopiedInv, Checked, Mine
  <2> QED
      BY <1>5, <1>7, <1>8, <2>1, <2>2 DEF CopiedInv, Imported, Mine, verify_dir
<1>11. "scan" \in Holding
    BY DEF Holding
<1> QED
    BY <1>0, <1>1, <1>2, <1>5, <1>6, <1>7, <1>9, <1>10, <1>11, WorksIn

(* The scan saw every file of the folder, and they are the accepted capture's. *)
LEMMA LeakScanStep ==
    ASSUME Inv, NEW i \in Importers, LeakScan(i)
    PROVE  Keeps(i)
<1>0. ImportInv(i) /\ imp \in [Importers -> Import] /\ imp[i] \in Import /\ fix \in [Names -> Folder]
      /\ imp[i].pc = "scan" /\ imp[i].pc \in Holding
    BY DEF Inv, TypeOK, LeakScan, Holding
<1>1. UNCHANGED <<dir, tool, w, fix, g>>
    BY DEF LeakScan
<1>2. CASE IGoto(i, "rmtree")
    BY <1>0, <1>1, <1>2, CleansUp
<1>3. CASE /\ IEnds(i, "ok") /\ \A f \in Data : <<f, Mine(i).files[f].by>> \notin Leaky
           /\ <<"manifest.json", Mine(i).manifest>> \notin Leaky
  <2>1. /\ Alone(i) /\ imp' \in [Importers -> Import] /\ imp'[i].pc = "ended" /\ imp'[i].end = "ok"
        /\ imp'[i].acc = imp[i].acc /\ imp'[i].name = imp[i].name
      BY <1>0, <1>1, <1>3, EndsAreTyped
  <2>2. AcceptedInv(i)'
      BY <1>0, <1>1, <2>1 DEF ImportInv, AcceptedInv, check_manifest, Settled, dir
  <2>3. NamedInv(i)'
      BY <1>0, <1>1, <2>1 DEF ImportInv, NamedInv, Holding, dir
  <2>4. HeldInv(i)'
      BY <1>0, <1>1, <2>1 DEF ImportInv, HeldInv, Imported, Holding
  <2>5. verify_dir(Mine(i).files, imp[i].acc) /\ imp[i].acc.files \subseteq Data
      BY <1>0 DEF ImportInv, CopiedInv, AcceptedInv, Checked, Manifest
  <2>6. \A f \in imp[i].acc.files : <<f, imp[i].acc.by>> \notin Leaky
      BY <1>3, <2>5 DEF verify_dir
  <2>7. CopiedInv(i)'
    <3>1. fix' = fix /\ Mine(i)' = Mine(i)
        BY <1>1, <2>1 DEF Mine
    <3>2. Replay(imp[i].name)' = Replay(imp[i].name)
        BY <2>1, <3>1 DEF Replay
    <3>3. verify_dir(Mine(i).files, imp[i].acc)'
        BY <2>1, <2>5, <3>1 DEF verify_dir
    <3>4. /\ Mine(i).golden = Replay(imp[i].name) \/ Mine(i).writer = "update"
          /\ Mine(i).manifest >= imp[i].acc.by
        BY <1>0 DEF ImportInv, CopiedInv, Checked
    <3> QED
        BY <1>3, <2>1, <2>6, <3>1, <3>2, <3>3, <3>4 DEF CopiedInv
  <2> QED
      BY <1>0, <1>1, <2>1, <2>2, <2>3, <2>4, <2>7 DEF Keeps, ImportInv
<1> QED
    BY <1>2, <1>3 DEF LeakScan

(* The cleanup empties the folder the import holds, and removes it unless an update wrote there  *)
(* or Ctrl-C came. *)
LEMMA RemoveSteps ==
    ASSUME Inv, NEW i \in Importers, RemoveEntries(i) \/ InterruptRemoval(i) \/ RemoveFolder(i)
    PROVE  Keeps(i)
<1>0. ImportInv(i) /\ imp \in [Importers -> Import] /\ imp[i] \in Import /\ fix \in [Names -> Folder]
      /\ imp[i].pc \in {"rmtree", "rmdir"} /\ imp[i].pc \in Holding
    BY DEF Inv, TypeOK, RemoveEntries, InterruptRemoval, RemoveFolder, Holding
<1>1. UNCHANGED <<dir, tool, w, g>>
    BY DEF RemoveEntries, InterruptRemoval, RemoveFolder
<1> DEFINE n == imp[i].name
<1>2. n \in Names /\ fix[n] \in Folder /\ fix[n].by = i /\ imp[i].end = "" /\ imp[i].todo \in SUBSET Data
    BY <1>0 DEF ImportInv, HeldInv, Holding, Import
<1>3. \A x \in Names : fix[x].by = i => x = n
    BY <1>0 DEF ImportInv, HeldInv, Holding
<1>4. CASE RemoveEntries(i)
  <2> DEFINE new == [NoFolder EXCEPT !.by = i]
  <2>1. new \in Folder /\ new.by = i
      BY DEF NoFolder, Folder, Empty, Content, Models
  <2>2. imp' = [imp EXCEPT ![i] = [imp[i] EXCEPT !.pc = "rmdir", !.todo = imp[i].todo]]
      BY <1>0, <1>4 DEF Import, IGoto, RemoveEntries
  <2>3. fix' = [fix EXCEPT ![n] = new]
      BY <1>4 DEF RemoveEntries
  <2>4. imp'[i].pc = "rmdir" /\ imp'[i].end = ""
      BY <1>0, <1>2, <2>2 DEF Import
  <2>5. NamedInv(i)' /\ CopiedInv(i)' /\ "rmdir" \in Holding
      BY <2>4 DEF NamedInv, CopiedInv, Imported, Holding, Checked
  <2> HIDE DEF new
  <2> QED
      BY <1>0, <1>1, <1>2, <2>1, <2>2, <2>3, <2>5, WorksIn
<1>5. CASE RemoveFolder(i)
  <2>1. IEnds(i, "failed")
      BY <1>5 DEF RemoveFolder
  <2>2. CASE fix[n].writer = "update" /\ fix' = fix
    <3>1. \A x \in Names : fix'[x].by = i => fix'[x].writer = "update"
        BY <1>3, <2>2
    <3> QED
        BY <1>0, <1>1, <2>1, <2>2, <3>1, EndsWithout
  <2>3. CASE fix' = [fix EXCEPT ![n] = NoFolder]
    <3>1. NoFolder \in Folder /\ NoFolder.by = "nobody"
        BY DEF NoFolder, Folder, Empty, Content, Models
    <3>2. fix' \in [Names -> Folder] /\ fix'[n] = NoFolder /\ \A x \in Names \ {n} : fix'[x] = fix[x]
        BY <1>0, <1>2, <2>3, <3>1
    <3>3. \A x \in Names : fix'[x].by # i
        BY <1>3, <3>1, <3>2, FixturesAssumption
    <3>4. \A x \in Names : fix'[x] = fix[x] \/ (fix[x].by \in {i, "nobody"} /\ fix'[x].by \in {i, "nobody"})
        BY <1>2, <3>1, <3>2
    <3> QED
        BY <1>1, <2>1, <3>2, <3>3, <3>4, EndsWithout
  <2> QED
      BY <1>5, <2>2, <2>3 DEF RemoveFolder, Mine
<1>6. CASE InterruptRemoval(i)
  <2>1. PICK left \in SUBSET Data, manifest \in {0, fix[n].manifest}, golden \in {{}, fix[n].golden} :
          fix' = [fix EXCEPT ![n].files = [f \in Data |-> IF f \in left THEN @[f] ELSE Nothing],
                             ![n].manifest = manifest, ![n].golden = golden]
      BY <1>6 DEF InterruptRemoval, Mine
  <2> DEFINE files == [f \in Data |-> IF f \in left THEN fix[n].files[f] ELSE Nothing]
             new == [fix[n] EXCEPT !.files = files, !.manifest = manifest, !.golden = golden]
  <2>2. files \in [Data -> Content]
      BY <1>2 DEF Folder, Content
  <2>3. fix' = [fix EXCEPT ![n] = new]
      BY <1>0, <1>2, <2>1
  <2> HIDE DEF files
  <2>4. new \in Folder /\ new.by = i
      BY <1>2, <2>1, <2>2 DEF Folder, Models
  <2> HIDE DEF new
  <2>5. fix' \in [Names -> Folder] /\ fix'[n] = new /\ \A x \in Names \ {n} : fix'[x] = fix[x]
      BY <1>0, <1>2, <2>3, <2>4
  <2>6. \A x \in Names : fix'[x] = fix[x] \/ (fix[x].by \in {i, "nobody"} /\ fix'[x].by \in {i, "nobody"})
      BY <1>2, <2>4, <2>5
  <2>7. IEnds(i, "cut")
      BY <1>6 DEF InterruptRemoval
  <2> QED
      BY <1>1, <2>5, <2>6, <2>7, EndsWithout
<1> QED
    BY <1>4, <1>5, <1>6

(* Ctrl-C leads to the cleanup, or ends the import where it is. *)
LEMMA InterruptStep ==
    ASSUME Inv, NEW i \in Importers, InterruptImport(i)
    PROVE  Keeps(i)
<1>0. UNCHANGED <<dir, tool, w, fix, g>> /\ fix \in [Names -> Folder]
    BY DEF InterruptImport, Inv, TypeOK
<1>1. CASE imp[i].pc \in InTry /\ IGoto(i, "rmtree")
    BY <1>0, <1>1, CleansUp DEF InTry, Holding
<1>2. CASE imp[i].pc \in {"gap", "copied", "rmdir"} /\ IEnds(i, "cut")
    BY <1>0, <1>2, EndsWithout
<1>3. CASE imp[i].pc \in {"accept", "verify", "name", "mkdir"} /\ IEnds(i, "failed")
  <2>1. \A n \in Names : fix[n].by # i
      BY <1>3, NoneBefore
  <2> QED
      BY <1>0, <1>3, <2>1, EndsWithout
<1> QED
    BY <1>1, <1>2, <1>3 DEF InterruptImport, Outside, CutAt

(* Every step of an import. *)
LEMMA ImportSteps ==
    ASSUME Inv, NEW i \in Importers, ImportStep(i) \/ InterruptImport(i)
    PROVE  Keeps(i)
    BY AcceptStep, VerifyStep, NameStep, MkdirStep, CopyFileStep, CopyManifestStep, CheckSteps,
       WriteGoldenStep, LeakScanStep, RemoveSteps, InterruptStep DEF ImportStep

-----------------------------------------------------------------------------
(* The update of the goldens: no file of a folder, no manifest.json and no maker changes, and    *)
(* whatever golden it writes it signs. *)
LEMMA UpdateSteps ==
    ASSUME Inv, UpdateStep
    PROVE  /\ UpdateOK' /\ fix' \in [Names -> Folder]
           /\ UNCHANGED <<data, doc, tool, w, imp>>
           /\ \A n \in Names : /\ fix'[n].by = fix[n].by /\ fix'[n].files = fix[n].files /\ fix'[n].manifest = fix[n].manifest
                               /\ fix'[n] = fix[n] \/ (fix'[n].writer = "update" /\ g' # g)
<1>0. UpdateOK /\ fix \in [Names -> Folder]
    BY DEF Inv, TypeOK
<1>1. UEnds => UpdateOK'
    BY DEF UEnds, UpdateOK, Models
<1>2. CASE Choose
  <2>1. UpdateOK'
      BY <1>0, <1>2 DEF Choose, UpdateOK, _fixtures
  <2> QED
      BY <1>0, <1>2, <2>1 DEF Choose, dir
<1>3. CASE Model
  <2>1. PICK n \in g.todo :
           \/ n \in _fixtures /\ g' = [g EXCEPT !.todo = @ \ {n}, !.models[n] = Replay(n)]
           \/ UEnds
      BY <1>3 DEF Model
  <2>2. n \in Names
      BY <1>0, <2>1 DEF UpdateOK
  <2> DEFINE model == Replay(n)
  <2>3. model \in Models
    <3>1. \A f \in Data : fix[n].files[f] \in Content
        BY <1>0, <2>2 DEF Folder
    <3> QED
        BY <3>1 DEF Replay, Models
  <2> HIDE DEF model
  <2>4. CASE g' = [g EXCEPT !.todo = @ \ {n}, !.models[n] = model]
      BY <1>0, <2>2, <2>3, <2>4, <1>3 DEF UpdateOK, Model, dir
  <2>5. CASE UEnds
      BY <1>0, <1>1, <1>3, <2>5 DEF Model, dir
  <2> QED
      BY <2>1, <2>4, <2>5 DEF model
<1>4. CASE Modelled
  <2>1. UpdateOK'
      BY <1>0, <1>4 DEF Modelled, UpdateOK
  <2> QED
      BY <1>0, <1>4, <2>1 DEF Modelled, dir
<1>5. CASE Update
  <2>1. CASE UEnds /\ fix' = fix
      BY <1>0, <1>1, <1>5, <2>1 DEF Update, dir
  <2>2. ASSUME NEW n \in Names, g.models[n] # {}, g' = [g EXCEPT !.models[n] = {}],
               fix' = fix \/ fix' = [fix EXCEPT ![n].golden = g.models[n], ![n].writer = "update"]
        PROVE  /\ UpdateOK' /\ fix' \in [Names -> Folder]
               /\ UNCHANGED <<data, doc, tool, w, imp>>
               /\ \A x \in Names : /\ fix'[x].by = fix[x].by /\ fix'[x].files = fix[x].files /\ fix'[x].manifest = fix[x].manifest
                                   /\ fix'[x] = fix[x] \/ (fix'[x].writer = "update" /\ g' # g)
    <3>1. UpdateOK' /\ g' # g
        BY <1>0, <2>2 DEF UpdateOK, Models
    <3>2. g.models[n] \in Models /\ fix[n] \in Folder
        BY <1>0, <2>2 DEF UpdateOK
    <3> DEFINE new == [fix[n] EXCEPT !.golden = g.models[n], !.writer = "update"]
    <3>3. new \in Folder /\ new.by = fix[n].by /\ new.files = fix[n].files /\ new.writer = "update"
          /\ new.manifest = fix[n].manifest
        BY <3>2 DEF Folder
    <3>4. fix' = fix \/ fix' = [fix EXCEPT ![n] = new]
        BY <1>0, <2>2
    <3> HIDE DEF new
    <3>5. fix' \in [Names -> Folder] /\ \A x \in Names : fix'[x] = fix[x] \/ (x = n /\ fix'[x] = new)
        BY <1>0, <3>3, <3>4
    <3> QED
        BY <1>5, <3>1, <3>3, <3>5 DEF Update, dir
  <2> QED
      BY <1>5, <2>1, <2>2 DEF Update
<1> QED
    BY <1>2, <1>3, <1>4, <1>5 DEF UpdateStep

(* What an import relies on outlives the update. *)
LEMMA UpdateKeeps ==
    ASSUME Inv, UNCHANGED <<data, doc, tool, w, imp>>, NEW i \in Importers,
           \A n \in Names : /\ fix'[n].by = fix[n].by /\ fix'[n].files = fix[n].files /\ fix'[n].manifest = fix[n].manifest
                            /\ fix'[n] = fix[n] \/ (fix'[n].writer = "update" /\ g' # g)
    PROVE  ImportInv(i)'
<1>0. ImportInv(i) /\ imp[i] \in Import
    BY DEF Inv, TypeOK
<1>1. AcceptedInv(i)'
    BY <1>0 DEF ImportInv, AcceptedInv, Imported, Settled, check_manifest
<1>2. NamedInv(i)'
    BY <1>0 DEF ImportInv, NamedInv, Imported
<1>3. HeldInv(i)'
    BY <1>0 DEF ImportInv, HeldInv, Imported
<1>4. CopiedInv(i)'
  <2>1. SUFFICES ASSUME imp[i].pc \in {"check"} \cup Checked \/ Imported(i) PROVE CopiedInv(i)'
      BY DEF CopiedInv, Imported, Checked
  <2>2. imp[i].name \in Names
      BY <1>0, <2>1 DEF ImportInv, HeldInv, Holding, Checked
  <2>3. Mine(i)'.files = Mine(i).files /\ Mine(i)'.manifest = Mine(i).manifest
        /\ (Mine(i)' = Mine(i) \/ Mine(i)'.writer = "update")
      BY <2>2 DEF Mine
  <2>4. Replay(imp[i].name)' = Replay(imp[i].name)
      BY <2>2 DEF Replay
  <2> QED
      BY <1>0, <2>3, <2>4 DEF ImportInv, CopiedInv, Imported, verify_dir
<1> QED
    BY <1>1, <1>2, <1>3, <1>4 DEF ImportInv

-----------------------------------------------------------------------------
(* Every step keeps the invariant. *)
LEMMA StepInv == Inv /\ [Next]_vars => Inv'
<1> SUFFICES ASSUME Inv, [Next]_vars PROVE Inv'
    OBVIOUS
<1>0. TypeOK /\ CaptureInv /\ DocInv /\ \A i \in Importers : ImportInv(i)
    BY DEF Inv
<1>1. CASE CaptureStep \/ ToolWorks \/ ToolWithdraws \/ ToolEnds \/ SignalledToolWorks \/ SignalledToolEnds
  <2>1. DirOK' /\ CaptureOK' /\ CaptureInv' /\ DocInv' /\ DirMoves
      BY <1>1, CommandSteps, ToolSteps
  <2>2. UNCHANGED <<imp, fix, g>>
      BY <2>1 DEF DirMoves
  <2>3. TypeOK'
      BY <1>0, <2>1, <2>2 DEF TypeOK, UpdateOK
  <2>4. \A i \in Importers : ImportInv(i)'
      BY <2>1, ImportsOutlast
  <2> QED
      BY <2>1, <2>3, <2>4 DEF Inv
<1>2. ASSUME NEW i \in Importers, ImportStep(i) \/ InterruptImport(i) PROVE Inv'
  <2>1. Keeps(i)
      BY <1>2, ImportSteps
  <2>2. UNCHANGED <<data, doc, tool, w, g>>
      BY <2>1 DEF Keeps, Alone
  <2>3. TypeOK'
    <3>1. DirOK'
        BY <1>0, <2>2 DEF TypeOK, DirOK
    <3>2. CaptureOK'
        BY <1>0, <2>2 DEF TypeOK, CaptureOK
    <3>3. UpdateOK'
        BY <1>0, <2>2 DEF TypeOK, UpdateOK
    <3> QED
        BY <2>1, <3>1, <3>2, <3>3 DEF TypeOK, Keeps
  <2>4. CaptureInv' /\ DocInv'
      BY <1>0, <2>2 DEF CaptureInv, DocInv, Settled
  <2>5. \A j \in Importers : ImportInv(j)'
      BY <2>1, OthersKeep DEF Keeps
  <2> QED
      BY <2>3, <2>4, <2>5 DEF Inv
<1>3. CASE UpdateStep
  <2>1. /\ UpdateOK' /\ fix' \in [Names -> Folder]
        /\ UNCHANGED <<data, doc, tool, w, imp>>
        /\ \A n \in Names : /\ fix'[n].by = fix[n].by /\ fix'[n].files = fix[n].files /\ fix'[n].manifest = fix[n].manifest
                            /\ fix'[n] = fix[n] \/ (fix'[n].writer = "update" /\ g' # g)
      BY <1>3, UpdateSteps
  <2>2. TypeOK'
    <3>1. DirOK'
        BY <1>0, <2>1 DEF TypeOK, DirOK
    <3>2. CaptureOK'
        BY <1>0, <2>1 DEF TypeOK, CaptureOK
    <3> QED
        BY <1>0, <2>1, <3>1, <3>2 DEF TypeOK
  <2>3. CaptureInv' /\ DocInv'
      BY <1>0, <2>1 DEF CaptureInv, DocInv, Settled
  <2>4. \A i \in Importers : ImportInv(i)'
      BY <2>1, UpdateKeeps
  <2> QED
      BY <2>2, <2>3, <2>4 DEF Inv
<1>4. CASE UNCHANGED vars
  <2>1. UNCHANGED <<data, doc, tool, w, imp, fix, g>>
      BY <1>4 DEF vars
  <2>2. TypeOK'
    <3>1. DirOK'
        BY <1>0, <2>1 DEF TypeOK, DirOK
    <3>2. CaptureOK'
        BY <1>0, <2>1 DEF TypeOK, CaptureOK
    <3>3. UpdateOK'
        BY <1>0, <2>1 DEF TypeOK, UpdateOK
    <3> QED
        BY <1>0, <2>1, <3>1, <3>2, <3>3 DEF TypeOK
  <2>4. CaptureInv' /\ DocInv'
      BY <1>0, <2>1 DEF CaptureInv, DocInv, Settled
  <2>3. \A i \in Importers : ImportInv(i)'
      BY <2>1, UpdateKeeps
  <2> QED
      BY <2>2, <2>3, <2>4 DEF Inv
<1> QED
    BY <1>1, <1>2, <1>3, <1>4 DEF Next, AllEnded

(* The inductive invariant of the topo commands holds in every state. *)
THEOREM Invariant == Spec => []Inv
<1> QED
    BY InitInv, StepInv, PTL DEF Spec

(* Every variable of the topo commands has its type, in every state. *)
THEOREM TypeCorrect == Spec => []TypeOK
<1>1. Inv => TypeOK
    BY DEF Inv
<1> QED
    BY <1>1, Invariant, PTL

(* Whatever was captured into the directory meanwhile, a fixture that an import reported holds   *)
(* the files of one capture, as accepted, scanned and named, and a manifest.json of that capture *)
(* or a later one, scanned too (import_, copy_capture).                                          *)
THEOREM ImportsAreWhole == Spec => []ImportedIsWhole
<1>1. Inv => ImportedIsWhole
  <2> SUFFICES ASSUME Inv, NEW i \in Importers, Imported(i)
               PROVE  LET n == imp[i].name
                          k == imp[i].acc.by
                      IN
                      /\ fix[n].by = i
                      /\ \A f \in Data :
                            fix[n].files[f] = IF f \in imp[i].acc.files THEN [by |-> k, whole |-> TRUE]
                                              ELSE Nothing
                      /\ \A f \in imp[i].acc.files : <<f, k>> \notin Leaky
                      /\ NameGiven[i] = n \/ NameOf[k] = n
                      /\ fix[n].manifest >= k /\ <<"manifest.json", fix[n].manifest>> \notin Leaky
                      /\ fix[n].golden = Replay(n) \/ fix[n].writer = "update"
      BY DEF ImportedIsWhole
  <2>1. AcceptedInv(i) /\ NamedInv(i) /\ HeldInv(i) /\ CopiedInv(i)
      BY DEF Inv, ImportInv
  <2>2. imp[i].pc = "ended" /\ imp[i].name \in Names /\ fix[imp[i].name].by = i
      BY <2>1 DEF HeldInv, Imported
  <2>3. verify_dir(fix[imp[i].name].files, imp[i].acc)
      BY <2>1 DEF CopiedInv, Mine
  <2>4. "meta.json" \in Data /\ "meta.json" \in imp[i].acc.files
      BY <2>1, CaptureDirAssumption, FixturesAssumption DEF AcceptedInv, check_manifest
  <2>5. fix[imp[i].name].files["meta.json"].by = imp[i].acc.by
      BY <2>3, <2>4 DEF verify_dir
  <2>6. imp[i].name = NameGiven[i] \/ imp[i].name = NameOf[imp[i].acc.by]
      BY <2>1, <2>2, <2>5 DEF NamedInv
  <2> QED
      BY <2>1, <2>2, <2>3, <2>6 DEF CopiedInv, verify_dir, Mine
<1> QED
    BY <1>1, Invariant, PTL

(* A folder whose import is over is an imported fixture, or was left by a Ctrl-C in the instant  *)
(* before a try or in the removal, or has an update's golden in it (copy_capture, import_).      *)
THEOREM NothingLeftHalf == Spec => []NothingHalfImported
<1>1. Inv => NothingHalfImported
    BY DEF Inv, ImportInv, HeldInv, NothingHalfImported, Imported, Ended, Holding
<1> QED
    BY <1>1, Invariant, PTL

(* When `topo capture` is over, the identifiers are gone unless Ctrl-C came in the finally, its  *)
(* tool has ended unless Ctrl-C came twice or before the wait had begun, and what it told of is  *)
(* not an older capture (capture, _run_tool, _fresh_manifest).                                   *)
THEOREM CapturesEndClean == Spec => []CaptureEndsClean
<1>1. Inv => CaptureEndsClean
    BY DEF Inv, CaptureInv, CaptureEndsClean
<1> QED
    BY <1>1, Invariant, PTL

(* No import changes or removes a folder that another one made (copy_capture's mkdir, and the    *)
(* rmtree of a cleanup, which is of a folder this import made). *)
THEOREM FoldersStayTheirs == Spec => FoldersAreTheirMakers
<1>1. Inv /\ [Next]_vars =>
        [\A n \in Names :
            fix[n].by # "nobody" /\ fix'[n] # fix[n] =>
               \/ g' # g
               \/ \E i \in Importers : fix[n].by = i /\ imp'[i] # imp[i]]_vars
  <2> SUFFICES ASSUME Inv, [Next]_vars, NEW n \in Names, fix[n].by # "nobody", fix'[n] # fix[n]
               PROVE  g' # g \/ \E i \in Importers : fix[n].by = i /\ imp'[i] # imp[i]
      OBVIOUS
  <2>1. CASE CaptureStep \/ ToolWorks \/ ToolWithdraws \/ ToolEnds \/ SignalledToolWorks \/ SignalledToolEnds
    <3>1. fix' = fix
        BY <2>1, CommandSteps, ToolSteps DEF DirMoves
    <3> QED
        BY <3>1
  <2>2. CASE UpdateStep
      BY <2>2, UpdateSteps
  <2>3. ASSUME NEW i \in Importers, ImportStep(i) \/ InterruptImport(i)
        PROVE  fix[n].by = i /\ imp'[i] # imp[i]
    <3>1. fix[n].by = i
        BY <2>3, ImportSteps DEF Keeps, Alone
    <3>2. imp[i].pc \in Holding \cup {"ended"} /\ imp \in [Importers -> Import] /\ imp[i] \in Import
        BY <3>1 DEF Inv, TypeOK, ImportInv, HeldInv
    <3>3. CASE CopyFile(i)
      <4>1. PICK f \in First(imp[i].todo) :
               Fails(i) \/ imp' = [imp EXCEPT ![i].todo = @ \ {f}, ![i].pc = "copy"]
          BY <3>3 DEF CopyFile
      <4>2. f \in imp[i].todo
          BY DEF First
      <4>3. ~Fails(i)
          BY DEF Fails
      <4>4. imp'[i].todo = imp[i].todo \ {f}
          BY <3>2, <4>1, <4>3 DEF Import
      <4> QED
          BY <3>1, <4>2, <4>4
    <3>4. CASE CopyManifest(i) \/ WriteGolden(i) \/ RemoveEntries(i)
      <4>0. \/ imp[i].pc = "copy" /\ IGoto(i, "check")
            \/ imp[i].pc = "golden" /\ IGoto(i, "scan")
            \/ imp[i].pc = "rmtree" /\ IGoto(i, "rmdir")
          BY <3>4 DEF CopyManifest, WriteGolden, RemoveEntries, Fails
      <4>1. imp'[i].pc # imp[i].pc
          BY <3>2, <4>0 DEF IGoto, Import
      <4> QED
          BY <3>1, <4>1
    <3>5. CASE RemoveFolder(i) \/ InterruptRemoval(i)
      <4>0. imp[i].pc \in {"rmdir", "rmtree"} /\ (IEnds(i, "failed") \/ IEnds(i, "cut"))
          BY <3>5 DEF RemoveFolder, InterruptRemoval
      <4>1. ASSUME NEW how, IEnds(i, how) PROVE imp'[i].pc = "ended"
        <5>1. imp'[i] = [imp[i] EXCEPT !.pc = "ended", !.end = how, !.todo = {},
                                       !.acc = IF how = "ok" THEN @ ELSE NoManifest,
                                       !.name = IF how = "ok" THEN @ ELSE "unknown"]
            BY <3>2, <4>1 DEF IEnds, Import
        <5> QED
            BY <3>2, <5>1 DEF Import
      <4> QED
          BY <3>1, <4>0, <4>1
    <3>6. CASE \/ Accept(i) \/ Verify(i) \/ Name(i) \/ CheckCopy(i) \/ Build(i) \/ LeakScan(i)
               \/ InterruptImport(i)
        BY <3>6 DEF Accept, Verify, Name, CheckCopy, Build, LeakScan, InterruptImport
    <3>7. CASE Mkdir(i)
        BY <3>2, <3>7 DEF Mkdir, Holding
    <3> QED
        BY <2>3, <3>1, <3>3, <3>4, <3>5, <3>6, <3>7 DEF ImportStep
  <2>4. CASE UNCHANGED vars
      BY <2>4 DEF vars
  <2> QED
      BY <2>1, <2>2, <2>3, <2>4 DEF Next, AllEnded
<1> QED
    BY <1>1, Invariant, PTL DEF Spec, FoldersAreTheirMakers
====
