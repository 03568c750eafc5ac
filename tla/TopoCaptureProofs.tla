-------------------------- MODULE TopoCaptureProofs --------------------------
(***************************************************************************)
(* What is proved of ostia-topo-capture, for any list of data files and any *)
(* number of captures into one directory.                                   *)
(***************************************************************************)
EXTENDS TopoCapture, SequenceTheorems, TLAPS

(* Where the tool is. *)
Opening == {"discover", "mkid", "trackid", "prepare", "clear"}
Staging == {"mkscratch", "trackscratch", "read", "stage", "validate", "search", "replay"}
Copying == {"publish", "write", "unwind", "finish"}
Recording == {"diagnostics", "manifest", "rename", "sync", "release", "recordfails"}
ScratchInUse == {"read", "stage", "validate", "search", "replay", "publish", "write", "unwind", "handler"}

Running == ~At("idle")

(* The handler, now or after a signal in this instant, removes p. *)
WillGo(p) == \E j \in 1..(IF At("handler") THEN t.i ELSE Len(t.tracked)) : t.tracked[j] = p

DataGone(d) == \A f \in Data : ~There(<<d, f>>)

(* The running capture has nothing in --out. *)
Untouched == doc.by # t.n /\ \A x \in Names : disk[<<"out", x>>].by # t.n

(* The manifest in memory is that of a whole capture whose files are in directory d. *)
Backed(d) ==
    /\ t.m.sanitized /\ t.m.leak_check = "passed" /\ t.m.id /\ Always \subseteq t.m.files
    /\ \A f \in Data : There(<<d, f>>) => f \in t.m.files
    /\ \A f \in t.m.files : disk[<<d, f>>].by = t.n /\ disk[<<d, f>>].whole

Status(why) == IF "partial" \in why THEN "partial" ELSE "complete"

(* It says what the exit code will say, and the data files are as it says. *)
Settled(d) ==
    IF t.m.status = "failed"
    THEN DataGone(d) /\ t.m.files = {} /\ ~t.m.id /\ (t.kind = "failed" \/ Failed(t.why))
    ELSE Backed(d) /\ ~Failed(t.why) /\ t.m.status = Status(t.why) /\ t.kind # "failed" /\ ~t.retry

-----------------------------------------------------------------------------
(* At every moment, whatever the tool does. *)
DiskInv ==
    /\ \A p \in Paths : disk[p].by \in (0..t.n) \cup {User}
    /\ (doc # NoManifest) <=> There(<<"out", "manifest.json">>)
    /\ doc.by \in 0..t.n
    /\ doc.status = "failed" => doc.files = {} /\ ~doc.id
    /\ disk[<<"out", "other">>].by \in {0, User}
    /\ ~There(<<"id", "other">>) /\ ~There(<<"scratch", "other">>)
    /\ \A x \in Names : There(<<"out", x>>) => There(<<"out", ".">>)

KindInv ==
    /\ Running => t.n \in Captures
    /\ t.pc \in {"mkid", "trackid", "rmtree"} => t.kind = "print_id"
    /\ t.pc = "clear" => t.kind # "print_id"
    /\ t.pc \in {"discover", "mkid"} => t.tracked = <<>>
    /\ t.pc \in Opening \cup Staging => t.written = {}
    /\ t.pc \in Opening \cup Staging \cup Copying => ~t.retry
    /\ Running /\ t.kind = "failed" =>
          /\ t.pc \in {"prepare", "clear", "diagnostics", "manifest", "rename", "sync", "recordfails",
                       "return", "exit", "handler"}
          /\ t.tracked = <<>> /\ t.written = {} /\ ~t.retry
    /\ t.kind # "print_id" => t.mark = 0
    /\ t.kind = "print_id" /\ Running /\ t.pc \notin {"discover", "mkid", "trackid", "handler"} =>
          /\ t.mark = Len(IdNames) /\ t.mark <= Len(t.tracked)
          /\ \A j \in 1..t.mark : t.tracked[j] = IdNames[j]

(* Only checked files leave the scratch directory. *)
SickInv ==
    /\ NothingUnchecked
    /\ t.pc = "search" => sick[t.n] # "schema"
    /\ t.pc \in {"replay", "publish", "write"} => sick[t.n] = "none"

(* The directory that is written to: what is in it is this capture's, without a manifest. *)
DirInv ==
    /\ Running /\ (t.kind = "print_id" \/ t.pc \in Opening) => Untouched
    /\ t.pc \in Staging \cup Copying \cup {"diagnostics", "manifest", "rename"} /\ Dir = "out" => doc = NoManifest
    /\ t.pc \in Staging \cup Copying \cup Recording \cup {"unrecord"} =>
          /\ There(<<Dir, ".">>) /\ t.written \subseteq {Dir} \X Data
          /\ \A f \in Data : There(<<Dir, f>>) => <<Dir, f>> \in t.written /\ disk[<<Dir, f>>].by = t.n
    /\ t.pc = "clear" =>
          /\ There(<<Dir, ".">>) /\ t.i \in 1..Len(ClearOrder)
          /\ \A j \in 1..(t.i - 1) : ~There(<<Dir, ClearOrder[j]>>)

(* The manifest in memory, from the sources to the finish. *)
MemoryInv ==
    /\ t.pc \in Opening \cup {"mkscratch", "trackscratch", "read", "stage", "validate"} => t.m = NoManifest
    /\ t.pc \in {"stage", "validate", "search", "replay", "publish", "write"} =>
          Always \subseteq t.staged /\ t.left \subseteq t.staged
    /\ t.pc \in {"validate", "search", "replay"} => t.left = t.staged
    /\ t.pc \in {"search", "replay", "publish", "write"} => t.m.sanitized
    /\ t.pc \in {"replay", "publish", "write"} => t.m.leak_check = "passed"
    /\ t.pc \in {"search", "replay"} => t.m.files = {}
    /\ t.pc \in {"publish", "write"} =>
          /\ t.m.files = t.staged \ t.left
          /\ \A f \in t.m.files : disk[<<Dir, f>>].by = t.n /\ disk[<<Dir, f>>].whole
          /\ \A f \in Data : There(<<Dir, f>>) => f \in t.m.files \/ (At("write") /\ f \in First(t.left))
    /\ At("write") => \A f \in First(t.left) : <<Dir, f>> \in t.written
    /\ t.pc \in {"unwind", "finish"} /\ ~Failed(t.why) => Backed(Dir)

(* From the finish on: manifest, exit code, data files and --out's manifest agree. *)
RecordInv ==
    /\ t.pc \in Recording => Settled(Dir)
    /\ t.pc \in Recording \cup {"unrecord"} => t.m.by = t.n \/ (At("diagnostics") /\ t.kind = "failed")
    /\ t.pc \in Recording /\ t.retry => "other" \in t.why
    /\ t.pc \in {"sync", "release"} /\ Dir = "out" => doc = t.m
    /\ At("recordfails") /\ Dir = "out" => doc \in {t.m, NoManifest}
    /\ At("release") => t.kind # "failed" /\ ~t.retry
    /\ At("unrecord") =>
          /\ t.m.status = "failed" /\ Settled(Dir) /\ t.kind # "failed" /\ "other" \in t.why
    /\ t.pc \in {"return", "exit"} /\ t.kind # "print_id" =>
          /\ Settled("out")
          /\ doc = t.m \/ (t.m.status = "failed" /\ (t.kind = "failed" \/ Untouched))
          /\ t.kind = "failed" => doc.by # t.n \/ doc.status = "failed"
          /\ t.m.by = t.n
          /\ t.m.status # "failed" => t.tracked = <<>>

(* What the tool leaves is on the handler's list before it is there. *)
TrackInv ==
    /\ Running /\ t.pc \notin ScratchInUse =>
          \A x \in Names \cup {"."} : There(<<"scratch", x>>) => At("trackscratch") /\ x = "."
    /\ t.pc \in ScratchInUse => \A x \in Names : There(<<"scratch", x>>) => WillGo(<<"scratch", x>>)
    /\ t.pc \in Copying \cup Recording \cup {"unrecord"} => \A p \in t.written : WillGo(p)
    /\ t.pc \in {"manifest", "rename", "sync", "release", "recordfails", "unrecord"} /\ t.kind # "failed" =>
          t.tracked # <<>> /\ t.tracked[Len(t.tracked)] = <<Dir, "manifest.json">>

(* The directory of --print-id. *)
IdInv ==
    t.kind = "print_id" =>
    /\ t.pc \in {"discover", "mkid", "trackid", "prepare", "exit"} => DirIsEmpty("id")
    /\ t.pc \in {"discover", "mkid", "exit"} => ~There(<<"id", ".">>)
    /\ t.pc \in {"trackid", "prepare"} => There(<<"id", ".">>)
    /\ At("handler") => \A x \in Names : There(<<"id", x>>) => WillGo(<<"id", x>>)

(* The handler takes the manifest before the files it lists, or finds nothing to take. *)
HandlerInv ==
    At("handler") =>
    /\ t.i <= Len(t.tracked)
    /\ \A f \in Data : disk[<<"out", f>>].by = t.n =>
          WillGo(<<"out", f>>) \/ (t.tracked = <<>> /\ Published(t.n))
    /\ doc.by = t.n /\ doc.status # "failed" =>
          /\ t.kind = "capture"
          /\ "other" \notin t.why \/ t.tracked = <<>> => Published(t.n)
          /\ t.tracked # <<>> => t.i = Len(t.tracked) /\ t.tracked[t.i] = <<"out", "manifest.json">>

Inv ==
    /\ TypeOK /\ DiskInv /\ KindInv /\ SickInv /\ DirInv /\ MemoryInv /\ RecordInv /\ TrackInv
    /\ IdInv /\ HandlerInv /\ EndsAsItSays

-----------------------------------------------------------------------------
(* The constants: names, paths and the two lists of names.                  *)

(* The data files are not the files of the record, nor the user's. *)
LEMMA NameFacts ==
    /\ Names = Data \cup {"diagnostics.txt", "manifest.json.tmp", "manifest.json", "other"}
    /\ Data \cap {"diagnostics.txt", "manifest.json.tmp", "manifest.json", "other", "."} = {}
    /\ Always \subseteq Data
    /\ Len(Record) = 3 /\ Record[1] = "diagnostics.txt" /\ Record[2] = "manifest.json.tmp"
    /\ Record[3] = "manifest.json"
<1>1. Range(Record) = {"diagnostics.txt", "manifest.json.tmp", "manifest.json"}
    <2>1. DOMAIN Record = 1..3
        BY DEF Record
    <2>2. 1..3 = {1, 2, 3}
        OBVIOUS
    <2> QED
        BY <2>1, <2>2 DEF Record, Range
<1> QED
    BY <1>1, CaptureAssumption DEF Names, Data, Record

(* A path is a directory and a name in it, or the directory itself. *)
LEMMA PathFacts ==
    /\ \A d \in Dirs, x \in Names \cup {"."} : <<d, x>> \in Paths
    /\ \A p \in Paths : p = <<p[1], p[2]>> /\ p[1] \in Dirs /\ p[2] \in Names \cup {"."}
    /\ \A d, e, x, y : <<d, x>> = <<e, y>> <=> d = e /\ x = y
    /\ Dirs = {"out", "id", "scratch"}
    BY DEF Paths, Dirs

(* Bounds of the captures' numbers. *)
LEMMA NumberFacts ==
    /\ MaxCaptures \in Nat /\ User \notin Captures /\ User # 0 /\ 0 \notin Captures
    /\ \A n \in Captures : n \in Nat /\ n \in 0..MaxCaptures /\ n # User
    /\ \A n \in 0..MaxCaptures : n # User /\ (n # 0 => n \in Captures)
    /\ Promise!Captures = Captures
    BY CaptureAssumption DEF Captures, User, Promise!Captures

(* What a path may hold; Nothing is the content of nobody. *)
LEMMA ContentFacts ==
    /\ Nothing \in Content
    /\ \A c \in Content : c.by \in Captures \cup {0, User} /\ c.whole \in BOOLEAN /\ (c = Nothing <=> c.by = 0)
    /\ \A n \in Captures, w \in BOOLEAN :
          /\ [by |-> n, whole |-> w] \in Content /\ [by |-> n, whole |-> w] # Nothing
          /\ [by |-> n, whole |-> w].by = n /\ [by |-> n, whole |-> w].whole = w
<1>1. Nothing.by = 0 /\ Nothing \in Content
    BY DEF Nothing, Content
<1>2. ASSUME NEW c \in [by : Captures \cup {User}, whole : BOOLEAN]
      PROVE  c.by \in Captures \cup {User} /\ c.whole \in BOOLEAN /\ c # Nothing
    BY <1>1, NumberFacts
<1>3. \A c \in Content : c = Nothing \/ c \in [by : Captures \cup {User}, whole : BOOLEAN]
    BY DEF Content
<1>4. Nothing.whole \in BOOLEAN
    BY DEF Nothing
<1>5. \A c \in Content : c.by \in Captures \cup {0, User} /\ c.whole \in BOOLEAN /\ (c = Nothing <=> c.by = 0)
    BY <1>1, <1>2, <1>3, <1>4, NumberFacts
<1>6. ASSUME NEW n \in Captures, NEW w \in BOOLEAN
      PROVE  /\ [by |-> n, whole |-> w] \in Content /\ [by |-> n, whole |-> w] # Nothing
             /\ [by |-> n, whole |-> w].by = n /\ [by |-> n, whole |-> w].whole = w
    <2>1. [by |-> n, whole |-> w] \in [by : Captures \cup {User}, whole : BOOLEAN]
        OBVIOUS
    <2> QED
        BY <1>2, <2>1 DEF Content
<1> QED
    BY <1>1, <1>5, <1>6

(* prepare_out removes every name a capture may leave. *)
LEMMA ClearFacts ==
    /\ Len(ClearOrder) \in Nat /\ Len(ClearOrder) >= 1
    /\ \A j \in 1..Len(ClearOrder) : ClearOrder[j] \in Names /\ ClearOrder[j] # "other"
    /\ \A f \in Data \cup {"manifest.json"} : \E j \in 1..Len(ClearOrder) : ClearOrder[j] = f
<1> DEFINE r == <<"manifest.json", "manifest.json.tmp", "diagnostics.txt">>
           n == Len(kDataFiles)
<1>1. kDataFiles \in Seq(Names) /\ r \in Seq(Names) /\ n \in Nat /\ Len(r) = 3
    <2>1. kDataFiles \in Seq(Data) /\ Data \subseteq Names
        BY CaptureAssumption, NameFacts DEF Data
    <2> QED
        BY <2>1, NameFacts
<1>2. /\ Len(ClearOrder) = n + 3
      /\ \A j \in 1..(n + 3) : ClearOrder[j] = IF j <= n THEN kDataFiles[j] ELSE r[j - n]
    BY <1>1 DEF ClearOrder
<1>3. \A f \in Data : \E j \in 1..n : kDataFiles[j] = f
    BY <1>1 DEF Data, Range
<1>4. \A j \in 1..n : kDataFiles[j] \in Data
    BY <1>1 DEF Data, Range
<1>5. ASSUME NEW j \in 1..(n + 3) PROVE ClearOrder[j] \in Names /\ ClearOrder[j] # "other"
    <2>1. CASE j <= n
        <3>1. j \in 1..n
            BY <2>1, <1>1
        <3> QED
            BY <3>1, <2>1, <1>2, <1>4, NameFacts
    <2>2. CASE ~(j <= n)
        <3>1. j - n \in {1, 2, 3}
            BY <2>2, <1>1
        <3>2. r[j - n] \in {"manifest.json", "manifest.json.tmp", "diagnostics.txt"}
            BY <3>1
        <3> QED
            BY <2>2, <3>2, <1>2, NameFacts
    <2> QED
        BY <2>1, <2>2
<1>6. n + 1 \in 1..(n + 3) /\ ClearOrder[n + 1] = "manifest.json"
    BY <1>1, <1>2
<1>7. ASSUME NEW f \in Data PROVE \E j \in 1..(n + 3) : ClearOrder[j] = f
    <2>1. PICK j \in 1..n : kDataFiles[j] = f
        BY <1>3
    <2>2. j \in 1..(n + 3) /\ j <= n
        BY <1>1
    <2> QED
        BY <2>1, <2>2, <1>2
<1>8. n + 3 \in Nat /\ n + 3 >= 1
    BY <1>1
<1> QED
    BY <1>2, <1>5, <1>6, <1>7, <1>8

(* --print-id tracks every name a capture can write in its directory. *)
LEMMA IdFacts ==
    /\ IdNames \in Seq(Paths) /\ Len(IdNames) \in Nat
    /\ \A x \in Names \ {"other"} : \E j \in 1..Len(IdNames) : IdNames[j] = <<"id", x>>
    /\ \A j \in 1..Len(IdNames) : IdNames[j][1] = "id"
<1> DEFINE a == <<<<"id", ".">>>>
           b == [k \in 1..Len(kDataFiles) |-> <<"id", kDataFiles[k]>>]
           c == [k \in 1..Len(Record) |-> <<"id", Record[k]>>]
           n == Len(kDataFiles)
<1>0. kDataFiles \in Seq(Data) /\ n \in Nat /\ Data \subseteq Names
    BY CaptureAssumption, NameFacts DEF Data
<1>1. a \in Seq(Paths) /\ Len(a) = 1 /\ a[1] = <<"id", ".">>
    BY PathFacts
<1>2. b \in Seq(Paths) /\ Len(b) = n /\ \A k \in 1..n : b[k] = <<"id", kDataFiles[k]>>
    <2>1. \A k \in 1..n : kDataFiles[k] \in Data
        BY <1>0
    <2>2. \A k \in 1..n : <<"id", kDataFiles[k]>> \in Paths
        BY <2>1, <1>0, PathFacts
    <2>3. b \in [1..n -> Paths]
        BY <2>2
    <2>4. b \in Seq(Paths)
        BY <2>3, <1>0, SeqDef
    <2>5. Len(b) \in Nat /\ DOMAIN b = 1..Len(b)
        BY <2>4, LenProperties
    <2>6. Len(b) = n
        BY <2>4, <1>0
    <2> QED
        BY <2>4, <2>6
<1>3. c \in Seq(Paths) /\ Len(c) = 3 /\ \A k \in 1..3 : c[k] = <<"id", Record[k]>>
    <2>1. \A k \in 1..3 : Record[k] \in Names
        <3>1. \A k \in 1..3 : k = 1 \/ k = 2 \/ k = 3
            OBVIOUS
        <3> QED
            BY <3>1, NameFacts
    <2>2. \A k \in 1..3 : <<"id", Record[k]>> \in Paths
        BY <2>1, PathFacts
    <2>3. c \in [1..3 -> Paths]
        BY <2>2, NameFacts
    <2> QED
        BY <2>3, NameFacts
<1> HIDE DEF a, b, c
<1>4. /\ a \o b \in Seq(Paths) /\ Len(a \o b) = 1 + n
      /\ \A j \in 1..(1 + n) : (a \o b)[j] = IF j <= 1 THEN a[j] ELSE b[j - 1]
    <2>1. /\ a \o b \in Seq(Paths) /\ Len(a \o b) = Len(a) + Len(b)
          /\ \A j \in 1..(Len(a) + Len(b)) : (a \o b)[j] = IF j <= Len(a) THEN a[j] ELSE b[j - Len(a)]
        BY <1>1, <1>2, ConcatProperties
    <2> QED
        BY <2>1, <1>0, <1>1, <1>2
<1>5. IdNames = (a \o b) \o c
    BY DEF IdNames, a, b, c
<1> DEFINE ab == a \o b
<1> HIDE DEF ab
<1>6. /\ IdNames \in Seq(Paths) /\ Len(IdNames) = n + 4
      /\ \A j \in 1..(n + 4) : IdNames[j] = IF j <= 1 + n THEN ab[j] ELSE c[j - (1 + n)]
    <2>1. ab \in Seq(Paths) /\ Len(ab) = 1 + n /\ IdNames = ab \o c
        BY <1>4, <1>5 DEF ab
    <2>2. /\ ab \o c \in Seq(Paths) /\ Len(ab \o c) = Len(ab) + Len(c)
          /\ \A j \in 1..(Len(ab) + Len(c)) : (ab \o c)[j] = IF j <= Len(ab) THEN ab[j] ELSE c[j - Len(ab)]
        <3>1. ab \in Seq(Paths) /\ c \in Seq(Paths)
            BY <2>1, <1>3
        <3> QED
            BY <3>1, ConcatProperties
    <2>3. Len(ab) + Len(c) = n + 4
        BY <2>1, <1>0, <1>3
    <2> QED
        BY <2>1, <2>2, <2>3
<1>7. \A k \in 1..n : k + 1 \in 1..(n + 4) /\ IdNames[k + 1] = <<"id", kDataFiles[k]>>
    <2> SUFFICES ASSUME NEW k \in 1..n PROVE k + 1 \in 1..(n + 4) /\ IdNames[k + 1] = <<"id", kDataFiles[k]>>
        OBVIOUS
    <2>1. k + 1 \in 1..(n + 4) /\ k + 1 <= 1 + n /\ k + 1 \in 1..(1 + n) /\ ~(k + 1 <= 1) /\ (k + 1) - 1 = k
        BY <1>0
    <2>2. ab[k + 1] = b[(k + 1) - 1]
        BY <2>1, <1>4 DEF ab
    <2> QED
        BY <2>1, <2>2, <1>2, <1>6
<1>8. \A k \in 1..3 : n + 1 + k \in 1..(n + 4) /\ IdNames[n + 1 + k] = <<"id", Record[k]>>
    <2> SUFFICES ASSUME NEW k \in 1..3 PROVE n + 1 + k \in 1..(n + 4) /\ IdNames[n + 1 + k] = <<"id", Record[k]>>
        OBVIOUS
    <2>1. n + 1 + k \in 1..(n + 4) /\ ~(n + 1 + k <= 1 + n) /\ (n + 1 + k) - (1 + n) = k
        BY <1>0
    <2> QED
        BY <2>1, <1>3, <1>6
<1>9. IdNames[1] = <<"id", ".">> /\ 1 \in 1..(n + 4)
    <2>1. 1 \in 1..(n + 4) /\ 1 <= 1 + n /\ 1 \in 1..(1 + n)
        BY <1>0
    <2>2. ab[1] = a[1]
        BY <2>1, <1>4 DEF ab
    <2> QED
        BY <2>1, <2>2, <1>1, <1>6
<1>10. ASSUME NEW x \in Names \ {"other"} PROVE \E j \in 1..(n + 4) : IdNames[j] = <<"id", x>>
    <2>1. CASE x \in Data
        <3>1. PICK k \in 1..n : kDataFiles[k] = x
            BY <2>1, <1>0 DEF Data, Range
        <3> QED
            BY <3>1, <1>7
    <2>2. CASE x \notin Data
        <3>1. 1 \in 1..3 /\ 2 \in 1..3 /\ 3 \in 1..3
            OBVIOUS
        <3>2. PICK k \in 1..3 : Record[k] = x
            BY <2>2, <3>1, NameFacts
        <3> QED
            BY <3>2, <1>8
    <2> QED
        BY <2>1, <2>2
<1>11. ASSUME NEW j \in 1..(n + 4) PROVE IdNames[j][1] = "id"
    <2>1. j = 1 \/ j - 1 \in 1..n \/ j - (n + 1) \in 1..3
        BY <1>0
    <2>2. j = 1 => IdNames[j][1] = "id"
        BY <1>9
    <2>3. ASSUME j - 1 \in 1..n PROVE IdNames[j][1] = "id"
        <3>1. (j - 1) + 1 = j
            BY <1>0
        <3>2. IdNames[j] = <<"id", kDataFiles[j - 1]>>
            BY <2>3, <3>1, <1>7
        <3> QED
            BY <3>2
    <2>4. ASSUME j - (n + 1) \in 1..3 PROVE IdNames[j][1] = "id"
        <3>1. n + 1 + (j - (n + 1)) = j
            BY <1>0
        <3>2. IdNames[j] = <<"id", Record[j - (n + 1)]>>
            BY <2>4, <3>1, <1>8
        <3> QED
            BY <3>2
    <2> QED
        BY <2>1, <2>2, <2>3, <2>4
<1>12. n + 4 \in Nat
    BY <1>0
<1> QED
    BY <1>6, <1>10, <1>11, <1>12

(* The list for the handler grows at its end and shrinks to its mark. *)
LEMMA ListFacts ==
    ASSUME NEW q \in Seq(Paths)
    PROVE  /\ Len(q) \in Nat
           /\ \A j \in 1..Len(q) : q[j] \in Paths
           /\ \A p \in Paths :
                 /\ Append(q, p) \in Seq(Paths) /\ Len(Append(q, p)) = Len(q) + 1
                 /\ Append(q, p)[Len(q) + 1] = p
                 /\ \A j \in 1..Len(q) : Append(q, p)[j] = q[j]
           /\ \A m \in 0..Len(q) :
                 /\ SubSeq(q, 1, m) \in Seq(Paths) /\ Len(SubSeq(q, 1, m)) = m
                 /\ \A j \in 1..m : SubSeq(q, 1, m)[j] = q[j]
           /\ q = <<>> <=> Len(q) = 0
<1>1. \A p \in Paths :
                 /\ Append(q, p) \in Seq(Paths) /\ Len(Append(q, p)) = Len(q) + 1
                 /\ Append(q, p)[Len(q) + 1] = p
                 /\ \A j \in 1..Len(q) : Append(q, p)[j] = q[j]
    OBVIOUS
<1>2. ASSUME NEW m \in 0..Len(q)
      PROVE  /\ SubSeq(q, 1, m) \in Seq(Paths) /\ Len(SubSeq(q, 1, m)) = m
             /\ \A j \in 1..m : SubSeq(q, 1, m)[j] = q[j]
    OBVIOUS
<1> QED
    BY <1>1, <1>2

-----------------------------------------------------------------------------
(* What the tool's steps are made of.                                       *)

SameRun == t'.n = t.n /\ t'.kind = t.kind /\ t'.mark = t.mark
SameList == t'.tracked = t.tracked /\ t'.written = t.written
SameFiles == t'.staged = t.staged /\ t'.left = t.left
SameVerdict == t'.why = t.why /\ t'.m = t.m /\ t'.retry = t.retry
SameMemory == SameRun /\ SameList /\ SameFiles /\ SameVerdict

(* The fields of the tool's memory. *)
LEMMA MemoryFacts ==
    ASSUME t \in Memory
    PROVE  /\ t.n \in 0..MaxCaptures /\ t.kind \in {"capture", "failed", "print_id"} /\ t.pc \in MainPcs
           /\ t.i \in Nat /\ t.staged \subseteq Data /\ t.left \subseteq Data
           /\ t.why \subseteq {"leak_or_schema", "other", "partial"}
           /\ t.m.by \in 0..MaxCaptures /\ t.m.status \in {"complete", "partial", "failed"}
           /\ t.m.sanitized \in BOOLEAN /\ t.m.leak_check \in {"not_run", "passed", "failed"}
           /\ t.m.files \subseteq Data /\ t.m.id \in BOOLEAN
           /\ t.written \subseteq Paths /\ t.tracked \in Seq(Paths) /\ t.mark \in Nat /\ t.retry \in BOOLEAN
    BY DEF Memory

(* The manifest that is not there is nobody's, failed and empty. *)
LEMMA NoManifestFacts ==
    /\ NoManifest.by = 0 /\ NoManifest.status = "failed" /\ NoManifest.files = {} /\ NoManifest.id = FALSE
    /\ NoManifest \notin Promise!Manifest
    /\ NoManifest \in [by : 0..MaxCaptures, status : {"complete", "partial", "failed"}, sanitized : BOOLEAN,
          leak_check : {"not_run", "passed", "failed"}, files : SUBSET Data, id : BOOLEAN]
    BY NumberFacts DEF NoManifest, Promise!NoManifest, Promise!Manifest

(* A manifest in memory with a capture's number is one that can be published. *)
LEMMA ManifestFacts ==
    ASSUME t \in Memory
    PROVE  t.m.by \in Captures => t.m \in Promise!Manifest
    BY NumberFacts DEF Memory, Promise!Manifest, Data

(* The manifest in --out. *)
LEMMA DocFacts ==
    ASSUME doc \in Promise!Manifest \cup {NoManifest}
    PROVE  /\ doc.by \in 0..MaxCaptures /\ (doc = NoManifest <=> doc.by = 0)
           /\ doc.files \subseteq Data /\ doc.id \in BOOLEAN
<1>1. \A m \in Promise!Manifest : m.by \in Captures /\ m.files \subseteq Data /\ m.id \in BOOLEAN
    BY NumberFacts DEF Promise!Manifest, Data
<1> QED
    BY <1>1, NumberFacts, NoManifestFacts

(* A write replaces what is at one path. *)
LEMMA PutFacts ==
    ASSUME disk \in [Paths -> Content], t.n \in Captures, NEW p \in Paths, NEW w \in BOOLEAN, Put(p, w)
    PROVE  /\ disk' \in [Paths -> Content]
           /\ disk'[p] # Nothing /\ disk'[p].by = t.n /\ disk'[p].whole = w
           /\ \A q \in Paths : q # p => disk'[q] = disk[q]
<1> DEFINE c == [by |-> t.n, whole |-> w]
<1>1. c \in Content /\ c # Nothing /\ c.by = t.n /\ c.whole = w
    BY ContentFacts
<1>2. disk' = [disk EXCEPT ![p] = c]
    BY DEF Put
<1> HIDE DEF c
<1> QED
    BY <1>1, <1>2

(* A removal leaves nothing at the paths it is given. *)
LEMMA UnlinkFacts ==
    ASSUME disk \in [Paths -> Content], NEW ps, Unlink(ps)
    PROVE  /\ disk' \in [Paths -> Content]
           /\ \A q \in Paths : disk'[q] = IF q \in ps THEN Nothing ELSE disk[q]
    BY ContentFacts DEF Unlink

(* The directory a run writes to. *)
LEMMA DirFacts ==
    /\ Dir \in {"out", "id"} /\ Dir \in Dirs /\ (Dir = "out" <=> t.kind # "print_id")
    BY DEF Dir, Dirs

(* There is at most one first file. *)
LEMMA OneFirst ==
    ASSUME NEW left, NEW f \in First(left), NEW g \in First(left)
    PROVE  f = g /\ f \in left
<1>1. PICK k \in DOMAIN kDataFiles : kDataFiles[k] = f /\ \A j \in 1..(k - 1) : kDataFiles[j] \notin left
    BY DEF First
<1>2. PICK l \in DOMAIN kDataFiles : kDataFiles[l] = g /\ \A j \in 1..(l - 1) : kDataFiles[j] \notin left
    BY DEF First
<1>3. k \in Nat \ {0} /\ l \in Nat \ {0}
    BY CaptureAssumption
<1>4. f \in left /\ g \in left
    BY DEF First
<1>5. ~(k < l)
    <2>1. k < l => k \in 1..(l - 1)
        BY <1>3
    <2> QED
        BY <2>1, <1>1, <1>2, <1>4
<1>6. ~(l < k)
    <2>1. l < k => l \in 1..(k - 1)
        BY <1>3
    <2> QED
        BY <2>1, <1>1, <1>2, <1>4
<1>7. k = l
    BY <1>3, <1>5, <1>6
<1> QED
    BY <1>1, <1>2, <1>4, <1>7

(* What is on the handler's list stays on it when the list grows. *)
LEMMA ListGrows ==
    ASSUME t \in Memory, NEW p \in Paths, t.pc # "handler", t'.pc # "handler", t'.tracked = Append(t.tracked, p)
    PROVE  /\ WillGo(p)' /\ \A q : WillGo(q) => WillGo(q)'
           /\ t'.tracked \in Seq(Paths) /\ Len(t'.tracked) = Len(t.tracked) + 1
           /\ \A j \in 1..Len(t.tracked) : t'.tracked[j] = t.tracked[j]
<1>1. /\ t.tracked \in Seq(Paths) /\ Len(t.tracked) \in Nat
      /\ t'.tracked \in Seq(Paths) /\ Len(t'.tracked) = Len(t.tracked) + 1
      /\ t'.tracked[Len(t.tracked) + 1] = p
      /\ \A j \in 1..Len(t.tracked) : t'.tracked[j] = t.tracked[j]
    BY MemoryFacts, ListFacts
<1>2. \A q : WillGo(q) <=> \E j \in 1..Len(t.tracked) : t.tracked[j] = q
    BY DEF WillGo, At
<1>3. \A q : WillGo(q)' <=> \E j \in 1..Len(t'.tracked) : t'.tracked[j] = q
    BY DEF WillGo, At
<1>4. Len(t.tracked) + 1 \in 1..Len(t'.tracked) /\ \A j \in 1..Len(t.tracked) : j \in 1..Len(t'.tracked)
    BY <1>1
<1> QED
    BY <1>1, <1>2, <1>3, <1>4

(* Neither does a step that keeps the list change what the handler would remove. *)
LEMMA ListKept ==
    ASSUME t.pc # "handler", t'.pc # "handler", t'.tracked = t.tracked
    PROVE  \A q : WillGo(q)' <=> WillGo(q)
    BY DEF WillGo, At

(* A step to anywhere but the end has nothing to report, and one to anywhere but the handler    *)
(* nothing to clean.                                                                             *)
LEMMA NotOver ==
    /\ t'.pc # "idle" => EndsAsItSays'
    /\ t'.pc # "handler" => HandlerInv'
    BY DEF EndsAsItSays, EndedAsReported, SignalLeavesAllOrNothing, PrintIdKeepsNothing, Over, At, HandlerInv

(* A step that removes data files, or none, and writes none. *)
LEMMA SickKept ==
    ASSUME SickInv, sick' = sick, t'.n = t.n,
           \A d \in {"out", "id"}, f \in Data : disk'[<<d, f>>].by \in {0, disk[<<d, f>>].by}
    PROVE  NothingUnchecked'
<1>1. \A d \in {"out", "id"}, k \in Captures, f \in Data : disk[<<d, f>>].by = k => sick[k] = "none"
    BY DEF SickInv, NothingUnchecked, DataOf
<1>2. \A d \in {"out", "id"}, k \in Captures, f \in Data : disk'[<<d, f>>].by = k => sick'[k] = "none"
    BY <1>1, NumberFacts
<1> QED
    BY <1>2 DEF NothingUnchecked, DataOf

(* Writes and removals, and what is always so. *)
LEMMA DiskPut ==
    ASSUME TypeOK, DiskInv, t.n \in Captures, NEW d \in Dirs, NEW x \in Names \cup {"."}, NEW w \in BOOLEAN,
           x # "other", d = "out" => x # "manifest.json" /\ (x = "." \/ There(<<"out", ".">>)),
           Put(<<d, x>>, w), t'.n = t.n, doc' = doc
    PROVE  DiskInv'
<1>1. /\ \A q \in Paths : q # <<d, x>> => disk'[q] = disk[q]
      /\ disk'[<<d, x>>].by = t.n /\ disk'[<<d, x>>] # Nothing /\ <<d, x>> \in Paths /\ t.n \in 0..t.n
    BY PutFacts, PathFacts, NumberFacts DEF TypeOK
<1>2. /\ <<"out", "manifest.json">> \in Paths /\ <<"out", "other">> \in Paths
      /\ <<"id", "other">> \in Paths /\ <<"scratch", "other">> \in Paths
    BY PathFacts, NameFacts
<1>3. /\ <<d, x>> # <<"out", "manifest.json">> /\ <<d, x>> # <<"out", "other">>
      /\ <<d, x>> # <<"id", "other">> /\ <<d, x>> # <<"scratch", "other">>
    BY PathFacts
<1>4. ASSUME NEW y \in Names, disk'[<<"out", y>>] # Nothing PROVE disk'[<<"out", ".">>] # Nothing
    <2>1. <<"out", y>> \in Paths /\ <<"out", ".">> \in Paths
        BY PathFacts
    <2>2. CASE <<d, x>> = <<"out", ".">>
        BY <1>1, <2>2
    <2>3. CASE <<d, x>> # <<"out", ".">>
        <3>1. disk'[<<"out", ".">>] = disk[<<"out", ".">>]
            BY <1>1, <2>1, <2>3
        <3>2. <<d, x>> # <<"out", y>> => disk[<<"out", y>>] # Nothing
            BY <1>1, <1>4, <2>1
        <3>3. <<d, x>> = <<"out", y>> => There(<<"out", ".">>)
            BY <2>3, PathFacts
        <3> QED
            BY <3>1, <3>2, <3>3 DEF There, DiskInv
    <2> QED
        BY <2>2, <2>3
<1> QED
    BY <1>1, <1>2, <1>3, <1>4 DEF DiskInv, There

(* The same of a removal, which also takes the manifest from readers. *)
LEMMA DiskUnlink ==
    ASSUME TypeOK, DiskInv, NEW ps, Unlink(ps), t'.n \in Nat, t.n <= t'.n, <<"out", ".">> \notin ps,
           doc' = (IF <<"out", "manifest.json">> \in ps THEN NoManifest ELSE doc)
    PROVE  DiskInv'
<1>1. \A q \in Paths : disk'[q] = IF q \in ps THEN Nothing ELSE disk[q]
    BY UnlinkFacts DEF TypeOK
<1>2. /\ <<"out", "manifest.json">> \in Paths /\ <<"out", "other">> \in Paths
      /\ <<"id", "other">> \in Paths /\ <<"scratch", "other">> \in Paths
    BY PathFacts, NameFacts
<1>3. Nothing.by = 0 /\ 0 \in 0..t'.n
    BY ContentFacts
<1>4. \A k \in 0..t.n : k \in 0..t'.n
    BY MemoryFacts, NumberFacts DEF TypeOK
<1>5. \A x \in Names : disk'[<<"out", x>>] # Nothing => disk'[<<"out", ".">>] # Nothing
    BY <1>1, PathFacts DEF DiskInv, There
<1> QED
    BY <1>1, <1>2, <1>3, <1>4, <1>5, NoManifestFacts DEF DiskInv, There


-----------------------------------------------------------------------------
(* Where it starts, and how it ends.                                        *)

(* An empty --out, or a user's. *)
LEMMA InitInv == Init => Inv
<1> SUFFICES ASSUME Init PROVE Inv
    OBVIOUS
<1>1. PICK used \in BOOLEAN, other \in BOOLEAN :
          disk = [p \in Paths |->
                    IF \/ used /\ p = <<"out", ".">>
                       \/ used /\ other /\ p = <<"out", "other">>
                    THEN [by |-> User, whole |-> TRUE] ELSE Nothing]
    BY DEF Init
<1>2. [by |-> User, whole |-> TRUE] \in Content /\ [by |-> User, whole |-> TRUE].by = User
    BY DEF Content
<1>3. /\ disk \in [Paths -> Content]
      /\ \A p \in Paths : disk[p].by \in {0, User}
      /\ \A p \in Paths : p # <<"out", ".">> /\ p # <<"out", "other">> => disk[p] = Nothing
    BY <1>1, <1>2, ContentFacts
<1>4. /\ t.n = 0 /\ t.kind = "capture" /\ t.pc = "idle" /\ t.mark = 0 /\ t \in Memory
      /\ doc = NoManifest /\ sick \in [Captures -> {"none", "schema", "leak"}]
      /\ exit \in [Captures -> {"running", "0", "1", "2", "3", "signal", "killed"}]
    <2>1. t = Fresh
        BY DEF Init
    <2>2. Fresh.n = 0 /\ Fresh.kind = "capture" /\ Fresh.pc = "idle" /\ Fresh.mark = 0
        BY DEF Fresh
    <2>3. <<>> \in Seq(Paths) /\ 0 \in 0..MaxCaptures
        BY NumberFacts
    <2>4. Fresh \in Memory
        BY <2>3, NoManifestFacts DEF Fresh, Memory, MainPcs
    <2> QED
        BY <2>1, <2>2, <2>4 DEF Init
<1>5. TypeOK
    BY <1>3, <1>4 DEF TypeOK
<1>6. DiskInv
    <2>1. /\ <<"out", "manifest.json">> \in Paths /\ <<"out", "other">> \in Paths
          /\ <<"id", "other">> \in Paths /\ <<"scratch", "other">> \in Paths
        BY PathFacts, NameFacts
    <2>2. /\ disk[<<"out", "manifest.json">>] = Nothing /\ disk[<<"id", "other">>] = Nothing
          /\ disk[<<"scratch", "other">>] = Nothing
        BY <1>3, <2>1, PathFacts
    <2>3. \A x \in Names : disk[<<"out", x>>] # Nothing => disk[<<"out", ".">>] # Nothing
        <3>1. [by |-> User, whole |-> TRUE] # Nothing
            BY <1>2, ContentFacts, NumberFacts
        <3>2. \A x \in Names : <<"out", x>> \in Paths /\ <<"out", ".">> \in Paths
            BY PathFacts
        <3> QED
            BY <1>1, <3>1, <3>2
    <2> QED
        BY <1>3, <1>4, <2>1, <2>2, <2>3, NoManifestFacts DEF DiskInv, There
<1>7. SickInv
    <2>1. \A d \in {"out", "id"}, f \in Data : <<d, f>> \in Paths
        BY NameFacts, PathFacts
    <2>2. \A d \in {"out", "id"}, f \in Data : disk[<<d, f>>].by \notin Captures
        BY <1>3, <2>1, NumberFacts
    <2> QED
        BY <1>4, <2>2 DEF SickInv, NothingUnchecked, DataOf
<1>8. KindInv /\ DirInv /\ MemoryInv /\ RecordInv /\ TrackInv /\ IdInv /\ HandlerInv
    BY <1>4 DEF KindInv, DirInv, MemoryInv, RecordInv, TrackInv, IdInv, HandlerInv, Running, At, Opening,
                Staging, Copying, Recording, ScratchInUse
<1>9. EndsAsItSays
    BY <1>4, NumberFacts DEF EndsAsItSays, EndedAsReported, SignalLeavesAllOrNothing, PrintIdKeepsNothing, Over
<1> QED
    BY <1>5, <1>6, <1>7, <1>8, <1>9 DEF Inv

(* What must be so when the process ends with a code. *)
Leaves(code) ==
    /\ code \in {"0", "1", "2", "3"} =>
        /\ \A p \in Under("scratch") : ~There(p)
        /\ t.kind = "capture" =>
              /\ code = "0" => Published(t.n) /\ doc.status = "complete"
              /\ code = "2" => Published(t.n) /\ doc.status = "partial"
              /\ Mine(t.n) # {} => doc.by = t.n
        /\ code \in {"1", "3"} =>
              /\ DataOf("out", t.n) = {}
              /\ doc.by = t.n => doc.status = "failed" /\ doc.files = {} /\ ~doc.id
    /\ code = "signal" =>
        /\ DirIsEmpty("scratch")
        /\ \/ Published(t.n)
           \/ DataOf("out", t.n) = {} /\ (doc.by = t.n => doc.files = {})
    /\ code # "killed" /\ t.kind = "print_id" =>
        /\ DirIsEmpty("id")
        /\ code # "signal" => ~There(<<"id", ".">>)

(* It is enough that it is so for the capture that ends. *)
LEMMA EndsInv ==
    ASSUME Inv, Running, NEW code \in {"0", "1", "2", "3", "signal", "killed"}, Ends(code),
           UNCHANGED <<disk, doc, sick>>, Leaves(code)
    PROVE  Inv'
<1>1. t.n \in Captures /\ t \in Memory
    BY DEF Inv, KindInv, TypeOK
<1>2. t' \in Memory /\ t'.n = t.n /\ t'.kind = t.kind /\ t'.pc = "idle" /\ t'.mark = 0
    <2>1. t' = [Fresh EXCEPT !.n = t.n, !.kind = t.kind]
        BY DEF Ends
    <2>2. Fresh \in Memory /\ Fresh.pc = "idle" /\ Fresh.mark = 0
        <3>1. <<>> \in Seq(Paths) /\ 0 \in 0..MaxCaptures
            BY NumberFacts
        <3> QED
            BY <3>1, NoManifestFacts DEF Fresh, Memory, MainPcs
    <2> HIDE DEF Fresh
    <2> QED
        BY <1>1, <2>1, <2>2 DEF Memory
<1>3. exit'[t.n] = code /\ exit' \in [Captures -> {"running", "0", "1", "2", "3", "signal", "killed"}]
    BY <1>1 DEF Ends, Inv, TypeOK
<1>4. TypeOK' /\ DiskInv'
    BY <1>2, <1>3 DEF Inv, TypeOK, DiskInv, There
<1>5. SickInv'
    <2>1. NothingUnchecked'
        BY <1>2, SickKept DEF Inv
    <2> QED
        BY <1>2, <2>1 DEF SickInv
<1>6. (KindInv /\ DirInv /\ MemoryInv /\ RecordInv /\ TrackInv /\ IdInv /\ HandlerInv)'
    BY <1>2 DEF KindInv, DirInv, MemoryInv, RecordInv, TrackInv, IdInv, HandlerInv, Running, At, Opening,
                Staging, Copying, Recording, ScratchInUse
<1>7. \A p : There(p)' <=> There(p)
    BY DEF There
<1>8. \A d : DirIsEmpty(d)' <=> DirIsEmpty(d)
    BY DEF DirIsEmpty, There
<1>9. /\ Published(t.n)' <=> Published(t.n)
      /\ Mine(t.n)' = Mine(t.n) /\ DataOf("out", t.n)' = DataOf("out", t.n)
    BY <1>2 DEF Published, Mine, DataOf
<1>10. EndsAsItSays'
    <2>1. ASSUME NEW k \in Captures, NEW codes, Over(k, codes)' PROVE k = t.n /\ code \in codes
        BY <2>1, <1>2, <1>3 DEF Over
    <2>2. EndedAsReported'
        <3> SUFFICES ASSUME NEW k \in Captures, Over(k, {"0", "1", "2", "3"})'
                     PROVE  (/\ \A p \in Under("scratch") : ~There(p)
                             /\ t.kind = "capture" =>
                                  /\ exit[k] = "0" => Published(k) /\ doc.status = "complete"
                                  /\ exit[k] = "2" => Published(k) /\ doc.status = "partial"
                                  /\ Mine(k) # {} => doc.by = k
                             /\ exit[k] \in {"1", "3"} =>
                                  /\ DataOf("out", k) = {}
                                  /\ doc.by = k => doc.status = "failed" /\ doc.files = {} /\ ~doc.id)'
            BY DEF EndedAsReported
        <3>1. k = t.n /\ code \in {"0", "1", "2", "3"}
            BY <2>1
        <3> QED
            BY <3>1, <1>2, <1>3, <1>7, <1>9 DEF Leaves
    <2>3. SignalLeavesAllOrNothing'
        <3> SUFFICES ASSUME NEW k \in Captures, Over(k, {"signal"})'
                     PROVE  (/\ DirIsEmpty("scratch")
                             /\ \/ Published(k)
                                \/ DataOf("out", k) = {} /\ (doc.by = k => doc.files = {}))'
            BY DEF SignalLeavesAllOrNothing
        <3>1. k = t.n /\ code = "signal"
            BY <2>1
        <3> QED
            BY <3>1, <1>2, <1>3, <1>8, <1>9 DEF Leaves
    <2>4. PrintIdKeepsNothing'
        <3> SUFFICES ASSUME NEW k \in Captures, Over(k, {"0", "1", "2", "3", "signal"})', t'.kind = "print_id"
                     PROVE  (/\ DirIsEmpty("id")
                             /\ exit[k] # "signal" => ~There(<<"id", ".">>))'
            BY DEF PrintIdKeepsNothing
        <3>1. k = t.n /\ code # "killed"
            BY <2>1
        <3> QED
            BY <3>1, <1>2, <1>3, <1>7, <1>8 DEF Leaves
    <2> QED
        BY <2>2, <2>3, <2>4 DEF EndsAsItSays
<1> QED
    BY <1>4, <1>5, <1>6, <1>10 DEF Inv


-----------------------------------------------------------------------------
(* main and --print-id.                                                     *)

(* A step that leaves the disk, the manifest and the verdicts alone. *)
LEMMA Quiet ==
    ASSUME Inv, UNCHANGED <<disk, doc, sick, exit>>, t' \in Memory, t'.n = t.n
    PROVE  TypeOK' /\ DiskInv' /\ NothingUnchecked' /\ (\A p : There(p)' <=> There(p))
<1>1. TypeOK' /\ DiskInv'
    BY DEF Inv, TypeOK, DiskInv, There
<1>2. NothingUnchecked'
    BY SickKept DEF Inv
<1>3. \A p : There(p)' <=> There(p)
    BY DEF There
<1> QED
    BY <1>1, <1>2, <1>3

(* A capture that has not begun to write may end at once. *)
LEMMA EarlyEnd ==
    ASSUME TypeOK, Untouched, \A x \in Names \cup {"."} : ~There(<<"scratch", x>>),
           t.kind = "print_id" => DirIsEmpty("id") /\ ~There(<<"id", ".">>)
    PROVE  Leaves("1")
<1>1. \A p \in Under("scratch") : ~There(p)
    BY DEF Under
<1>2. DataOf("out", t.n) = {} /\ Mine(t.n) = {}
    BY NameFacts DEF Untouched, DataOf, Mine
<1>3. doc.by # t.n
    BY DEF Untouched
<1> QED
    BY <1>1, <1>2, <1>3 DEF Leaves

(* A new capture: what is on the disk is older. *)
LEMMA StartInv == ASSUME Inv, Start PROVE Inv'
<1>1. PICK kind \in {"capture", "print_id"}, s \in {"none", "schema", "leak"} :
          /\ t' = [Fresh EXCEPT !.n = t.n + 1, !.kind = kind, !.pc = "discover"]
          /\ sick' = [sick EXCEPT ![t.n + 1] = s]
    BY DEF Start
<1>2. /\ TypeOK /\ DiskInv /\ t.pc = "idle" /\ t.n < MaxCaptures /\ UNCHANGED <<doc, exit>>
      /\ Unlink(Under("scratch") \cup Under("id"))
    BY DEF Start, Inv, At
<1>3. t.n \in 0..MaxCaptures /\ t.n \in Nat /\ MaxCaptures \in Nat
    BY <1>2, MemoryFacts, NumberFacts DEF TypeOK
<1>4. t.n + 1 \in Captures /\ t.n + 1 \in 0..MaxCaptures
    BY <1>2, <1>3 DEF Captures
<1>5. /\ t' \in Memory /\ t'.n = t.n + 1 /\ t'.kind = kind /\ t'.pc = "discover" /\ t'.m = NoManifest
      /\ t'.mark = 0 /\ t'.tracked = <<>> /\ t'.written = {} /\ t'.retry = FALSE
    <2>1. /\ Fresh \in Memory /\ Fresh.m = NoManifest /\ Fresh.mark = 0 /\ Fresh.tracked = <<>>
          /\ Fresh.written = {} /\ Fresh.retry = FALSE
        <3>1. <<>> \in Seq(Paths) /\ 0 \in 0..MaxCaptures
            BY NumberFacts
        <3> QED
            BY <3>1, NoManifestFacts DEF Fresh, Memory, MainPcs
    <2> HIDE DEF Fresh
    <2> QED
        BY <1>1, <1>4, <2>1 DEF Memory, MainPcs
<1>6. \A q \in Paths : disk'[q] = IF q \in Under("scratch") \cup Under("id") THEN Nothing ELSE disk[q]
    BY <1>2, UnlinkFacts DEF TypeOK
<1>7. \A x \in Names \cup {"."} :
          ~There(<<"scratch", x>>)' /\ ~There(<<"id", x>>)' /\ disk'[<<"out", x>>] = disk[<<"out", x>>]
    <2> SUFFICES ASSUME NEW x \in Names \cup {"."}
                 PROVE ~There(<<"scratch", x>>)' /\ ~There(<<"id", x>>)' /\ disk'[<<"out", x>>] = disk[<<"out", x>>]
        OBVIOUS
    <2>1. <<"scratch", x>> \in Under("scratch") /\ <<"id", x>> \in Under("id")
          /\ <<"out", x>> \notin Under("scratch") /\ <<"out", x>> \notin Under("id")
        BY DEF Under
    <2>2. <<"scratch", x>> \in Paths /\ <<"id", x>> \in Paths /\ <<"out", x>> \in Paths
        BY PathFacts
    <2> QED
        BY <1>6, <2>1, <2>2 DEF There
<1>8. TypeOK'
    <2>1. disk' \in [Paths -> Content]
        BY <1>2, UnlinkFacts DEF TypeOK
    <2> QED
        BY <1>1, <1>2, <1>4, <1>5, <2>1 DEF TypeOK
<1>9. DiskInv'
    <2>1. {<<"out", "manifest.json">>, <<"out", ".">>} \cap (Under("scratch") \cup Under("id")) = {}
        BY DEF Under
    <2>2. t'.n \in Nat /\ t.n <= t'.n
        BY <1>3, <1>5
    <2> QED
        BY <1>2, <2>1, <2>2, DiskUnlink
<1>10. Untouched'
    <2>1. \A x \in Names : disk[<<"out", x>>].by # t.n + 1
        <3>1. \A x \in Names : disk[<<"out", x>>].by \in (0..t.n) \cup {User}
            BY <1>2, PathFacts DEF DiskInv
        <3>2. \A k \in (0..t.n) \cup {User} : k # t.n + 1
            BY <1>3, <1>4, NumberFacts
        <3> QED
            BY <3>1, <3>2
    <2>2. doc.by # t.n + 1
        BY <1>2, <1>3 DEF DiskInv
    <2> QED
        BY <1>2, <1>5, <1>7, <2>1, <2>2 DEF Untouched
<1>11. SickInv'
    <2>1. ASSUME NEW d \in {"out", "id"}, NEW k \in Captures, NEW f \in Data, disk'[<<d, f>>].by = k
          PROVE  sick'[k] = "none"
        <3>1. f \in Names /\ Nothing.by = 0
            BY NameFacts, ContentFacts
        <3>2. d = "out"
            BY <2>1, <1>7, <3>1, NumberFacts DEF There
        <3>3. disk[<<"out", f>>].by = k /\ k # t.n + 1
            BY <2>1, <1>5, <1>7, <1>10, <3>1, <3>2 DEF Untouched
        <3>4. sick[k] = "none"
            BY <3>3 DEF Inv, SickInv, NothingUnchecked, DataOf
        <3> QED
            BY <1>1, <1>2, <3>3, <3>4 DEF TypeOK
    <2>2. NothingUnchecked'
        BY <2>1 DEF NothingUnchecked, DataOf
    <2> QED
        BY <1>5, <2>2 DEF SickInv
<1>12. KindInv' /\ DirInv' /\ MemoryInv' /\ RecordInv'
    BY <1>1, <1>4, <1>5, <1>10 DEF KindInv, DirInv, MemoryInv, RecordInv, Running, At, Opening, Staging, Copying, Recording
<1>13. TrackInv'
    BY <1>5, <1>7 DEF TrackInv, Running, At, ScratchInUse, Copying, Recording
<1>14. IdInv'
    BY <1>5, <1>7 DEF IdInv, At, DirIsEmpty
<1> QED
    BY <1>5, <1>8, <1>9, <1>11, <1>12, <1>13, <1>14, NotOver DEF Inv

(* The machine is read, or it is not. *)
LEMMA DiscoverInv == ASSUME Inv, Discover PROVE Inv'
<1>1. TypeOK /\ t \in Memory /\ t.pc = "discover" /\ Running /\ t.n \in Captures /\ UNCHANGED <<disk, doc, sick>>
    BY DEF Discover, Inv, TypeOK, At, Running, KindInv
<1>2. /\ Untouched /\ t.m = NoManifest /\ t.kind # "failed"
      /\ \A x \in Names \cup {"."} : ~There(<<"scratch", x>>)
      /\ t.kind = "print_id" => DirIsEmpty("id") /\ ~There(<<"id", ".">>)
    BY <1>1 DEF Inv, DirInv, MemoryInv, KindInv, TrackInv, IdInv, Opening, ScratchInUse, At
<1>3. CASE t.kind = "print_id" /\ Ends("1")
    BY <1>1, <1>2, <1>3, EarlyEnd, EndsInv
<1>4. ASSUME exit' = exit, NEW k, NEW p, t'.kind = k, t'.pc = p, t' \in Memory, t'.n = t.n, t'.mark = t.mark,
             SameList, SameFiles, SameVerdict,
             \/ t.kind = "print_id" /\ k = "print_id" /\ p = "mkid"
             \/ t.kind = "capture" /\ k \in {"capture", "failed"} /\ p = "prepare"
      PROVE  Inv'
    <2>1. TypeOK' /\ DiskInv' /\ NothingUnchecked' /\ \A q : There(q)' <=> There(q)
        BY <1>1, <1>4, Quiet
    <2>2. Untouched'
        BY <1>1, <1>2, <1>4 DEF Untouched
    <2>3. SickInv' /\ DirInv' /\ MemoryInv' /\ RecordInv'
        BY <1>1, <1>2, <1>4, <2>1, <2>2 DEF SickInv, DirInv, MemoryInv, RecordInv, Running, At, Opening, Staging,
           Copying, Recording, SameVerdict
    <2>4. KindInv'
        BY <1>1, <1>4 DEF Inv, KindInv, Running, At, SameList, SameVerdict, Opening, Staging, Copying
    <2>5. TrackInv' /\ IdInv'
        BY <1>1, <1>2, <1>4, <2>1 DEF TrackInv, IdInv, Running, At, ScratchInUse, Copying, Recording, DirIsEmpty
    <2> QED
        BY <1>4, <2>1, <2>3, <2>4, <2>5, NotOver DEF Inv
<1>5. CASE Goto(IF t.kind = "print_id" THEN "mkid" ELSE "prepare") /\ exit' = exit
    <2>1. /\ SameMemory /\ t' \in Memory /\ t'.pc = (IF t.kind = "print_id" THEN "mkid" ELSE "prepare")
        BY <1>1, <1>5 DEF Goto, Memory, MainPcs, SameMemory, SameRun, SameList, SameFiles, SameVerdict
    <2>2. t.kind \in {"capture", "print_id"}
        BY <1>1, <1>2, MemoryFacts
    <2> QED
        BY <1>4, <1>5, <2>1, <2>2 DEF SameMemory, SameRun
<1>6. CASE t.kind = "capture" /\ t' = [t EXCEPT !.kind = "failed", !.pc = "prepare"] /\ exit' = exit
    <2>1. /\ t' \in Memory /\ t'.n = t.n /\ t'.mark = t.mark /\ t'.kind = "failed" /\ t'.pc = "prepare"
          /\ SameList /\ SameFiles /\ SameVerdict
        BY <1>1, <1>6 DEF Memory, MainPcs, SameList, SameFiles, SameVerdict
    <2> QED
        BY <1>4, <1>6, <2>1
<1> QED
    BY <1>3, <1>5, <1>6 DEF Discover

(* The private directory. *)
LEMMA MakeIdDirInv == ASSUME Inv, MakeIdDir PROVE Inv'
<1>1. /\ TypeOK /\ DiskInv /\ t \in Memory /\ t.pc = "mkid" /\ Running /\ t.n \in Captures /\ t.kind = "print_id"
      /\ UNCHANGED <<doc, sick>>
    BY DEF MakeIdDir, Inv, TypeOK, At, Running, KindInv
<1>2. /\ Untouched /\ t.m = NoManifest
      /\ \A x \in Names \cup {"."} : ~There(<<"scratch", x>>)
      /\ DirIsEmpty("id") /\ ~There(<<"id", ".">>)
    BY <1>1 DEF Inv, DirInv, MemoryInv, TrackInv, IdInv, Opening, ScratchInUse, At
<1>3. CASE Ends("1") /\ disk' = disk
    BY <1>1, <1>2, <1>3, EarlyEnd, EndsInv
<1>4. CASE Put(<<"id", ".">>, TRUE) /\ Goto("trackid") /\ exit' = exit
    <2>1. SameMemory /\ t' \in Memory /\ t'.pc = "trackid"
        BY <1>1, <1>4 DEF Goto, Memory, MainPcs, SameMemory, SameRun, SameList, SameFiles, SameVerdict
    <2>2. <<"id", ".">> \in Paths /\ "id" \in Dirs
        BY PathFacts
    <2>3. /\ disk' \in [Paths -> Content]
          /\ \A q \in Paths : q # <<"id", ".">> => disk'[q] = disk[q]
          /\ disk'[<<"id", ".">>] # Nothing
        BY <1>1, <1>4, <2>2, PutFacts DEF TypeOK
    <2>4. /\ \A d \in Dirs, x \in Names : disk'[<<d, x>>] = disk[<<d, x>>]
          /\ disk'[<<"scratch", ".">>] = disk[<<"scratch", ".">>]
        BY <2>3, PathFacts, NameFacts
    <2>5. TypeOK' /\ DiskInv'
        BY <1>1, <1>4, <2>1, <2>2, <2>3, DiskPut DEF TypeOK, SameMemory, SameRun
    <2>6. NothingUnchecked'
        BY <1>1, <2>1, <2>4, SickKept, NameFacts, PathFacts DEF Inv, SameMemory, SameRun
    <2>7. Untouched'
        BY <1>1, <1>2, <2>1, <2>4, PathFacts DEF Untouched, SameMemory, SameRun
    <2>8. SickInv' /\ DirInv' /\ MemoryInv' /\ RecordInv'
        BY <1>1, <1>2, <2>1, <2>6, <2>7 DEF SickInv, DirInv, MemoryInv, RecordInv, Running, At, Opening, Staging,
           Copying, Recording, SameMemory, SameVerdict
    <2>9. KindInv'
        BY <1>1, <2>1 DEF Inv, KindInv, Running, At, SameMemory, SameRun, SameList, SameVerdict, Opening, Staging,
           Copying
    <2>10. TrackInv' /\ IdInv'
        BY <1>1, <1>2, <2>1, <2>3, <2>4, PathFacts DEF TrackInv, IdInv, Running, At, ScratchInUse, Copying,
           Recording, DirIsEmpty, There, SameMemory, SameRun
    <2> QED
        BY <2>1, <2>5, <2>8, <2>9, <2>10, NotOver DEF Inv
<1> QED
    BY <1>3, <1>4 DEF MakeIdDir

(* Its names. *)
LEMMA TrackIdInv == ASSUME Inv, TrackId PROVE Inv'
<1>1. /\ TypeOK /\ t \in Memory /\ t.pc = "trackid" /\ Running /\ t.n \in Captures /\ t.kind = "print_id"
      /\ UNCHANGED <<disk, doc, sick, exit>>
      /\ t' = [t EXCEPT !.tracked = IdNames, !.mark = Len(IdNames), !.pc = "prepare"]
    BY DEF TrackId, Inv, TypeOK, At, Running, KindInv
<1>2. /\ t' \in Memory /\ t'.n = t.n /\ t'.kind = t.kind /\ t'.pc = "prepare" /\ t'.tracked = IdNames
      /\ t'.mark = Len(IdNames) /\ t'.written = t.written /\ SameVerdict
    BY <1>1, IdFacts DEF Memory, MainPcs, SameVerdict
<1>3. /\ Untouched /\ t.m = NoManifest
      /\ \A x \in Names \cup {"."} : ~There(<<"scratch", x>>)
      /\ DirIsEmpty("id") /\ There(<<"id", ".">>)
    BY <1>1 DEF Inv, DirInv, MemoryInv, TrackInv, IdInv, Opening, ScratchInUse, At
<1>4. TypeOK' /\ DiskInv' /\ NothingUnchecked' /\ \A q : There(q)' <=> There(q)
    BY <1>1, <1>2, Quiet
<1>5. Untouched'
    BY <1>1, <1>2, <1>3 DEF Untouched
<1>6. SickInv' /\ DirInv' /\ MemoryInv' /\ RecordInv'
    BY <1>1, <1>2, <1>3, <1>4, <1>5 DEF SickInv, DirInv, MemoryInv, RecordInv, Running, At, Opening, Staging,
       Copying, Recording, SameVerdict
<1>7. KindInv'
    BY <1>1, <1>2, IdFacts DEF Inv, KindInv, Running, At, SameVerdict, Opening, Staging, Copying
<1>8. TrackInv' /\ IdInv'
    BY <1>1, <1>2, <1>3, <1>4 DEF TrackInv, IdInv, Running, At, ScratchInUse, Copying, Recording, DirIsEmpty
<1> QED
    BY <1>2, <1>4, <1>6, <1>7, <1>8, NotOver DEF Inv

(* And its removal. *)
LEMMA RemoveTreeInv == ASSUME Inv, RemoveTree PROVE Inv'
<1>1. /\ TypeOK /\ DiskInv /\ t \in Memory /\ t.pc = "rmtree" /\ Running /\ t.n \in Captures
      /\ t.kind = "print_id" /\ Unlink(Under("id")) /\ UNCHANGED <<doc, sick, exit>>
    BY DEF RemoveTree, Inv, TypeOK, At, Running, KindInv
<1>2. SameMemory /\ t' \in Memory /\ t'.pc = "exit"
    BY <1>1 DEF RemoveTree, Goto, Memory, MainPcs, SameMemory, SameRun, SameList, SameFiles, SameVerdict
<1>3. Untouched /\ \A x \in Names \cup {"."} : ~There(<<"scratch", x>>)
    BY <1>1 DEF Inv, DirInv, TrackInv, ScratchInUse, At
<1>4. disk' \in [Paths -> Content] /\ \A q \in Paths : disk'[q] = IF q \in Under("id") THEN Nothing ELSE disk[q]
    BY <1>1, UnlinkFacts DEF TypeOK
<1>5. \A x \in Names \cup {"."} :
          /\ disk'[<<"id", x>>] = Nothing /\ disk'[<<"out", x>>] = disk[<<"out", x>>]
          /\ disk'[<<"scratch", x>>] = disk[<<"scratch", x>>]
    BY <1>4, PathFacts DEF Under
<1>6. TypeOK' /\ DiskInv'
    <2>1. {<<"out", "manifest.json">>, <<"out", ".">>} \cap Under("id") = {}
        BY DEF Under
    <2>2. t'.n \in Nat /\ t.n <= t'.n
        BY <1>1, <1>2, NumberFacts DEF SameMemory, SameRun
    <2> QED
        BY <1>1, <1>2, <1>4, <2>1, <2>2, DiskUnlink DEF TypeOK
<1>7. SickInv'
    <2>1. Nothing.by = 0 /\ Data \subseteq Names
        BY ContentFacts, NameFacts
    <2>2. NothingUnchecked'
        BY <1>1, <1>2, <1>5, <2>1, SickKept DEF Inv, SameMemory, SameRun
    <2> QED
        BY <1>2, <2>2 DEF SickInv
<1>8. Untouched'
    BY <1>1, <1>2, <1>3, <1>5 DEF Untouched, SameMemory, SameRun
<1>9. DirInv' /\ MemoryInv' /\ RecordInv'
    BY <1>1, <1>2, <1>8 DEF DirInv, MemoryInv, RecordInv, At, Opening, Staging, Copying, Recording, SameMemory, SameRun
<1>10. KindInv'
    BY <1>1, <1>2 DEF Inv, KindInv, Running, At, SameMemory, SameRun, SameList, Opening, Staging, Copying
<1>11. TrackInv' /\ IdInv'
    BY <1>1, <1>2, <1>3, <1>5 DEF TrackInv, IdInv, At, ScratchInUse, Copying, Recording, DirIsEmpty, There
<1> QED
    BY <1>2, <1>6, <1>7, <1>9, <1>10, <1>11, NotOver DEF Inv


-----------------------------------------------------------------------------
(* prepare_out.                                                             *)

(* --out is ready: there, and without data files or a manifest. *)
LEMMA PreparedInv ==
    ASSUME Inv, t.pc \in {"prepare", "clear"}, SameMemory, t' \in Memory, t'.pc = Prepared,
           UNCHANGED <<sick, exit>>, TypeOK', DiskInv', NothingUnchecked', Untouched',
           Dir = "out" => doc' = NoManifest, There(<<Dir, ".">>)', \A f \in Data : ~There(<<Dir, f>>)',
           \A x \in Names \cup {"."} : disk'[<<"scratch", x>>] = disk[<<"scratch", x>>]
    PROVE  Inv'
<1>1. /\ Running /\ t.n \in Captures /\ t'.n = t.n /\ t'.kind = t.kind /\ Dir' = Dir /\ t.written = {}
      /\ t'.written = {} /\ t'.m = NoManifest /\ t'.retry = FALSE /\ t'.tracked = t.tracked /\ t'.mark = t.mark
    BY MemoryFacts DEF Inv, KindInv, MemoryInv, Running, At, Opening, SameMemory, SameRun, SameList, SameVerdict, Dir
<1>2. t'.pc = (IF t.kind = "failed" THEN "diagnostics" ELSE "mkscratch")
    BY DEF Prepared
<1>3. SickInv'
    BY <1>2 DEF SickInv
<1>4. KindInv'
    BY <1>1, <1>2 DEF Inv, KindInv, Running, At, Opening, Staging, Copying
<1>5. There(<<Dir, ".">>)' /\ \A f \in Data : ~There(<<Dir, f>>)'
    OBVIOUS
<1>6. DirInv'
    <2>1. (There(<<Dir, ".">>) /\ \A f \in Data : ~There(<<Dir, f>>))'
        BY <1>1, <1>5
    <2> QED
        BY <1>1, <1>2, <2>1 DEF DirInv, Running, At, Opening, Staging, Copying, Recording
<1>7. MemoryInv'
    BY <1>1, <1>2 DEF MemoryInv, At, Opening
<1>8. RecordInv'
    <2>1. t.kind = "failed" => Settled(Dir)'
        BY <1>1, <1>5, NoManifestFacts DEF Settled, DataGone
    <2> QED
        BY <1>1, <1>2, <2>1 DEF RecordInv, At, Recording
<1>9. TrackInv'
    <2>1. \A x \in Names \cup {"."} : ~There(<<"scratch", x>>)
        BY <1>1 DEF Inv, TrackInv, ScratchInUse, At
    <2> QED
        BY <1>1, <1>2, <2>1 DEF TrackInv, At, ScratchInUse, Copying, Recording, There
<1>10. IdInv'
    BY <1>2 DEF IdInv, At
<1> QED
    BY <1>2, <1>3, <1>4, <1>6, <1>7, <1>8, <1>9, <1>10, NotOver DEF Inv

(* prepare_out: an empty directory is used, a capture's is cleared, any other is refused. *)
LEMMA PrepareInv == ASSUME Inv, Prepare PROVE Inv'
<1>1. /\ TypeOK /\ DiskInv /\ t \in Memory /\ t.pc = "prepare" /\ Running /\ t.n \in Captures
      /\ UNCHANGED <<doc, sick>>
    BY DEF Prepare, Inv, TypeOK, At, Running, KindInv
<1>2. /\ Untouched /\ t.m = NoManifest
      /\ \A x \in Names \cup {"."} : ~There(<<"scratch", x>>)
      /\ t.kind = "print_id" => DirIsEmpty("id") /\ There(<<"id", ".">>)
    BY <1>1 DEF Inv, DirInv, MemoryInv, TrackInv, IdInv, Opening, ScratchInUse, At
<1>3. ASSUME NEW p \in {"clear", Prepared}, Goto(p)
      PROVE  SameMemory /\ t' \in Memory /\ t'.pc = p /\ t'.i = 1
    BY <1>1, <1>3 DEF Goto, Memory, MainPcs, Prepared, SameMemory, SameRun, SameList, SameFiles, SameVerdict
<1>4. ASSUME DirIsEmpty(Dir) PROVE (\A f \in Data : ~There(<<Dir, f>>)) /\ (Dir = "out" => doc = NoManifest)
    BY <1>1, <1>4, NameFacts DEF DirIsEmpty, DiskInv
<1>5. CASE ~There(<<Dir, ".">>) /\ Ends("1") /\ disk' = disk
    <2>1. t.kind # "print_id"
        BY <1>2, <1>5 DEF Dir
    <2> QED
        BY <1>1, <1>2, <1>5, <2>1, EarlyEnd, EndsInv
<1>6. CASE ~DirIsEmpty(Dir) /\ Ends("1") /\ disk' = disk
    <2>1. t.kind # "print_id"
        BY <1>2, <1>6 DEF Dir
    <2> QED
        BY <1>1, <1>2, <1>6, <2>1, EarlyEnd, EndsInv
<1>7. CASE There(<<Dir, ".">>) /\ DirIsEmpty(Dir) /\ Goto(Prepared) /\ UNCHANGED <<disk, exit>>
    <2>1. SameMemory /\ t' \in Memory /\ t'.pc = Prepared
        BY <1>3, <1>7
    <2>2. TypeOK' /\ DiskInv' /\ NothingUnchecked' /\ \A q : There(q)' <=> There(q)
        BY <1>1, <1>7, <2>1, Quiet DEF SameMemory, SameRun
    <2>3. Untouched'
        BY <1>1, <1>2, <1>7, <2>1 DEF Untouched, SameMemory, SameRun
    <2>4. There(<<Dir, ".">>)' /\ \A f \in Data : ~There(<<Dir, f>>)'
        <3>1. Dir' = Dir
            BY <2>1 DEF Dir, SameMemory, SameRun
        <3> QED
            BY <1>4, <1>7, <2>2, <3>1
    <2> QED
        BY <1>1, <1>4, <1>7, <2>1, <2>2, <2>3, <2>4, PreparedInv
<1>8. CASE ~There(<<Dir, ".">>) /\ Put(<<Dir, ".">>, TRUE) /\ Goto(Prepared) /\ exit' = exit
    <2>1. SameMemory /\ t' \in Memory /\ t'.pc = Prepared /\ Dir = "out" /\ Dir' = "out"
        BY <1>2, <1>3, <1>8 DEF Dir, SameMemory, SameRun
    <2>2. <<"out", ".">> \in Paths /\ "out" \in Dirs
        BY PathFacts
    <2>3. /\ disk' \in [Paths -> Content] /\ disk'[<<"out", ".">>] # Nothing
          /\ \A q \in Paths : q # <<"out", ".">> => disk'[q] = disk[q]
        BY <1>1, <1>8, <2>1, <2>2, PutFacts DEF TypeOK
    <2>4. /\ \A d \in Dirs, x \in Names : disk'[<<d, x>>] = disk[<<d, x>>]
          /\ disk'[<<"scratch", ".">>] = disk[<<"scratch", ".">>]
        BY <2>3, PathFacts, NameFacts
    <2>5. TypeOK' /\ DiskInv'
        BY <1>1, <1>8, <2>1, <2>2, <2>3, DiskPut DEF TypeOK, SameMemory, SameRun
    <2>6. NothingUnchecked'
        BY <1>1, <2>1, <2>4, SickKept, NameFacts, PathFacts DEF Inv, SameMemory, SameRun
    <2>7. Untouched'
        BY <1>1, <1>2, <2>1, <2>4, PathFacts DEF Untouched, SameMemory, SameRun
    <2>8. (\A x \in Names : ~There(<<"out", x>>)) /\ doc = NoManifest
        BY <1>1, <1>8, <2>1, NameFacts DEF DiskInv
    <2>9. There(<<Dir, ".">>)' /\ \A f \in Data : ~There(<<Dir, f>>)'
        BY <2>1, <2>3, <2>4, <2>8, NameFacts, PathFacts DEF There
    <2>10. \A x \in Names \cup {"."} : disk'[<<"scratch", x>>] = disk[<<"scratch", x>>]
        BY <2>4, PathFacts
    <2> QED
        BY <1>1, <1>8, <2>1, <2>5, <2>6, <2>7, <2>8, <2>9, <2>10, PreparedInv
<1>9. CASE ~DirIsEmpty(Dir) /\ HasManifest /\ Goto("clear") /\ UNCHANGED <<disk, exit>>
    <2>1. SameMemory /\ t' \in Memory /\ t'.pc = "clear" /\ t'.i = 1 /\ t.kind # "print_id"
        BY <1>2, <1>3, <1>9 DEF Dir
    <2>2. TypeOK' /\ DiskInv' /\ NothingUnchecked' /\ \A q : There(q)' <=> There(q)
        BY <1>1, <1>9, <2>1, Quiet DEF SameMemory, SameRun
    <2>3. Untouched'
        BY <1>1, <1>2, <1>9, <2>1 DEF Untouched, SameMemory, SameRun
    <2>4. SickInv' /\ MemoryInv' /\ RecordInv'
        BY <1>1, <1>2, <2>1, <2>2 DEF SickInv, MemoryInv, RecordInv, At, Opening, Recording, SameMemory, SameVerdict
    <2>5. KindInv'
        BY <1>1, <2>1 DEF Inv, KindInv, Running, At, SameMemory, SameRun, SameList, SameVerdict, Opening, Staging,
           Copying
    <2>6. DirInv'
        <3>1. 1 \in 1..Len(ClearOrder) /\ 1..(1 - 1) = {}
            BY ClearFacts
        <3>2. There(<<Dir, ".">>)'
            <4>1. Dir = "out" /\ Dir' = "out"
                BY <2>1 DEF Dir, SameMemory, SameRun
            <4>2. There(<<"out", ".">>)
                BY <1>1, <1>9, <4>1 DEF DirIsEmpty, DiskInv
            <4> QED
                BY <2>2, <4>1, <4>2
        <3> QED
            BY <2>1, <2>3, <3>1, <3>2 DEF DirInv, Staging, Copying, Recording
    <2>7. TrackInv' /\ IdInv'
        BY <1>1, <1>2, <2>1, <2>2 DEF TrackInv, IdInv, At, ScratchInUse, Copying, Recording, SameMemory, SameRun
    <2> QED
        BY <2>1, <2>2, <2>4, <2>5, <2>6, <2>7, NotOver DEF Inv
<1> QED
    BY <1>5, <1>6, <1>7, <1>8, <1>9 DEF Prepare

(* prepare_out removes one name of the old capture at a time; after the last none is left. *)
LEMMA ClearInv == ASSUME Inv, Clear PROVE Inv'
<1> DEFINE x == ClearOrder[t.i]
<1>1. /\ TypeOK /\ DiskInv /\ t \in Memory /\ t.pc = "clear" /\ Running /\ t.n \in Captures
      /\ UNCHANGED <<sick, exit>> /\ t.kind # "print_id" /\ Dir = "out"
    BY DEF Clear, Inv, TypeOK, At, Running, KindInv, Dir
<1>2. /\ Unlink({<<"out", x>>}) /\ doc' = (IF x = "manifest.json" THEN NoManifest ELSE doc)
      /\ IF t.i < Len(ClearOrder) THEN t' = [t EXCEPT !.i = @ + 1] ELSE Goto(Prepared)
    BY <1>1 DEF Clear
<1>3. /\ Untouched /\ t.m = NoManifest /\ t.i \in 1..Len(ClearOrder)
      /\ \A y \in Names \cup {"."} : ~There(<<"scratch", y>>)
      /\ There(<<"out", ".">>) /\ \A j \in 1..(t.i - 1) : ~There(<<"out", ClearOrder[j]>>)
    BY <1>1 DEF Inv, DirInv, MemoryInv, TrackInv, Opening, ScratchInUse, At
<1>4. x \in Names /\ x # "other" /\ x # "."
    BY <1>3, ClearFacts, NameFacts
<1> HIDE DEF x
<1>5. /\ SameMemory /\ t' \in Memory /\ (t'.pc = IF t.i < Len(ClearOrder) THEN "clear" ELSE Prepared)
      /\ t.i < Len(ClearOrder) => t'.i = t.i + 1
    <2>1. t.i \in Nat /\ t.i + 1 \in Nat
        BY <1>1, MemoryFacts
    <2> QED
        <3>1. CASE t.i < Len(ClearOrder)
            <4>1. t' = [t EXCEPT !.i = t.i + 1]
                BY <1>2, <3>1
            <4> QED
                BY <1>1, <2>1, <3>1, <4>1 DEF Memory, SameMemory, SameRun, SameList, SameFiles, SameVerdict
        <3>2. CASE ~(t.i < Len(ClearOrder))
            <4>1. t' = [t EXCEPT !.pc = Prepared, !.i = 1] /\ Prepared \in MainPcs
                BY <1>2, <3>2 DEF Goto, Prepared, MainPcs
            <4> QED
                BY <1>1, <3>2, <4>1 DEF Memory, SameMemory, SameRun, SameList, SameFiles, SameVerdict
        <3> QED
            BY <3>1, <3>2
<1>6. /\ disk' \in [Paths -> Content] /\ disk'[<<"out", x>>] = Nothing
      /\ \A q \in Paths : q # <<"out", x>> => disk'[q] = disk[q]
    <2>1. <<"out", x>> \in Paths
        BY <1>4, PathFacts
    <2> QED
        BY <1>1, <1>2, <2>1, UnlinkFacts DEF TypeOK
<1>7. /\ \A y \in Names \cup {"."} : y # x => disk'[<<"out", y>>] = disk[<<"out", y>>]
      /\ \A y \in Names \cup {"."} : /\ disk'[<<"scratch", y>>] = disk[<<"scratch", y>>]
                                     /\ disk'[<<"id", y>>] = disk[<<"id", y>>]
    BY <1>6, PathFacts
<1>8. TypeOK'
    BY <1>1, <1>2, <1>5, <1>6 DEF TypeOK
<1>9. DiskInv'
    <2>1. <<"out", ".">> \notin {<<"out", x>>} /\ (<<"out", "manifest.json">> \in {<<"out", x>>} <=> x = "manifest.json")
        BY <1>4
    <2>2. t'.n \in Nat /\ t.n <= t'.n
        BY <1>1, <1>5, NumberFacts DEF SameMemory, SameRun
    <2> QED
        BY <1>1, <1>2, <2>1, <2>2, DiskUnlink
<1>10. NothingUnchecked'
    <2>1. Nothing.by = 0 /\ Data \subseteq Names
        BY ContentFacts, NameFacts
    <2>2. \A d \in {"out", "id"}, f \in Data : disk'[<<d, f>>].by \in {0, disk[<<d, f>>].by}
        BY <1>6, <1>7, <2>1
    <2> QED
        BY <1>1, <1>5, <2>2, SickKept DEF Inv, SameMemory, SameRun
<1>11. Untouched'
    <2>1. Nothing.by = 0 /\ t.n # 0
        BY <1>1, ContentFacts, NumberFacts
    <2> QED
        BY <1>2, <1>3, <1>5, <1>6, <1>7, <2>1, NoManifestFacts DEF Untouched, SameMemory, SameRun
<1>12. \A j \in 1..t.i : ~There(<<"out", ClearOrder[j]>>)'
    <2> SUFFICES ASSUME NEW j \in 1..t.i PROVE ~There(<<"out", ClearOrder[j]>>)'
        OBVIOUS
    <2>1. j \in 1..Len(ClearOrder) /\ (j = t.i \/ j \in 1..(t.i - 1))
        BY <1>3, ClearFacts
    <2>2. ClearOrder[j] \in Names
        BY <2>1, ClearFacts
    <2>3. CASE ClearOrder[j] = x
        BY <1>6, <2>3 DEF There
    <2>4. CASE ClearOrder[j] # x
        <3>1. j \in 1..(t.i - 1)
            BY <2>1, <2>4 DEF x
        <3> QED
            BY <1>3, <1>7, <2>2, <2>4, <3>1 DEF There
    <2> QED
        BY <2>3, <2>4
<1>13. CASE t.i < Len(ClearOrder)
    <2>1. t'.pc = "clear" /\ t'.i = t.i + 1 /\ t'.kind = t.kind /\ Dir' = "out" /\ t'.n = t.n
        BY <1>1, <1>5, <1>13 DEF Dir, SameMemory, SameRun
    <2>2. SickInv' /\ MemoryInv' /\ RecordInv'
        BY <1>3, <1>5, <1>10, <2>1 DEF SickInv, MemoryInv, RecordInv, At, Opening, Recording, SameMemory, SameVerdict
    <2>3. KindInv'
        BY <1>1, <1>5, <2>1 DEF Inv, KindInv, Running, At, SameMemory, SameRun, SameList, SameVerdict, Opening,
           Staging, Copying
    <2>4. t'.i \in 1..Len(ClearOrder) /\ t'.i - 1 = t.i
        BY <1>3, <1>13, <2>1, ClearFacts
    <2>5. DirInv'
        <3>1. (\A j \in 1..(t.i - 1) : ~There(<<Dir, ClearOrder[j]>>))'
            BY <1>12, <2>1, <2>4
        <3>2. There(<<Dir, ".">>)'
            BY <1>3, <1>4, <1>7, <2>1 DEF There
        <3> QED
            BY <1>11, <2>1, <2>4, <3>1, <3>2 DEF DirInv, Staging, Copying, Recording
    <2>6. TrackInv' /\ IdInv'
        BY <1>1, <1>3, <1>7, <2>1 DEF TrackInv, IdInv, At, ScratchInUse, Copying, Recording, There
    <2> QED
        BY <1>8, <1>9, <2>1, <2>2, <2>3, <2>5, <2>6, NotOver DEF Inv
<1>14. CASE ~(t.i < Len(ClearOrder))
    <2>1. t'.pc = Prepared /\ Dir' = "out" /\ t.i = Len(ClearOrder)
        BY <1>1, <1>3, <1>5, <1>14, ClearFacts DEF Dir, SameMemory, SameRun
    <2>2. \A f \in Data \cup {"manifest.json"} : ~There(<<"out", f>>)'
        BY <1>12, <2>1, ClearFacts
    <2>3. doc' = NoManifest
        BY <1>9, <2>2 DEF DiskInv
    <2>4. There(<<"out", ".">>)'
        BY <1>3, <1>4, <1>7 DEF There
    <2>5. There(<<Dir, ".">>)' /\ \A f \in Data : ~There(<<Dir, f>>)'
        BY <2>1, <2>2, <2>4
    <2> QED
        BY <1>1, <1>5, <1>7, <1>8, <1>9, <1>10, <1>11, <2>1, <2>3, <2>5, PreparedInv
<1> QED
    BY <1>13, <1>14


-----------------------------------------------------------------------------
(* stage_and_check.                                                         *)

(* Which verdicts are failures. *)
LEMMA FailedFacts ==
    /\ \A why : Failed(why) <=> "leak_or_schema" \in why \/ "other" \in why
    /\ \A why : exit_for(why) \in {"0", "1", "2", "3"}
    /\ \A why : ~Failed(why) => exit_for(why) = IF "partial" \in why THEN "2" ELSE "0"
<1> SUFFICES ASSUME NEW why
             PROVE  /\ Failed(why) <=> "leak_or_schema" \in why \/ "other" \in why
                    /\ exit_for(why) \in {"0", "1", "2", "3"}
                    /\ ~Failed(why) => exit_for(why) = IF "partial" \in why THEN "2" ELSE "0"
    OBVIOUS
<1>1. CASE "leak_or_schema" \in why
    BY <1>1 DEF Failed, exit_for
<1>2. CASE "leak_or_schema" \notin why /\ "other" \in why
    BY <1>2 DEF Failed, exit_for
<1>3. CASE "leak_or_schema" \notin why /\ "other" \notin why
    <2>1. why \cap {"leak_or_schema", "other"} = {}
        BY <1>3
    <2> QED
        BY <1>3, <2>1 DEF Failed, exit_for
<1> QED
    BY <1>1, <1>2, <1>3

(* --print-id's names stay first on the list. *)
LEMMA KindKept ==
    ASSUME Inv, Running, t.pc \notin {"discover", "mkid", "trackid", "handler"}, t'.pc \in MainPcs \ {"idle"}, SameRun,
           t'.tracked = t.tracked \/ \E p \in Paths : t'.tracked = Append(t.tracked, p)
    PROVE  t'.kind = "print_id" =>
              /\ t'.mark = Len(IdNames) /\ t'.mark <= Len(t'.tracked)
              /\ \A j \in 1..t'.mark : t'.tracked[j] = IdNames[j]
<1>1. t.kind = "print_id" =>
              /\ t.mark = Len(IdNames) /\ t.mark <= Len(t.tracked)
              /\ \A j \in 1..t.mark : t.tracked[j] = IdNames[j]
    BY DEF Inv, KindInv
<1>2. t.tracked \in Seq(Paths) /\ Len(t.tracked) \in Nat /\ Len(IdNames) \in Nat
    BY MemoryFacts, ListFacts, IdFacts DEF Inv, TypeOK
<1>3. ASSUME NEW p \in Paths, t'.tracked = Append(t.tracked, p)
      PROVE  Len(t'.tracked) = Len(t.tracked) + 1 /\ \A j \in 1..Len(t.tracked) : t'.tracked[j] = t.tracked[j]
    BY <1>2, <1>3, ListFacts
<1>4. \A j \in 1..Len(IdNames) : Len(IdNames) <= Len(t.tracked) => j \in 1..Len(t.tracked)
    BY <1>2
<1> QED
    BY <1>1, <1>2, <1>3, <1>4 DEF SameRun

(* A step that only writes to the scratch directory, on the way to the copy or away from it. *)
LEMMA ScratchStep ==
    ASSUME Inv, t.pc \in {"trackscratch", "read", "stage", "validate", "search", "replay"},
           t' \in Memory, t'.pc \in {"read", "stage", "validate", "search", "replay", "publish", "unwind"},
           SameRun, t'.written = t.written, t'.retry = t.retry, UNCHANGED <<doc, sick, exit>>,
           \A d \in {"out", "id"}, x \in Names \cup {"."} : disk'[<<d, x>>] = disk[<<d, x>>],
           \A x \in Names : There(<<"scratch", x>>)' => There(<<"scratch", x>>) \/ WillGo(<<"scratch", x>>)',
           t'.tracked = t.tracked \/ \E p \in Paths : t'.tracked = Append(t.tracked, p),
           TypeOK', DiskInv', MemoryInv',
           t'.pc = "search" => sick[t.n] # "schema",
           t'.pc \in {"replay", "publish"} => sick[t.n] = "none"
    PROVE  Inv'
<1>1. /\ Running /\ t.n \in Captures /\ t'.n = t.n /\ t'.kind = t.kind /\ Dir' = Dir /\ Dir \in {"out", "id"}
      /\ t.written = {} /\ t'.written = {} /\ t'.retry = FALSE /\ t'.mark = t.mark /\ t \in Memory
    BY MemoryFacts, DirFacts DEF Inv, TypeOK, KindInv, Running, At, Opening, Staging, Copying, SameRun, Dir
<1>2. SickInv'
    <2>1. \A d \in {"out", "id"}, f \in Data : disk'[<<d, f>>].by \in {0, disk[<<d, f>>].by}
        BY NameFacts
    <2>2. NothingUnchecked'
        BY <1>1, <2>1, SickKept DEF Inv
    <2> QED
        BY <1>1, <2>2 DEF SickInv
<1>3. KindInv'
    <2>1. t.kind # "failed"
        BY <1>1 DEF Inv, KindInv
    <2>2. t'.kind = "print_id" =>
              /\ t'.mark = Len(IdNames) /\ t'.mark <= Len(t'.tracked)
              /\ \A j \in 1..t'.mark : t'.tracked[j] = IdNames[j]
        BY <1>1, KindKept DEF MainPcs
    <2>3. t.kind # "print_id" => t.mark = 0
        BY DEF Inv, KindInv
    <2> QED
        BY <1>1, <2>1, <2>2, <2>3 DEF KindInv, Running, At, Opening, Staging, Copying
<1>4. DirInv'
    <2>1. /\ t.kind = "print_id" => Untouched
          /\ Dir = "out" => doc = NoManifest
          /\ There(<<Dir, ".">>) /\ \A f \in Data : ~There(<<Dir, f>>)
        BY <1>1 DEF Inv, DirInv, Staging
    <2>2. t.kind = "print_id" => Untouched'
        BY <1>1, <2>1 DEF Untouched
    <2>3. There(<<Dir, ".">>)' /\ \A f \in Data : ~There(<<Dir, f>>)'
        BY <1>1, <2>1, NameFacts DEF There
    <2> QED
        BY <1>1, <2>1, <2>2, <2>3 DEF DirInv, Running, At, Opening, Staging, Copying, Recording
<1>5. RecordInv'
    BY DEF RecordInv, At, Recording
<1>6. TrackInv'
    <2>1. ASSUME NEW x \in Names, There(<<"scratch", x>>) PROVE WillGo(<<"scratch", x>>)
        <3>1. x # "."
            BY NameFacts
        <3> QED
            BY <1>1, <2>1, <3>1 DEF Inv, TrackInv, ScratchInUse, At
    <2>2. \A q : WillGo(q) => WillGo(q)'
        BY <1>1, ListGrows, ListKept
    <2>3. \A x \in Names : There(<<"scratch", x>>)' => WillGo(<<"scratch", x>>)'
        BY <2>1, <2>2
    <2> QED
        BY <1>1, <2>3 DEF TrackInv, At, ScratchInUse, Recording
<1>7. IdInv'
    BY DEF IdInv, At
<1> QED
    BY <1>2, <1>3, <1>4, <1>5, <1>6, <1>7, NotOver DEF Inv

(* The scratch directory is made, or the capture fails before it has staged a file. *)
LEMMA MakeScratchInv == ASSUME Inv, MakeScratch PROVE Inv'
<1>1. /\ TypeOK /\ DiskInv /\ t \in Memory /\ t.pc = "mkscratch" /\ Running /\ t.n \in Captures
      /\ UNCHANGED <<doc, sick, exit>>
    BY DEF MakeScratch, Inv, TypeOK, At, Running, KindInv
<1>2. /\ t.kind = "print_id" => Untouched
      /\ Dir = "out" => doc = NoManifest
      /\ There(<<Dir, ".">>) /\ (\A f \in Data : ~There(<<Dir, f>>)) /\ Dir \in {"out", "id"}
      /\ t.m = NoManifest /\ t.written = {} /\ ~t.retry /\ t.kind # "failed"
      /\ \A x \in Names \cup {"."} : ~There(<<"scratch", x>>)
    BY <1>1, DirFacts DEF Inv, DirInv, MemoryInv, TrackInv, KindInv, Running, At, Staging, Opening, ScratchInUse
<1>3. CASE Put(<<"scratch", ".">>, TRUE) /\ Goto("trackscratch")
    <2>1. SameMemory /\ t' \in Memory /\ t'.pc = "trackscratch" /\ Dir' = Dir
        BY <1>1, <1>3 DEF Goto, Memory, MainPcs, SameMemory, SameRun, SameList, SameFiles, SameVerdict, Dir
    <2>2. <<"scratch", ".">> \in Paths /\ "scratch" \in Dirs
        BY PathFacts
    <2>3. /\ disk' \in [Paths -> Content]
          /\ \A q \in Paths : q # <<"scratch", ".">> => disk'[q] = disk[q]
        BY <1>1, <1>3, <2>2, PutFacts DEF TypeOK
    <2>4. /\ \A d \in {"out", "id"}, x \in Names \cup {"."} : disk'[<<d, x>>] = disk[<<d, x>>]
          /\ \A x \in Names : disk'[<<"scratch", x>>] = disk[<<"scratch", x>>]
        BY <2>3, PathFacts, NameFacts
    <2>5. TypeOK' /\ DiskInv'
        BY <1>1, <1>3, <2>1, <2>2, <2>3, DiskPut DEF TypeOK, SameMemory, SameRun
    <2>6. SickInv'
        <3>1. NothingUnchecked'
            BY <1>1, <2>1, <2>4, SickKept, NameFacts DEF Inv, SameMemory, SameRun
        <3> QED
            BY <2>1, <3>1 DEF SickInv
    <2>7. KindInv'
        BY <1>1, <2>1 DEF Inv, KindInv, Running, At, SameMemory, SameRun, SameList, SameVerdict, Opening, Staging,
           Copying
    <2>8. DirInv'
        <3>1. t.kind = "print_id" => Untouched'
            BY <1>1, <1>2, <2>1, <2>4 DEF Untouched, SameMemory, SameRun
        <3>2. There(<<Dir, ".">>)' /\ \A f \in Data : ~There(<<Dir, f>>)'
            BY <1>2, <2>1, <2>4, NameFacts DEF There
        <3> QED
            BY <1>1, <1>2, <2>1, <3>1, <3>2 DEF DirInv, Opening, Staging, Copying, Recording, SameMemory, SameRun,
               SameList
    <2>9. MemoryInv' /\ RecordInv' /\ IdInv'
        BY <1>2, <2>1 DEF MemoryInv, RecordInv, IdInv, At, Opening, Recording, SameMemory, SameVerdict
    <2>10. TrackInv'
        BY <1>2, <2>1, <2>4 DEF TrackInv, At, ScratchInUse, Copying, Recording, There
    <2> QED
        BY <2>1, <2>5, <2>6, <2>7, <2>8, <2>9, <2>10, NotOver DEF Inv
<1>4. CASE t' = [t EXCEPT !.why = @ \cup {"other"}, !.pc = "finish"] /\ disk' = disk
    <2>1. /\ SameRun /\ SameList /\ SameFiles /\ t' \in Memory /\ t'.pc = "finish" /\ "other" \in t'.why
          /\ t'.m = t.m /\ t'.retry = t.retry /\ Dir' = Dir
        BY <1>1, <1>4 DEF Memory, MainPcs, SameRun, SameList, SameFiles, Dir
    <2>2. TypeOK' /\ DiskInv' /\ NothingUnchecked' /\ \A q : There(q)' <=> There(q)
        BY <1>1, <1>4, <2>1, Quiet DEF SameRun
    <2>3. KindInv'
        BY <1>1, <1>2, <2>1 DEF Inv, KindInv, Running, At, SameRun, SameList, Opening, Staging, Copying
    <2>4. DirInv'
        <3>1. t.kind = "print_id" => Untouched'
            BY <1>1, <1>2, <1>4, <2>1 DEF Untouched, SameRun
        <3>2. There(<<Dir, ".">>)' /\ \A f \in Data : ~There(<<Dir, f>>)'
            BY <1>2, <2>1, <2>2
        <3> QED
            BY <1>1, <1>2, <2>1, <3>1, <3>2 DEF DirInv, Opening, Staging, Copying, Recording, SameRun, SameList
    <2>5. Failed(t.why)'
        BY <2>1, FailedFacts
    <2>6. SickInv' /\ MemoryInv' /\ RecordInv' /\ IdInv'
        BY <2>1, <2>2, <2>5 DEF SickInv, MemoryInv, RecordInv, IdInv, At, Opening, Recording
    <2>7. TrackInv'
        BY <1>2, <2>1, <2>2 DEF TrackInv, At, ScratchInUse, Recording, SameList
    <2> QED
        BY <2>1, <2>2, <2>3, <2>4, <2>6, <2>7, NotOver DEF Inv
<1> QED
    BY <1>3, <1>4 DEF MakeScratch

(* The scratch directory is the first entry of the capture's own. *)
LEMMA TrackScratchInv == ASSUME Inv, TrackScratch PROVE Inv'
<1>1. /\ TypeOK /\ t \in Memory /\ t.pc = "trackscratch" /\ UNCHANGED <<disk, doc, sick, exit>>
      /\ t' = [t EXCEPT !.tracked = Append(t.tracked, <<"scratch", ".">>), !.pc = "read"]
    BY DEF TrackScratch, Inv, TypeOK, At
<1>2. <<"scratch", ".">> \in Paths /\ Append(t.tracked, <<"scratch", ".">>) \in Seq(Paths)
    BY <1>1, PathFacts, MemoryFacts, ListFacts
<1>3. /\ t' \in Memory /\ t'.pc = "read" /\ SameRun /\ SameVerdict /\ t'.written = t.written
      /\ t'.tracked = Append(t.tracked, <<"scratch", ".">>)
    BY <1>1, <1>2 DEF Memory, MainPcs, SameRun, SameVerdict
<1>4. TypeOK' /\ DiskInv' /\ \A q : There(q)' <=> There(q)
    BY <1>1, <1>3, Quiet DEF SameRun
<1>5. MemoryInv'
    BY <1>1, <1>3 DEF Inv, MemoryInv, At, Opening, SameVerdict
<1>6. t'.retry = t.retry
    BY <1>3 DEF SameVerdict
<1> QED
    BY <1>1, <1>2, <1>3, <1>4, <1>5, <1>6, ScratchStep

(* What the sources gave is what will be staged. *)
LEMMA ReadSourcesInv == ASSUME Inv, ReadSources PROVE Inv'
<1>1. /\ TypeOK /\ t \in Memory /\ t.pc = "read" /\ t.m = NoManifest /\ UNCHANGED <<disk, doc, sick, exit>>
    BY DEF ReadSources, Inv, TypeOK, MemoryInv, At
<1>2. PICK s \in Sources :
          LET partial == IF s.nvml_missing THEN {"partial"} ELSE {}
              files == Always \cup s.have
          IN \/ t' = [t EXCEPT !.staged = files, !.left = files, !.why = partial, !.pc = "stage"]
             \/ Unwind(partial \cup {"other"})
    BY DEF ReadSources
<1> DEFINE partial == IF s.nvml_missing THEN {"partial"} ELSE {}
           files == Always \cup s.have
<1>3. files \subseteq Data /\ Always \subseteq files /\ partial \subseteq {"leak_or_schema", "other", "partial"}
    BY NameFacts DEF Sources
<1> HIDE DEF partial, files
<1>4. ASSUME t' \in Memory, t'.pc \in {"stage", "unwind"}, SameRun, SameList, t'.retry = t.retry, MemoryInv'
      PROVE  Inv'
    <2>1. TypeOK' /\ DiskInv' /\ \A q : There(q)' <=> There(q)
        BY <1>1, <1>4, Quiet DEF SameRun
    <2> QED
        BY <1>1, <1>4, <2>1, ScratchStep DEF SameList
<1>5. CASE t' = [t EXCEPT !.staged = files, !.left = files, !.why = partial, !.pc = "stage"]
    <2>1. /\ t' \in Memory /\ t'.pc = "stage" /\ SameRun /\ SameList /\ t'.retry = t.retry /\ t'.m = t.m
          /\ t'.staged = files /\ t'.left = files
        BY <1>1, <1>3, <1>5 DEF Memory, MainPcs, SameRun, SameList
    <2>2. MemoryInv'
        BY <1>1, <1>3, <2>1 DEF MemoryInv, At, Opening
    <2> QED
        BY <1>4, <2>1, <2>2
<1>6. CASE Unwind(partial \cup {"other"})
    <2>1. /\ t' \in Memory /\ t'.pc = "unwind" /\ SameRun /\ SameList /\ t'.retry = t.retry /\ t'.m = t.m
          /\ "other" \in t'.why
        BY <1>1, <1>3, <1>6 DEF Unwind, Memory, MainPcs, SameRun, SameList
    <2>2. MemoryInv'
        BY <2>1, FailedFacts DEF MemoryInv, At, Opening
    <2> QED
        BY <1>4, <2>1, <2>2
<1> QED
    BY <1>2, <1>5, <1>6 DEF partial, files


(* A file in the scratch directory, on the list before it is there. *)
LEMMA ScratchPut ==
    ASSUME Inv, t.n \in Captures, NEW x \in Names \ {"other"}, NEW w \in BOOLEAN, Put(<<"scratch", x>>, w),
           t.pc # "handler", t'.pc # "handler", t'.tracked = Append(t.tracked, <<"scratch", x>>), t' \in Memory,
           t'.n = t.n, UNCHANGED <<doc, sick, exit>>
    PROVE  /\ TypeOK' /\ DiskInv'
           /\ \A d \in {"out", "id"}, y \in Names \cup {"."} : disk'[<<d, y>>] = disk[<<d, y>>]
           /\ \A y \in Names : There(<<"scratch", y>>)' => There(<<"scratch", y>>) \/ WillGo(<<"scratch", y>>)'
           /\ \E p \in Paths : t'.tracked = Append(t.tracked, p)
<1>1. <<"scratch", x>> \in Paths /\ "scratch" \in Dirs /\ TypeOK /\ DiskInv
    BY PathFacts DEF Inv
<1>2. /\ disk' \in [Paths -> Content]
      /\ \A q \in Paths : q # <<"scratch", x>> => disk'[q] = disk[q]
    BY <1>1, PutFacts DEF TypeOK
<1>3. TypeOK'
    BY <1>1, <1>2 DEF TypeOK
<1>4. DiskInv'
    BY <1>1, DiskPut
<1>5. \A d \in {"out", "id"}, y \in Names \cup {"."} : disk'[<<d, y>>] = disk[<<d, y>>]
    BY <1>2, PathFacts
<1>6. WillGo(<<"scratch", x>>)'
    BY <1>1, ListGrows DEF TypeOK
<1>7. \A y \in Names : There(<<"scratch", y>>)' => There(<<"scratch", y>>) \/ WillGo(<<"scratch", y>>)'
    <2> SUFFICES ASSUME NEW y \in Names, There(<<"scratch", y>>)'
                 PROVE  There(<<"scratch", y>>) \/ WillGo(<<"scratch", y>>)'
        OBVIOUS
    <2>1. CASE y = x
        BY <1>6, <2>1
    <2>2. CASE y # x
        <3>1. <<"scratch", y>> # <<"scratch", x>> /\ <<"scratch", y>> \in Paths
            BY <2>2, PathFacts
        <3> QED
            BY <1>2, <3>1 DEF There
    <2> QED
        BY <2>1, <2>2
<1> QED
    BY <1>1, <1>3, <1>4, <1>5, <1>7

(* A staged file is on the list before it is there. *)
LEMMA StageInv == ASSUME Inv, Stage PROVE Inv'
<1>1. /\ TypeOK /\ t \in Memory /\ t.pc = "stage" /\ t.m = NoManifest /\ UNCHANGED <<doc, sick, exit>>
      /\ t.n \in Captures /\ Always \subseteq t.staged /\ t.left \subseteq t.staged
    BY DEF Stage, Inv, TypeOK, MemoryInv, KindInv, Running, At
<1>2. PICK f \in First(t.left) :
          LET p == <<"scratch", f>>
              last == t.left = {f}
              tracked == Append(t.tracked, p)
          IN \/ /\ Put(p, TRUE)
                /\ t' = [t EXCEPT !.tracked = tracked, !.pc = IF last THEN "validate" ELSE "stage",
                                  !.left = IF last THEN t.staged ELSE @ \ {f}]
             \/ /\ Put(p, FALSE)
                /\ t' = [t EXCEPT !.tracked = tracked, !.why = @ \cup {"other"}, !.pc = "unwind"]
    BY DEF Stage
<1>3. f \in t.left /\ f \in Data /\ f \in Names \ {"other"}
    BY <1>1, MemoryFacts, NameFacts DEF First
<1> DEFINE q == Append(t.tracked, <<"scratch", f>>)
<1>4. q \in Seq(Paths)
    BY <1>1, <1>3, PathFacts, MemoryFacts, ListFacts
<1> HIDE DEF q
<1>5. CASE Put(<<"scratch", f>>, TRUE)
           /\ t' = [t EXCEPT !.tracked = q, !.pc = IF t.left = {f} THEN "validate" ELSE "stage",
                             !.left = IF t.left = {f} THEN t.staged ELSE t.left \ {f}]
    <2>1. /\ t' \in Memory /\ t'.pc \in {"stage", "validate"} /\ SameRun /\ SameVerdict /\ t'.written = t.written
          /\ t'.tracked = q /\ t'.staged = t.staged /\ t'.left \subseteq t.staged
          /\ t'.pc = "validate" => t'.left = t.staged
        BY <1>1, <1>4, <1>5, MemoryFacts DEF Memory, MainPcs, SameRun, SameVerdict
    <2>2. MemoryInv'
        BY <1>1, <2>1 DEF MemoryInv, At, Opening, SameVerdict
    <2>3. t'.n = t.n /\ t'.retry = t.retry
        BY <2>1 DEF SameRun, SameVerdict
    <2>4. /\ TypeOK' /\ DiskInv'
          /\ \A d \in {"out", "id"}, y \in Names \cup {"."} : disk'[<<d, y>>] = disk[<<d, y>>]
          /\ \A y \in Names : There(<<"scratch", y>>)' => There(<<"scratch", y>>) \/ WillGo(<<"scratch", y>>)'
          /\ \E p \in Paths : t'.tracked = Append(t.tracked, p)
        BY <1>1, <1>3, <1>5, <2>1, <2>3, ScratchPut DEF q
    <2> QED
        BY <1>1, <2>1, <2>2, <2>3, <2>4, ScratchStep
<1>6. CASE Put(<<"scratch", f>>, FALSE)
           /\ t' = [t EXCEPT !.tracked = q, !.why = t.why \cup {"other"}, !.pc = "unwind"]
    <2>1. /\ t' \in Memory /\ t'.pc = "unwind" /\ SameRun /\ t'.retry = t.retry /\ t'.written = t.written
          /\ t'.tracked = q /\ "other" \in t'.why /\ t'.n = t.n
        BY <1>1, <1>4, <1>6 DEF Memory, MainPcs, SameRun
    <2>2. MemoryInv'
        BY <2>1, FailedFacts DEF MemoryInv, At, Opening
    <2>3. /\ TypeOK' /\ DiskInv'
          /\ \A d \in {"out", "id"}, y \in Names \cup {"."} : disk'[<<d, y>>] = disk[<<d, y>>]
          /\ \A y \in Names : There(<<"scratch", y>>)' => There(<<"scratch", y>>) \/ WillGo(<<"scratch", y>>)'
          /\ \E p \in Paths : t'.tracked = Append(t.tracked, p)
        BY <1>1, <1>3, <1>6, <2>1, ScratchPut DEF q
    <2> QED
        BY <1>1, <2>1, <2>2, <2>3, ScratchStep
<1> QED
    BY <1>2, <1>5, <1>6 DEF q

(* Only files that keep their schemas are searched. *)
LEMMA ValidateInv == ASSUME Inv, Validate PROVE Inv'
<1>1. /\ TypeOK /\ t \in Memory /\ t.pc = "validate" /\ t.m = NoManifest /\ UNCHANGED <<disk, doc, sick, exit>>
      /\ Always \subseteq t.staged /\ t.left = t.staged
    BY DEF Validate, Inv, TypeOK, MemoryInv, At
<1>2. ASSUME t' \in Memory, t'.pc \in {"search", "unwind"}, SameRun, SameList, t'.retry = t.retry, MemoryInv',
             t'.pc = "search" => sick[t.n] # "schema"
      PROVE  Inv'
    <2>1. TypeOK' /\ DiskInv' /\ \A q : There(q)' <=> There(q)
        BY <1>1, <1>2, Quiet DEF SameRun
    <2> QED
        BY <1>1, <1>2, <2>1, ScratchStep DEF SameList
<1>3. CASE Unwind({"leak_or_schema"})
    <2>1. /\ t' \in Memory /\ t'.pc = "unwind" /\ SameRun /\ SameList /\ t'.retry = t.retry
          /\ "leak_or_schema" \in t'.why
        BY <1>1, <1>3 DEF Unwind, Memory, MainPcs, SameRun, SameList
    <2>2. MemoryInv'
        BY <2>1, FailedFacts DEF MemoryInv, At, Opening
    <2> QED
        BY <1>2, <2>1, <2>2
<1>4. CASE sick[t.n] # "schema" /\ t' = [t EXCEPT !.m.sanitized = TRUE, !.pc = "search"]
    <2>1. /\ t' \in Memory /\ t'.pc = "search" /\ SameRun /\ SameList /\ t'.retry = t.retry /\ SameFiles
          /\ t'.m.sanitized = TRUE /\ t'.m.files = t.m.files
        BY <1>1, <1>4 DEF Memory, MainPcs, SameRun, SameList, SameFiles
    <2>2. MemoryInv'
        BY <1>1, <2>1, NoManifestFacts DEF MemoryInv, At, Opening, SameFiles
    <2> QED
        BY <1>2, <1>4, <2>1, <2>2
<1> QED
    BY <1>3, <1>4 DEF Validate

(* Only files without an identifier are replayed. *)
LEMMA LeakSearchInv == ASSUME Inv, LeakSearch PROVE Inv'
<1> DEFINE p == <<"scratch", "diagnostics.txt">>
           q == Append(t.tracked, p)
<1>1. /\ TypeOK /\ t \in Memory /\ t.pc = "search" /\ t.m.sanitized /\ t.m.files = {} /\ UNCHANGED <<doc, sick, exit>>
      /\ t.n \in Captures /\ Always \subseteq t.staged /\ t.left = t.staged /\ sick[t.n] # "schema"
    BY DEF LeakSearch, Inv, TypeOK, MemoryInv, KindInv, SickInv, Running, At
<1>2. "diagnostics.txt" \in Names \ {"other"}
    BY NameFacts
<1>3. q \in Seq(Paths)
    BY <1>1, <1>2, PathFacts, MemoryFacts, ListFacts
<1> HIDE DEF q
<1>4. ASSUME NEW w \in BOOLEAN, Put(p, w), t' \in Memory, t'.pc \in {"replay", "unwind"}, SameRun, t'.tracked = q,
             t'.written = t.written, t'.retry = t.retry, MemoryInv', t'.pc = "replay" => sick[t.n] = "none"
      PROVE  Inv'
    <2>1. t'.n = t.n
        BY <1>4 DEF SameRun
    <2>2. /\ TypeOK' /\ DiskInv'
          /\ \A d \in {"out", "id"}, y \in Names \cup {"."} : disk'[<<d, y>>] = disk[<<d, y>>]
          /\ \A y \in Names : There(<<"scratch", y>>)' => There(<<"scratch", y>>) \/ WillGo(<<"scratch", y>>)'
          /\ \E r \in Paths : t'.tracked = Append(t.tracked, r)
        BY <1>1, <1>2, <1>4, <2>1, ScratchPut DEF q
    <2> QED
        BY <1>1, <1>4, <2>2, ScratchStep
<1>5. CASE Put(p, FALSE) /\ t' = [t EXCEPT !.tracked = q, !.why = t.why \cup {"other"}, !.pc = "unwind"]
    <2>1. /\ t' \in Memory /\ t'.pc = "unwind" /\ SameRun /\ t'.retry = t.retry /\ t'.written = t.written
          /\ t'.tracked = q /\ "other" \in t'.why
        BY <1>1, <1>3, <1>5 DEF Memory, MainPcs, SameRun
    <2>2. MemoryInv'
        BY <2>1, FailedFacts DEF MemoryInv, At, Opening
    <2> QED
        BY <1>4, <1>5, <2>1, <2>2
<1>6. ASSUME Put(p, TRUE), NEW found \in Findings,
             t' = [t EXCEPT
                     !.tracked = q,
                     !.m.leak_check = IF found = {} THEN "passed" ELSE "failed",
                     !.why = @ \cup (IF "leak" \in found THEN {"leak_or_schema"} ELSE {})
                               \cup (IF "unreadable" \in found THEN {"other"} ELSE {}),
                     !.pc = IF found = {} THEN "replay" ELSE "unwind"]
      PROVE  Inv'
    <2>1. /\ found \subseteq {"leak", "unreadable"}
          /\ found = {} => sick[t.n] # "leak"
        BY DEF Findings
    <2>2. /\ t' \in Memory /\ SameRun /\ t'.retry = t.retry /\ t'.written = t.written /\ t'.tracked = q /\ SameFiles
          /\ t'.m.sanitized = t.m.sanitized /\ t'.m.files = t.m.files
          /\ t'.pc = (IF found = {} THEN "replay" ELSE "unwind")
          /\ t'.m.leak_check = (IF found = {} THEN "passed" ELSE "failed")
          /\ t'.why = t.why \cup (IF "leak" \in found THEN {"leak_or_schema"} ELSE {})
                            \cup (IF "unreadable" \in found THEN {"other"} ELSE {})
        BY <1>1, <1>3, <1>6, <2>1 DEF Memory, MainPcs, SameRun, SameFiles
    <2>3. CASE found = {}
        <3>1. sick[t.n] = "none"
            BY <1>1, <2>1, <2>3 DEF TypeOK
        <3>2. MemoryInv'
            BY <1>1, <2>2, <2>3 DEF MemoryInv, At, Opening, SameFiles
        <3> QED
            BY <1>4, <1>6, <2>2, <2>3, <3>1, <3>2
    <2>4. CASE found # {}
        <3>1. "leak" \in found \/ "unreadable" \in found
            BY <2>1, <2>4
        <3>2. Failed(t.why)'
            BY <2>2, <3>1, FailedFacts
        <3>3. MemoryInv'
            BY <2>2, <2>4, <3>2 DEF MemoryInv, At, Opening
        <3>4. t'.pc = "unwind"
            BY <2>2, <2>4
        <3> QED
            BY <1>4, <1>6, <2>2, <3>3, <3>4
    <2> QED
        BY <2>3, <2>4
<1> QED
    BY <1>5, <1>6 DEF LeakSearch, q

(* The copy begins with nothing in the directory. *)
LEMMA ReplayInv == ASSUME Inv, Replay PROVE Inv'
<1>1. /\ TypeOK /\ t \in Memory /\ t.pc = "replay" /\ UNCHANGED <<disk, doc, sick, exit>>
      /\ t.m.sanitized /\ t.m.leak_check = "passed" /\ t.m.files = {}
      /\ Always \subseteq t.staged /\ t.left = t.staged /\ sick[t.n] = "none"
      /\ \A f \in Data : ~There(<<Dir, f>>)
    BY DEF Replay, Inv, TypeOK, MemoryInv, SickInv, DirInv, KindInv, Staging, At
<1>2. ASSUME t' \in Memory, t'.pc \in {"publish", "unwind"}, SameRun, SameList, t'.retry = t.retry, MemoryInv'
      PROVE  Inv'
    <2>1. TypeOK' /\ DiskInv' /\ \A q : There(q)' <=> There(q)
        BY <1>1, <1>2, Quiet DEF SameRun
    <2> QED
        BY <1>1, <1>2, <2>1, ScratchStep DEF SameList
<1>3. CASE Unwind({"other"})
    <2>1. /\ t' \in Memory /\ t'.pc = "unwind" /\ SameRun /\ SameList /\ t'.retry = t.retry /\ "other" \in t'.why
        BY <1>1, <1>3 DEF Unwind, Memory, MainPcs, SameRun, SameList
    <2>2. MemoryInv'
        BY <2>1, FailedFacts DEF MemoryInv, At, Opening
    <2> QED
        BY <1>2, <2>1, <2>2
<1>4. CASE Goto("publish")
    <2>1. SameMemory /\ t' \in Memory /\ t'.pc = "publish" /\ Dir' = Dir
        BY <1>1, <1>4 DEF Goto, Memory, MainPcs, SameMemory, SameRun, SameList, SameFiles, SameVerdict, Dir
    <2>2. \A f \in Data : ~There(<<Dir, f>>)'
        BY <1>1, <2>1 DEF There
    <2>3. MemoryInv'
        BY <1>1, <2>1, <2>2 DEF MemoryInv, At, Opening, SameMemory, SameFiles, SameVerdict
    <2> QED
        BY <1>2, <2>1, <2>3 DEF SameMemory, SameVerdict
<1> QED
    BY <1>3, <1>4 DEF Replay


(* A step of the copy: one data file of the directory, on the list before it is there. *)
LEMMA CopyStep ==
    ASSUME Inv, t.pc \in {"publish", "write"}, t' \in Memory, t'.pc \in {"publish", "write", "unwind"},
           SameRun, t'.retry = t.retry, UNCHANGED <<doc, sick, exit>>, NEW f \in Data,
           disk' = disk \/ \E w \in BOOLEAN : Put(<<Dir, f>>, w),
           t'.written = t.written \cup {<<Dir, f>>},
           \/ t'.tracked = t.tracked /\ <<Dir, f>> \in t.written
           \/ t'.tracked = Append(t.tracked, <<Dir, f>>),
           MemoryInv'
    PROVE  Inv'
<1>1. /\ Running /\ t.n \in Captures /\ t'.n = t.n /\ t'.kind = t.kind /\ Dir' = Dir /\ Dir \in {"out", "id"}
      /\ t'.retry = FALSE /\ t'.mark = t.mark /\ t \in Memory /\ Dir \in Dirs /\ (Dir = "out" <=> t.kind # "print_id")
      /\ TypeOK /\ DiskInv
    BY MemoryFacts, DirFacts DEF Inv, TypeOK, KindInv, Running, At, Copying, SameRun, Dir
<1>2. f \in Names /\ f \notin {"diagnostics.txt", "manifest.json.tmp", "manifest.json", "other", "."}
      /\ <<Dir, f>> \in Paths
    BY <1>1, NameFacts, PathFacts
<1>3. /\ t.kind # "failed"
      /\ t.kind = "print_id" => Untouched
      /\ Dir = "out" => doc = NoManifest
      /\ There(<<Dir, ".">>) /\ t.written \subseteq {Dir} \X Data
      /\ \A g \in Data : There(<<Dir, g>>) => <<Dir, g>> \in t.written /\ disk[<<Dir, g>>].by = t.n
      /\ sick[t.n] = "none"
    BY <1>1 DEF Inv, KindInv, DirInv, SickInv, Copying
<1>4. /\ disk' \in [Paths -> Content]
      /\ \A q \in Paths : q # <<Dir, f>> => disk'[q] = disk[q]
      /\ disk'[<<Dir, f>>] = disk[<<Dir, f>>] \/ disk'[<<Dir, f>>].by = t.n
    BY <1>1, <1>2, PutFacts DEF TypeOK
<1>5. TypeOK'
    BY <1>1, <1>4 DEF TypeOK
<1>6. DiskInv'
    <2>1. CASE disk' = disk
        BY <1>1, <2>1 DEF DiskInv, There
    <2>2. ASSUME NEW w \in BOOLEAN, Put(<<Dir, f>>, w) PROVE DiskInv'
        BY <1>1, <1>2, <1>3, <2>2, DiskPut
    <2> QED
        BY <2>1, <2>2
<1>7. SickInv'
    <2>1. ASSUME NEW d \in {"out", "id"}, NEW k \in Captures, NEW g \in Data, disk'[<<d, g>>].by = k
          PROVE  sick'[k] = "none"
        <3>1. <<d, g>> \in Paths
            BY NameFacts, PathFacts
        <3>2. k = t.n \/ disk[<<d, g>>].by = k
            BY <1>4, <2>1, <3>1
        <3> QED
            BY <1>3, <3>2 DEF Inv, SickInv, NothingUnchecked, DataOf
    <2>2. NothingUnchecked'
        BY <2>1 DEF NothingUnchecked, DataOf
    <2> QED
        BY <1>1, <1>3, <2>2 DEF SickInv
<1>8. t'.tracked = t.tracked \/ \E p \in Paths : t'.tracked = Append(t.tracked, p)
    BY <1>2
<1>9. KindInv'
    <2>1. t'.kind = "print_id" =>
              /\ t'.mark = Len(IdNames) /\ t'.mark <= Len(t'.tracked)
              /\ \A j \in 1..t'.mark : t'.tracked[j] = IdNames[j]
        BY <1>1, <1>8, KindKept DEF MainPcs
    <2>2. t.kind # "print_id" => t.mark = 0
        BY DEF Inv, KindInv
    <2> QED
        BY <1>1, <1>3, <2>1, <2>2 DEF KindInv, Running, At, Opening, Staging, Copying
<1>10. DirInv'
    <2>1. t.kind = "print_id" => Untouched'
        <3>1. ASSUME t.kind = "print_id", NEW x \in Names PROVE disk'[<<"out", x>>] = disk[<<"out", x>>]
            BY <1>1, <1>4, <3>1, PathFacts
        <3> QED
            BY <1>1, <1>3, <3>1 DEF Untouched
    <2>2. There(<<Dir, ".">>)'
        <3>1. <<Dir, ".">> \in Paths /\ <<Dir, ".">> # <<Dir, f>>
            BY <1>1, <1>2, PathFacts
        <3> QED
            BY <1>1, <1>3, <1>4, <3>1 DEF There
    <2>3. t'.written \subseteq {Dir} \X Data
        BY <1>3
    <2>4. ASSUME NEW g \in Data, There(<<Dir, g>>)' PROVE <<Dir, g>> \in t'.written /\ disk'[<<Dir, g>>].by = t.n
        <3>1. <<Dir, g>> \in Paths
            BY <1>1, NameFacts, PathFacts
        <3>2. disk'[<<Dir, g>>] = disk[<<Dir, g>>] \/ (g = f /\ disk'[<<Dir, f>>].by = t.n)
            BY <1>4, <3>1
        <3> QED
            BY <1>1, <1>3, <2>4, <3>2 DEF There
    <2> QED
        BY <1>1, <1>3, <2>1, <2>2, <2>3, <2>4 DEF DirInv, Running, At, Opening, Staging, Copying, Recording, There
<1>11. RecordInv'
    BY DEF RecordInv, At, Recording
<1>12. TrackInv'
    <2>1. \A q : WillGo(q) => WillGo(q)'
        BY <1>1, <1>2, ListGrows, ListKept
    <2>2. \A p \in t.written : WillGo(p)
        BY DEF Inv, TrackInv, Copying
    <2>3. WillGo(<<Dir, f>>)'
        BY <1>1, <1>2, <2>1, <2>2, ListGrows
    <2>4. ASSUME NEW x \in Names, There(<<"scratch", x>>)' PROVE WillGo(<<"scratch", x>>)'
        <3>1. There(<<"scratch", x>>)
            BY <1>1, <1>4, <2>4, PathFacts DEF There
        <3> QED
            BY <2>1, <3>1 DEF Inv, TrackInv, ScratchInUse
    <2>5. \A p \in t'.written : WillGo(p)'
        BY <1>1, <2>1, <2>2, <2>3
    <2> QED
        BY <2>4, <2>5 DEF TrackInv, At, ScratchInUse, Recording
<1>13. IdInv'
    BY DEF IdInv, At
<1> QED
    BY <1>5, <1>6, <1>7, <1>9, <1>10, <1>11, <1>12, <1>13, NotOver DEF Inv

(* The next data file is opened in the directory. *)
LEMMA PublishInv == ASSUME Inv, Publish PROVE Inv'
<1>1. /\ TypeOK /\ t \in Memory /\ t.pc = "publish" /\ UNCHANGED <<doc, sick, exit>> /\ t.n \in Captures
      /\ Always \subseteq t.staged /\ t.left \subseteq t.staged /\ t.m.sanitized /\ t.m.leak_check = "passed"
      /\ t.m.files = t.staged \ t.left
      /\ \A g \in t.m.files : disk[<<Dir, g>>].by = t.n /\ disk[<<Dir, g>>].whole
      /\ \A g \in Data : There(<<Dir, g>>) => g \in t.m.files
    BY DEF Publish, Inv, TypeOK, MemoryInv, KindInv, Running, At
<1>2. PICK f \in First(t.left) :
          LET p == <<Dir, f>> IN
          \/ Put(p, FALSE) /\ t' = [t EXCEPT !.tracked = Append(@, p), !.written = @ \cup {p}, !.pc = "write"]
          \/ /\ t' = [t EXCEPT !.tracked = Append(@, p), !.written = @ \cup {p},
                               !.why = @ \cup {"other"}, !.pc = "unwind"]
             /\ disk' = disk
    BY DEF Publish
<1>3. f \in t.left /\ f \in Data /\ <<Dir, f>> \in Paths /\ t.m.files \subseteq Data
    BY <1>1, MemoryFacts, NameFacts, PathFacts, DirFacts DEF First
<1> DEFINE q == Append(t.tracked, <<Dir, f>>)
           ws == t.written \cup {<<Dir, f>>}
<1>4. q \in Seq(Paths) /\ ws \subseteq Paths
    BY <1>1, <1>3, MemoryFacts, ListFacts
<1> HIDE DEF q, ws
<1>5. CASE Put(<<Dir, f>>, FALSE) /\ t' = [t EXCEPT !.tracked = q, !.written = ws, !.pc = "write"]
    <2>1. /\ t' \in Memory /\ t'.pc = "write" /\ SameRun /\ SameFiles /\ SameVerdict /\ t'.tracked = q /\ t'.written = ws
        BY <1>1, <1>4, <1>5 DEF Memory, MainPcs, SameRun, SameFiles, SameVerdict
    <2>2. Dir' = Dir /\ t'.n = t.n /\ t'.retry = t.retry /\ t'.m = t.m /\ t'.left = t.left /\ t'.staged = t.staged
        BY <2>1 DEF SameRun, SameFiles, SameVerdict, Dir
    <2>3. \A g \in Data : g # f => disk'[<<Dir, g>>] = disk[<<Dir, g>>]
        <3>1. \A p \in Paths : p # <<Dir, f>> => disk'[p] = disk[p]
            BY <1>1, <1>3, <1>5, PutFacts DEF TypeOK
        <3>2. \A g \in Data : <<Dir, g>> \in Paths
            BY DirFacts, NameFacts, PathFacts
        <3> QED
            BY <3>1, <3>2, PathFacts
    <2>4. \A g \in t.m.files : disk'[<<Dir, g>>].by = t.n /\ disk'[<<Dir, g>>].whole
        BY <1>1, <1>3, <2>3
    <2>5. \A g \in Data : There(<<Dir, g>>)' => g \in t.m.files \/ g \in First(t.left)
        BY <1>1, <1>2, <2>2, <2>3 DEF There
    <2>6. \A g \in First(t.left) : <<Dir, g>> \in t'.written
        BY <2>1, OneFirst DEF ws
    <2>7. MemoryInv'
        BY <1>1, <2>1, <2>2, <2>4, <2>5, <2>6 DEF MemoryInv, At, Opening, There
    <2> QED
        BY <1>1, <1>3, <1>5, <2>1, <2>2, <2>7, CopyStep DEF q, ws
<1>6. CASE t' = [t EXCEPT !.tracked = q, !.written = ws, !.why = t.why \cup {"other"}, !.pc = "unwind"] /\ disk' = disk
    <2>1. /\ t' \in Memory /\ t'.pc = "unwind" /\ SameRun /\ t'.retry = t.retry /\ t'.tracked = q /\ t'.written = ws
          /\ "other" \in t'.why
        BY <1>1, <1>4, <1>6 DEF Memory, MainPcs, SameRun
    <2>2. MemoryInv'
        BY <2>1, FailedFacts DEF MemoryInv, At, Opening
    <2> QED
        BY <1>1, <1>3, <1>6, <2>1, <2>2, CopyStep DEF q, ws
<1> QED
    BY <1>2, <1>5, <1>6 DEF q, ws

(* Its bytes are written, and listed in the manifest in memory. *)
LEMMA WriteDataInv == ASSUME Inv, WriteData PROVE Inv'
<1>1. /\ TypeOK /\ t \in Memory /\ t.pc = "write" /\ UNCHANGED <<doc, sick, exit>> /\ t.n \in Captures
      /\ Always \subseteq t.staged /\ t.left \subseteq t.staged /\ t.m.sanitized /\ t.m.leak_check = "passed"
      /\ t.m.files = t.staged \ t.left
      /\ \A g \in t.m.files : disk[<<Dir, g>>].by = t.n /\ disk[<<Dir, g>>].whole
      /\ \A g \in Data : There(<<Dir, g>>) => g \in t.m.files \/ g \in First(t.left)
      /\ \A g \in First(t.left) : <<Dir, g>> \in t.written
    BY DEF WriteData, Inv, TypeOK, MemoryInv, KindInv, Running, At
<1>2. PICK f \in First(t.left) :
          LET last == t.left = {f} IN
          \/ /\ Put(<<Dir, f>>, TRUE)
             /\ t' = [t EXCEPT !.m.files = @ \cup {f}, !.m.id = last, !.left = @ \ {f},
                               !.pc = IF last THEN "unwind" ELSE "publish"]
          \/ Unwind({"other"}) /\ disk' = disk
    BY DEF WriteData
<1>3. f \in t.left /\ f \in Data /\ <<Dir, f>> \in Paths /\ t.m.files \subseteq Data /\ <<Dir, f>> \in t.written
    BY <1>1, MemoryFacts, NameFacts, PathFacts, DirFacts DEF First
<1>4. t.written = t.written \cup {<<Dir, f>>}
    BY <1>3
<1>5. CASE /\ Put(<<Dir, f>>, TRUE)
           /\ t' = [t EXCEPT !.m.files = t.m.files \cup {f}, !.m.id = (t.left = {f}), !.left = t.left \ {f},
                             !.pc = IF t.left = {f} THEN "unwind" ELSE "publish"]
    <2> DEFINE last == t.left = {f}
    <2>1. t.m.files \cup {f} \subseteq Data /\ t.left \ {f} \subseteq Data /\ last \in BOOLEAN
        BY <1>1, <1>3, MemoryFacts
    <2>2. /\ t' \in Memory /\ t'.pc = (IF last THEN "unwind" ELSE "publish") /\ SameRun /\ SameList
          /\ t'.retry = t.retry /\ t'.staged = t.staged /\ t'.left = t.left \ {f}
          /\ t'.m.files = t.m.files \cup {f} /\ t'.m.id = last
          /\ t'.m.sanitized = t.m.sanitized /\ t'.m.leak_check = t.m.leak_check
        <3> DEFINE files == t.m.files \cup {f}
                   left == t.left \ {f}
                   next == IF last THEN "unwind" ELSE "publish"
        <3>1. next \in MainPcs /\ files \subseteq Data /\ left \subseteq Data
            BY <2>1 DEF MainPcs
        <3>2. t' = [t EXCEPT !.m.files = files, !.m.id = last, !.left = left, !.pc = next]
            BY <1>5
        <3> HIDE DEF last, files, left, next
        <3>3. /\ t' \in Memory /\ t'.pc = next /\ SameRun /\ SameList /\ t'.retry = t.retry /\ t'.staged = t.staged
              /\ t'.left = left /\ t'.m.files = files /\ t'.m.id = last
              /\ t'.m.sanitized = t.m.sanitized /\ t'.m.leak_check = t.m.leak_check
            BY <1>1, <2>1, <3>1, <3>2 DEF Memory, SameRun, SameList
        <3> QED
            BY <3>3 DEF files, left, next
    <2>3. Dir' = Dir /\ t'.n = t.n /\ t'.tracked = t.tracked /\ t'.written = t.written
        BY <2>2 DEF SameRun, SameList, Dir
    <2>4. /\ disk'[<<Dir, f>>].by = t.n /\ disk'[<<Dir, f>>].whole
          /\ \A g \in Data : g # f => disk'[<<Dir, g>>] = disk[<<Dir, g>>]
        <3>1. /\ \A p \in Paths : p # <<Dir, f>> => disk'[p] = disk[p]
              /\ disk'[<<Dir, f>>].by = t.n /\ disk'[<<Dir, f>>].whole
            BY <1>1, <1>3, <1>5, PutFacts DEF TypeOK
        <3>2. \A g \in Data : <<Dir, g>> \in Paths
            BY DirFacts, NameFacts, PathFacts
        <3> QED
            BY <3>1, <3>2, PathFacts
    <2>5. \A g \in t'.m.files : disk'[<<Dir, g>>].by = t.n /\ disk'[<<Dir, g>>].whole
        BY <1>1, <1>3, <2>2, <2>4
    <2>6. \A g \in Data : There(<<Dir, g>>)' => g \in t'.m.files
        <3>1. \A g \in First(t.left) : g = f
            BY OneFirst
        <3> QED
            BY <1>1, <2>2, <2>3, <2>4, <3>1 DEF There
    <2>7. MemoryInv'
        <3>1. CASE t.left = {f}
            <4>1. t'.pc = "unwind" /\ t'.m.id /\ t'.m.files = t.staged /\ t'.m.sanitized /\ t'.m.leak_check = "passed"
                BY <1>1, <1>3, <2>2, <3>1
            <4>2. Backed(Dir)'
                BY <1>1, <2>3, <2>5, <2>6, <4>1 DEF Backed, There
            <4> QED
                BY <4>1, <4>2 DEF MemoryInv, At, Opening
        <3>2. CASE t.left # {f}
            <4>1. t'.pc = "publish" /\ t'.m.files = t'.staged \ t'.left /\ t'.left \subseteq t'.staged
                BY <1>1, <1>3, <2>2, <3>2
            <4> QED
                BY <1>1, <2>2, <2>3, <2>5, <2>6, <4>1 DEF MemoryInv, At, Opening, There
        <3> QED
            BY <3>1, <3>2
    <2>8. t'.pc \in {"publish", "write", "unwind"}
        BY <2>2
    <2> QED
        BY <1>1, <1>3, <1>4, <1>5, <2>2, <2>3, <2>7, <2>8, CopyStep
<1>6. CASE Unwind({"other"}) /\ disk' = disk
    <2>1. /\ t' \in Memory /\ t'.pc = "unwind" /\ SameRun /\ SameList /\ t'.retry = t.retry /\ "other" \in t'.why
        BY <1>1, <1>6 DEF Unwind, Memory, MainPcs, SameRun, SameList
    <2>2. MemoryInv'
        BY <2>1, FailedFacts DEF MemoryInv, At, Opening
    <2> QED
        BY <1>1, <1>3, <1>4, <1>6, <2>1, <2>2, CopyStep DEF SameList
<1> QED
    BY <1>2, <1>5, <1>6


-----------------------------------------------------------------------------
(* finish and the record.                                                   *)

(* A step from the end of the copy to the end of the record: no data file is written, and nothing   *)
(* is taken off the list.                                                                           *)
LEMMA RecordStep ==
    ASSUME Inv, t.pc \in {"unwind", "finish", "unrecord"} \cup Recording,
           t' \in Memory, t'.pc \in {"finish", "unrecord"} \cup Recording,
           SameRun, t'.written = t.written, UNCHANGED <<sick, exit>>,
           t'.tracked = t.tracked \/ (t.kind # "failed" /\ t'.tracked = RecordTracked),
           \A q : WillGo(q) => WillGo(q)',
           t'.kind = "print_id" => t'.mark <= Len(t'.tracked) /\ \A j \in 1..t'.mark : t'.tracked[j] = IdNames[j],
           \A x \in Names \cup {"."} : disk'[<<"scratch", x>>] = disk[<<"scratch", x>>] \/ ~There(<<"scratch", x>>)',
           t.pc = "unwind" => \A x \in Names \cup {"."} : ~There(<<"scratch", x>>)',
           disk'[<<Dir, ".">>] = disk[<<Dir, ".">>],
           \A f \in Data : disk'[<<Dir, f>>] = disk[<<Dir, f>>] \/ ~There(<<Dir, f>>)',
           Dir = "id" => doc' = doc /\ \A x \in Names : disk'[<<"out", x>>] = disk[<<"out", x>>],
           Dir = "out" => \A x \in Names : disk'[<<"id", x>>] = disk[<<"id", x>>],
           Dir = "out" /\ t'.pc \in {"finish", "diagnostics", "manifest", "rename"} => doc' = NoManifest,
           t.kind = "failed" => t'.pc # "finish" /\ t'.pc # "release" /\ t'.pc # "unrecord" /\ ~t'.retry,
           t'.pc = "finish" => ~t'.retry,
           t'.pc \in {"manifest", "rename", "sync", "release", "recordfails", "unrecord"} /\ t.kind # "failed" =>
               t'.tracked # <<>> /\ t'.tracked[Len(t'.tracked)] = <<Dir, "manifest.json">>,
           TypeOK', DiskInv', MemoryInv', RecordInv'
    PROVE  Inv'
<1>1. /\ Running /\ t.n \in Captures /\ t'.n = t.n /\ t'.kind = t.kind /\ Dir' = Dir /\ Dir \in {"out", "id"}
      /\ t'.mark = t.mark /\ t \in Memory /\ (Dir = "out" <=> t.kind # "print_id")
    BY MemoryFacts, DirFacts DEF Inv, TypeOK, KindInv, Running, At, Recording, SameRun, Dir
<1>2. /\ t.kind = "print_id" => Untouched
      /\ There(<<Dir, ".">>) /\ t.written \subseteq {Dir} \X Data
      /\ \A g \in Data : There(<<Dir, g>>) => <<Dir, g>> \in t.written /\ disk[<<Dir, g>>].by = t.n
    BY <1>1 DEF Inv, DirInv, Copying
<1>3. SickInv'
    <2>1. Nothing.by = 0 /\ Data \subseteq Names
        BY ContentFacts, NameFacts
    <2>2. \A d \in {"out", "id"}, f \in Data : disk'[<<d, f>>].by \in {0, disk[<<d, f>>].by}
        BY <1>1, <2>1 DEF There
    <2>3. NothingUnchecked'
        BY <1>1, <2>2, SickKept DEF Inv
    <2> QED
        BY <1>1, <2>3 DEF SickInv, Recording
<1>4. KindInv'
    <2>1. /\ t.kind = "failed" => t.pc \in Recording /\ t.tracked = <<>> /\ t.written = {}
          /\ t.kind # "print_id" => t.mark = 0
          /\ t.kind = "print_id" => t.mark = Len(IdNames)
        BY <1>1 DEF Inv, KindInv, Recording
    <2> QED
        BY <1>1, <2>1 DEF KindInv, Running, At, Opening, Staging, Copying, Recording
<1>5. DirInv'
    <2>1. t.kind = "print_id" => Untouched'
        BY <1>1, <1>2 DEF Untouched
    <2>2. There(<<Dir, ".">>)' /\ t'.written \subseteq {Dir} \X Data
        BY <1>1, <1>2 DEF There
    <2>3. \A g \in Data : There(<<Dir, g>>)' => <<Dir, g>> \in t'.written /\ disk'[<<Dir, g>>].by = t.n
        BY <1>1, <1>2 DEF There
    <2> QED
        BY <1>1, <2>1, <2>2, <2>3 DEF DirInv, Running, At, Opening, Staging, Copying, Recording, There
<1>6. TrackInv'
    <2>1. \A x \in Names \cup {"."} : ~There(<<"scratch", x>>)'
        <3>1. t.pc # "unwind" => \A x \in Names \cup {"."} : ~There(<<"scratch", x>>)
            BY <1>1 DEF Inv, TrackInv, ScratchInUse, At, Recording
        <3> QED
            BY <3>1 DEF There
    <2>2. \A p \in t.written : WillGo(p)
        BY DEF Inv, TrackInv, Copying
    <2>3. \A p \in t'.written : WillGo(p)'
        BY <2>2
    <2> QED
        BY <1>1, <2>1, <2>3 DEF TrackInv, At, ScratchInUse, Recording
<1>7. IdInv'
    BY DEF IdInv, At, Recording
<1>8. t'.pc # "idle" /\ t'.pc # "handler"
    BY DEF Recording
<1> QED
    BY <1>3, <1>4, <1>5, <1>6, <1>7, <1>8, NotOver DEF Inv

(* What such a step knows of the list when it leaves it alone. *)
LEMMA ListSame ==
    ASSUME Inv, t.pc \in {"unwind", "finish", "unrecord"} \cup Recording,
           t'.pc \in {"finish", "unrecord"} \cup Recording, SameRun, t'.tracked = t.tracked
    PROVE  /\ \A q : WillGo(q) => WillGo(q)'
           /\ t'.kind = "print_id" => t'.mark <= Len(t'.tracked) /\ \A j \in 1..t'.mark : t'.tracked[j] = IdNames[j]
           /\ t.pc \in {"manifest", "rename", "sync", "release", "recordfails", "unrecord"} /\ t.kind # "failed" =>
               t'.tracked # <<>> /\ t'.tracked[Len(t'.tracked)] = <<Dir, "manifest.json">>
           /\ t.pc \in {"finish", "diagnostics", "manifest", "rename"} /\ Dir = "out" => doc = NoManifest
<1>1. t.pc # "handler" /\ t'.pc # "handler" /\ Running
    BY DEF Recording, Running, At
<1>2. \A q : WillGo(q) => WillGo(q)'
    BY <1>1, ListKept
<1>3. t'.kind = "print_id" => t'.mark <= Len(t'.tracked) /\ \A j \in 1..t'.mark : t'.tracked[j] = IdNames[j]
    BY <1>1 DEF Inv, KindInv, SameRun, Recording
<1>4. t.pc \in {"manifest", "rename", "sync", "release", "recordfails", "unrecord"} /\ t.kind # "failed" =>
         t'.tracked # <<>> /\ t'.tracked[Len(t'.tracked)] = <<Dir, "manifest.json">>
    BY DEF Inv, TrackInv
<1>5. t.pc \in {"finish", "diagnostics", "manifest", "rename"} /\ Dir = "out" => doc = NoManifest
    BY DEF Inv, DirInv, Copying
<1> QED
    BY <1>2, <1>3, <1>4, <1>5

(* ~Scratch: nothing is left in it. *)
LEMMA UnwindScratchInv == ASSUME Inv, UnwindScratch PROVE Inv'
<1>1. /\ TypeOK /\ DiskInv /\ t \in Memory /\ t.pc = "unwind" /\ Unlink(Under("scratch")) /\ UNCHANGED <<doc, sick, exit>>
      /\ ~Failed(t.why) => Backed(Dir)
      /\ t.kind # "failed" /\ ~t.retry /\ (Dir = "out" => doc = NoManifest) /\ t.n \in Captures
    BY DEF UnwindScratch, Inv, TypeOK, At, MemoryInv, KindInv, DirInv, Copying, Running
<1>2. SameMemory /\ t' \in Memory /\ t'.pc = "finish" /\ Dir' = Dir
    BY <1>1 DEF UnwindScratch, Goto, Memory, MainPcs, SameMemory, SameRun, SameList, SameFiles, SameVerdict, Dir
<1>3. disk' \in [Paths -> Content] /\ \A q \in Paths : disk'[q] = IF q \in Under("scratch") THEN Nothing ELSE disk[q]
    BY <1>1, UnlinkFacts DEF TypeOK
<1>4. /\ \A x \in Names \cup {"."} : disk'[<<"scratch", x>>] = Nothing
      /\ \A d \in {"out", "id"}, x \in Names \cup {"."} : disk'[<<d, x>>] = disk[<<d, x>>]
    BY <1>3, PathFacts DEF Under
<1>5. TypeOK' /\ DiskInv'
    <2>1. {<<"out", "manifest.json">>, <<"out", ".">>} \cap Under("scratch") = {}
        BY DEF Under
    <2>2. t'.n \in Nat /\ t.n <= t'.n
        BY <1>1, <1>2, NumberFacts DEF SameMemory, SameRun
    <2> QED
        BY <1>1, <1>2, <1>3, <2>1, <2>2, DiskUnlink DEF TypeOK
<1>6. MemoryInv'
    <2>1. Data \subseteq Names /\ t.m.files \subseteq Data
        BY <1>1, NameFacts, MemoryFacts
    <2>2. Backed(Dir) => Backed(Dir)'
        BY <1>2, <1>4, <2>1, DirFacts DEF Backed, There, SameMemory, SameVerdict, SameRun
    <2> QED
        BY <1>1, <1>2, <2>2 DEF MemoryInv, At, Opening, SameMemory, SameVerdict, Failed, exit_for
<1>7. RecordInv'
    BY <1>2 DEF RecordInv, At, Recording
<1>8. /\ \A q : WillGo(q) => WillGo(q)'
      /\ t'.kind = "print_id" => t'.mark <= Len(t'.tracked) /\ \A j \in 1..t'.mark : t'.tracked[j] = IdNames[j]
    BY <1>1, <1>2, ListSame DEF SameMemory, SameList
<1> QED
    BY <1>1, <1>2, <1>4, <1>5, <1>6, <1>7, <1>8, RecordStep, NameFacts, DirFacts
       DEF SameMemory, SameList, SameVerdict, There

(* finish: the files of a capture that failed go, and the manifest says so. *)
LEMMA FinishInv == ASSUME Inv, Finish PROVE Inv'
<1>1. /\ TypeOK /\ DiskInv /\ t \in Memory /\ t.pc = "finish" /\ UNCHANGED <<doc, sick, exit>>
      /\ ~Failed(t.why) => Backed(Dir)
      /\ t.kind # "failed" /\ ~t.retry /\ (Dir = "out" => doc = NoManifest) /\ t.n \in Captures /\ t.n \in 0..MaxCaptures
      /\ t.written \subseteq {Dir} \X Data
      /\ \A f \in Data : There(<<Dir, f>>) => <<Dir, f>> \in t.written
    BY NumberFacts DEF Finish, Inv, TypeOK, At, MemoryInv, KindInv, DirInv, Copying, Running
<1>2. ASSUME t' \in Memory, t'.pc = "diagnostics", SameRun, SameList, t'.retry = t.retry, TypeOK', DiskInv',
             \A x \in Names \cup {"."} : disk'[<<"scratch", x>>] = disk[<<"scratch", x>>],
             disk'[<<Dir, ".">>] = disk[<<Dir, ".">>],
             \A f \in Data : disk'[<<Dir, f>>] = disk[<<Dir, f>>] \/ ~There(<<Dir, f>>)',
             \A d \in {"out", "id"}, x \in Names : d # Dir => disk'[<<d, x>>] = disk[<<d, x>>],
             Settled(Dir)', t'.m.by = t.n
      PROVE  Inv'
    <2>1. MemoryInv' /\ RecordInv'
        BY <1>1, <1>2 DEF MemoryInv, RecordInv, At, Opening, Recording, SameRun
    <2>2. t'.tracked = t.tracked /\ t'.written = t.written /\ t'.pc \in Recording
        BY <1>2 DEF SameList, Recording
    <2>3. /\ \A q : WillGo(q) => WillGo(q)'
          /\ t'.kind = "print_id" => t'.mark <= Len(t'.tracked) /\ \A j \in 1..t'.mark : t'.tracked[j] = IdNames[j]
        BY <1>1, <1>2, <2>2, ListSame
    <2> QED
        BY <1>1, <1>2, <2>1, <2>2, <2>3, RecordStep
<1>3. CASE Failed(t.why)
    <2>1. Unlink(t.written) /\ t' = [t EXCEPT !.m = FailedForm(t.m), !.pc = "diagnostics"]
        BY <1>3 DEF Finish
    <2> DEFINE m == FailedForm(t.m)
    <2>2. /\ m \in [by : 0..MaxCaptures, status : {"complete", "partial", "failed"}, sanitized : BOOLEAN,
                    leak_check : {"not_run", "passed", "failed"}, files : SUBSET Data, id : BOOLEAN]
          /\ m.status = "failed" /\ m.files = {} /\ m.id = FALSE /\ m.by = t.n
        BY <1>1 DEF FailedForm, Memory
    <2> HIDE DEF m
    <2>3. /\ t' \in Memory /\ t'.pc = "diagnostics" /\ SameRun /\ SameList /\ t'.retry = t.retry /\ t'.m = m /\ t'.why = t.why
        BY <1>1, <2>1, <2>2 DEF Memory, MainPcs, SameRun, SameList, m
    <2>4. disk' \in [Paths -> Content] /\ \A q \in Paths : disk'[q] = IF q \in t.written THEN Nothing ELSE disk[q]
        BY <1>1, <2>1, UnlinkFacts DEF TypeOK
    <2>5. /\ \A x \in Names \cup {"."} : disk'[<<"scratch", x>>] = disk[<<"scratch", x>>]
          /\ disk'[<<Dir, ".">>] = disk[<<Dir, ".">>]
          /\ \A d \in {"out", "id"}, x \in Names : d # Dir => disk'[<<d, x>>] = disk[<<d, x>>]
        BY <1>1, <2>4, PathFacts, DirFacts, NameFacts
    <2>6. \A f \in Data : disk'[<<Dir, f>>] = Nothing
        <3>1. \A f \in Data : <<Dir, f>> \in Paths
            BY PathFacts, DirFacts, NameFacts
        <3> QED
            BY <1>1, <2>4, <3>1 DEF There
    <2>7. Dir' = Dir
        BY <2>3 DEF SameRun, Dir
    <2>8. Settled(Dir)'
        BY <1>3, <2>2, <2>3, <2>6, <2>7 DEF Settled, DataGone, There, Failed, exit_for
    <2>9. TypeOK' /\ DiskInv'
        <3>1. {<<"out", "manifest.json">>, <<"out", ".">>} \cap t.written = {}
            BY <1>1, NameFacts
        <3>2. t'.n \in Nat /\ t.n <= t'.n
            BY <1>1, <2>3, NumberFacts DEF SameRun
        <3> QED
            BY <1>1, <2>1, <2>3, <2>4, <3>1, <3>2, DiskUnlink DEF TypeOK
    <2>10. \A f \in Data : disk'[<<Dir, f>>] = disk[<<Dir, f>>] \/ ~There(<<Dir, f>>)'
        BY <2>6, <2>7 DEF There
    <2> QED
        BY <1>2, <2>2, <2>3, <2>5, <2>8, <2>9, <2>10
<1>4. CASE ~Failed(t.why)
    <2> DEFINE m == [t.m EXCEPT !.by = t.n, !.status = Status(t.why)]
    <2>1. t' = [t EXCEPT !.m = m, !.pc = "diagnostics"] /\ disk' = disk
        BY <1>4 DEF Finish, Status
    <2>2. /\ m \in [by : 0..MaxCaptures, status : {"complete", "partial", "failed"}, sanitized : BOOLEAN,
                    leak_check : {"not_run", "passed", "failed"}, files : SUBSET Data, id : BOOLEAN]
          /\ m.status = Status(t.why) /\ m.files = t.m.files /\ m.id = t.m.id /\ m.by = t.n
          /\ m.sanitized = t.m.sanitized /\ m.leak_check = t.m.leak_check
        BY <1>1 DEF Memory, Status
    <2> HIDE DEF m
    <2>3. /\ t' \in Memory /\ t'.pc = "diagnostics" /\ SameRun /\ SameList /\ t'.retry = t.retry /\ t'.m = m /\ t'.why = t.why
        BY <1>1, <2>1, <2>2 DEF Memory, MainPcs, SameRun, SameList
    <2>4. Dir' = Dir /\ t'.n = t.n /\ t'.kind = t.kind
        BY <2>3 DEF SameRun, Dir
    <2>5. Backed(Dir)'
        BY <1>1, <1>4, <2>1, <2>2, <2>3, <2>4 DEF Backed, There
    <2>6. Status(t.why) # "failed" /\ Status(t.why)' = Status(t.why) /\ Failed(t.why)' = Failed(t.why)
        BY <2>3 DEF Status, Failed, exit_for
    <2>7. Settled(Dir)'
        BY <1>1, <1>4, <2>2, <2>3, <2>4, <2>5, <2>6 DEF Settled
    <2>8. TypeOK' /\ DiskInv'
        BY <1>1, <2>1, <2>3, <2>4 DEF TypeOK, DiskInv, There
    <2> QED
        BY <1>2, <2>1, <2>2, <2>3, <2>7, <2>8
<1> QED
    BY <1>3, <1>4


(* The record's three files go to the end of the list, the manifest last. *)
LEMMA RecordTrackedFacts ==
    ASSUME t \in Memory, t.kind # "failed"
    PROVE  /\ RecordTracked \in Seq(Paths) /\ Len(t.tracked) \in Nat /\ Len(RecordTracked) = Len(t.tracked) + 3
           /\ \A j \in 1..Len(t.tracked) : RecordTracked[j] = t.tracked[j]
           /\ RecordTracked[Len(RecordTracked)] = <<Dir, "manifest.json">> /\ RecordTracked # <<>>
<1> DEFINE r == [k \in 1..Len(Record) |-> <<Dir, Record[k]>>]
<1>1. r \in Seq(Paths) /\ Len(r) = 3 /\ r[3] = <<Dir, "manifest.json">>
    <2>1. \A k \in 1..3 : Record[k] \in Names
        <3>1. \A k \in 1..3 : k = 1 \/ k = 2 \/ k = 3
            OBVIOUS
        <3> QED
            BY <3>1, NameFacts
    <2>2. \A k \in 1..3 : <<Dir, Record[k]>> \in Paths
        BY <2>1, PathFacts, DirFacts
    <2>3. r \in [1..3 -> Paths]
        BY <2>2, NameFacts
    <2> QED
        BY <2>3, NameFacts
<1>2. RecordTracked = t.tracked \o r
    BY DEF RecordTracked
<1> HIDE DEF r
<1>3. t.tracked \in Seq(Paths) /\ Len(t.tracked) \in Nat
    BY MemoryFacts, ListFacts
<1>4. /\ t.tracked \o r \in Seq(Paths) /\ Len(t.tracked \o r) = Len(t.tracked) + Len(r)
      /\ \A j \in 1..(Len(t.tracked) + Len(r)) :
            (t.tracked \o r)[j] = IF j <= Len(t.tracked) THEN t.tracked[j] ELSE r[j - Len(t.tracked)]
    BY <1>1, <1>3, ConcatProperties
<1> DEFINE q == t.tracked \o r
           n == Len(t.tracked)
<1> HIDE DEF q, n
<1>5. /\ q \in Seq(Paths) /\ Len(q) = n + 3 /\ n \in Nat
      /\ \A j \in 1..(n + 3) : q[j] = IF j <= n THEN t.tracked[j] ELSE r[j - n]
    BY <1>1, <1>3, <1>4 DEF q, n
<1>6. /\ \A j \in 1..n : j \in 1..(n + 3) /\ j <= n
      /\ n + 3 \in 1..(n + 3) /\ ~(n + 3 <= n) /\ (n + 3) - n = 3 /\ n + 3 # 0
    BY <1>5
<1>7. q # <<>>
    BY <1>5, <1>6, ListFacts
<1> QED
    BY <1>1, <1>2, <1>3, <1>5, <1>6, <1>7 DEF q, n

(* Manifest and data files still agree after a step that touches neither. *)
LEMMA SettledKept ==
    ASSUME Settled(Dir), t \in Memory, t'.n = t.n, t'.kind = t.kind, t'.why = t.why, t'.retry = t.retry,
           t'.m.status = t.m.status, t'.m.files = t.m.files, t'.m.id = t.m.id, t'.m.sanitized = t.m.sanitized,
           t'.m.leak_check = t.m.leak_check, \A f \in Data : disk'[<<Dir, f>>] = disk[<<Dir, f>>]
    PROVE  Settled(Dir)' /\ Dir' = Dir
<1>1. Dir' = Dir /\ t.m.files \subseteq Data
    BY MemoryFacts DEF Dir
<1>2. Failed(t.why)' = Failed(t.why) /\ Status(t.why)' = Status(t.why)
    BY DEF Failed, exit_for, Status
<1>3. Backed(Dir) => Backed(Dir)'
    BY <1>1 DEF Backed, There
<1>4. DataGone(Dir) => DataGone(Dir)'
    BY <1>1 DEF DataGone, There
<1> QED
    BY <1>1, <1>2, <1>3, <1>4 DEF Settled

(* What is known while the record is written. *)
LEMMA RecordingFacts ==
    ASSUME Inv, t.pc \in Recording \cup {"unrecord"}
    PROVE  /\ TypeOK /\ DiskInv /\ t \in Memory /\ t.n \in Captures /\ Settled(Dir) /\ t.m.files \subseteq Data
           /\ t.kind = "failed" => t.m.status = "failed" /\ t.m.files = {} /\ ~t.m.id /\ t.tracked = <<>> /\ ~t.retry
           /\ t.retry => t.m.status = "failed" /\ "other" \in t.why
           /\ \A f \in Data : There(<<Dir, f>>) => <<Dir, f>> \in t.written
           /\ t.written \subseteq {Dir} \X Data /\ There(<<Dir, ".">>)
           /\ t.pc # "diagnostics" \/ t.kind # "failed" => t.m.by = t.n
<1>1. TypeOK /\ DiskInv /\ t \in Memory /\ t.n \in Captures /\ Settled(Dir) /\ t.m.files \subseteq Data
    BY MemoryFacts DEF Inv, TypeOK, KindInv, RecordInv, Running, At, Recording
<1>2. t.kind = "failed" => t.m.status = "failed" /\ t.m.files = {} /\ ~t.m.id /\ t.tracked = <<>> /\ ~t.retry
    BY <1>1 DEF Inv, KindInv, Settled, Running, At, Recording
<1>3. t.retry => t.m.status = "failed" /\ "other" \in t.why
    BY <1>1 DEF Inv, RecordInv, Settled, At
<1>4. /\ \A f \in Data : There(<<Dir, f>>) => <<Dir, f>> \in t.written
      /\ t.written \subseteq {Dir} \X Data /\ There(<<Dir, ".">>)
    BY DEF Inv, DirInv
<1>5. t.pc # "diagnostics" \/ t.kind # "failed" => t.m.by = t.n
    BY DEF Inv, RecordInv, At
<1> QED
    BY <1>1, <1>2, <1>3, <1>4, <1>5

(* A step that writes or removes files of the record other than the manifest. *)
LEMMA RecordFile ==
    ASSUME Inv, t.pc \in Recording, NEW x \in {"diagnostics.txt", "manifest.json.tmp"},
           (\E w \in BOOLEAN : Put(<<Dir, x>>, w)) \/ Unlink({<<Dir, x>>}),
           t' \in Memory, t'.n = t.n, UNCHANGED <<doc, sick, exit>>
    PROVE  /\ TypeOK' /\ DiskInv'
           /\ \A d \in Dirs, y \in Names \cup {"."} : <<d, y>> # <<Dir, x>> => disk'[<<d, y>>] = disk[<<d, y>>]
<1>1. /\ TypeOK /\ DiskInv /\ t.n \in Captures /\ There(<<Dir, ".">>) /\ x \in Names /\ <<Dir, x>> \in Paths
      /\ Dir \in Dirs /\ x # "other" /\ x # "manifest.json" /\ x # "."
    BY RecordingFacts, NameFacts, PathFacts, DirFacts
<1>2. ASSUME NEW w \in BOOLEAN, Put(<<Dir, x>>, w)
      PROVE  /\ TypeOK' /\ DiskInv'
             /\ \A q \in Paths : q # <<Dir, x>> => disk'[q] = disk[q]
    <2>1. disk' \in [Paths -> Content] /\ \A q \in Paths : q # <<Dir, x>> => disk'[q] = disk[q]
        BY <1>1, <1>2, PutFacts DEF TypeOK
    <2>2. DiskInv'
        BY <1>1, <1>2, DiskPut
    <2> QED
        BY <1>1, <2>1, <2>2 DEF TypeOK
<1>3. ASSUME Unlink({<<Dir, x>>})
      PROVE  /\ TypeOK' /\ DiskInv'
             /\ \A q \in Paths : q # <<Dir, x>> => disk'[q] = disk[q]
    <2>1. disk' \in [Paths -> Content] /\ \A q \in Paths : q # <<Dir, x>> => disk'[q] = disk[q]
        BY <1>1, <1>3, UnlinkFacts DEF TypeOK
    <2>2. <<"out", "manifest.json">> \notin {<<Dir, x>>} /\ <<"out", ".">> \notin {<<Dir, x>>}
        BY <1>1, PathFacts
    <2>3. t'.n \in Nat /\ t.n <= t'.n
        BY <1>1, NumberFacts
    <2>4. DiskInv'
        BY <1>1, <1>3, <2>2, <2>3, DiskUnlink
    <2> QED
        BY <1>1, <2>1, <2>4 DEF TypeOK
<1> QED
    BY <1>2, <1>3, PathFacts

(* diagnostics.txt, and the list that holds the record. *)
LEMMA WriteDiagnosticsInv == ASSUME Inv, WriteDiagnostics PROVE Inv'
<1>1. PICK ok \in BOOLEAN :
          /\ Put(<<Dir, "diagnostics.txt">>, ok)
          /\ t' = [t EXCEPT !.tracked = RecordTracked, !.pc = IF ok THEN "manifest" ELSE "recordfails",
                            !.m = IF t.kind = "failed" THEN FailedForm(@) ELSE @]
    BY DEF WriteDiagnostics
<1>2. t.pc = "diagnostics" /\ t.pc \in Recording /\ UNCHANGED <<doc, sick, exit>>
    BY DEF WriteDiagnostics, At, Recording
<1>3. /\ TypeOK /\ t \in Memory /\ t.n \in Captures /\ Settled(Dir) /\ t.n \in 0..MaxCaptures /\ t.m.files \subseteq Data
      /\ t.kind = "failed" => t.m.status = "failed" /\ t.m.files = {} /\ ~t.m.id /\ t.tracked = <<>> /\ ~t.retry
      /\ t.kind # "failed" => t.m.by = t.n
      /\ t.retry => "other" \in t.why
    BY <1>2, RecordingFacts, NumberFacts
<1>4. Dir = "out" => doc = NoManifest
    BY <1>2 DEF Inv, DirInv
<1> DEFINE m == IF t.kind = "failed" THEN FailedForm(t.m) ELSE t.m
           next == IF ok THEN "manifest" ELSE "recordfails"
<1>5. /\ m \in [by : 0..MaxCaptures, status : {"complete", "partial", "failed"}, sanitized : BOOLEAN,
                leak_check : {"not_run", "passed", "failed"}, files : SUBSET Data, id : BOOLEAN]
      /\ m.by = t.n /\ m.status = t.m.status /\ m.files = t.m.files /\ m.id = t.m.id
      /\ m.sanitized = t.m.sanitized /\ m.leak_check = t.m.leak_check
    <2>1. t.m \in [by : 0..MaxCaptures, status : {"complete", "partial", "failed"}, sanitized : BOOLEAN,
                leak_check : {"not_run", "passed", "failed"}, files : SUBSET Data, id : BOOLEAN]
        BY <1>3 DEF Memory
    <2>2. CASE t.kind = "failed"
        <3>1. t.m.id = FALSE
            BY <1>3, <2>1, <2>2
        <3>2. m = [t.m EXCEPT !.by = t.n, !.status = "failed", !.files = {}, !.id = FALSE]
            BY <2>2 DEF FailedForm
        <3> HIDE DEF m
        <3> QED
            BY <1>3, <2>1, <2>2, <3>1, <3>2
    <2>3. CASE t.kind # "failed"
        BY <1>3, <2>1, <2>3
    <2> QED
        BY <2>2, <2>3
<1>6. next \in MainPcs /\ RecordTracked \in Seq(Paths)
    BY <1>3, RecordTrackedFacts, MemoryFacts DEF RecordTracked, MainPcs
<1>7. t' = [t EXCEPT !.tracked = RecordTracked, !.pc = next, !.m = m]
    BY <1>1
<1> HIDE DEF m, next
<1>8. /\ t' \in Memory /\ t'.pc = next /\ SameRun /\ t'.written = t.written /\ t'.retry = t.retry /\ t'.why = t.why
      /\ t'.m = m /\ t'.tracked = RecordTracked
    BY <1>3, <1>5, <1>6, <1>7 DEF Memory, SameRun
<1>9. t'.pc \in {"manifest", "recordfails"} /\ t'.pc \in Recording /\ t'.n = t.n /\ t'.kind = t.kind
    BY <1>8 DEF next, Recording, SameRun
<1>10. /\ TypeOK' /\ DiskInv'
       /\ \A d \in Dirs, y \in Names \cup {"."} :
             <<d, y>> # <<Dir, "diagnostics.txt">> => disk'[<<d, y>>] = disk[<<d, y>>]
    BY <1>1, <1>2, <1>8, <1>9, RecordFile
<1>11. /\ disk'[<<Dir, ".">>] = disk[<<Dir, ".">>]
       /\ \A f \in Data : disk'[<<Dir, f>>] = disk[<<Dir, f>>]
       /\ \A x \in Names \cup {"."} : disk'[<<"scratch", x>>] = disk[<<"scratch", x>>]
       /\ \A d \in {"out", "id"}, x \in Names : d # Dir => disk'[<<d, x>>] = disk[<<d, x>>]
    BY <1>10, PathFacts, DirFacts, NameFacts
<1>12. Settled(Dir)' /\ Dir' = Dir
    BY <1>3, <1>5, <1>8, <1>9, <1>11, SettledKept
<1>13. MemoryInv' /\ RecordInv'
    BY <1>2, <1>3, <1>4, <1>5, <1>8, <1>9, <1>12 DEF MemoryInv, RecordInv, At, Opening, Recording
<1>14. /\ \A q : WillGo(q) => WillGo(q)'
       /\ t'.kind = "print_id" => t'.mark <= Len(t'.tracked) /\ \A j \in 1..t'.mark : t'.tracked[j] = IdNames[j]
       /\ t.kind # "failed" => t'.tracked # <<>> /\ t'.tracked[Len(t'.tracked)] = <<Dir, "manifest.json">>
       /\ t'.tracked = t.tracked \/ (t.kind # "failed" /\ t'.tracked = RecordTracked)
    <2>1. CASE t.kind = "failed"
        <3>1. t'.tracked = t.tracked
            BY <1>8, <2>1 DEF RecordTracked
        <3> QED
            BY <1>2, <1>8, <1>9, <2>1, <3>1, ListSame
    <2>2. CASE t.kind # "failed"
        <3>1. /\ Len(t.tracked) \in Nat /\ Len(t'.tracked) = Len(t.tracked) + 3
              /\ \A j \in 1..Len(t.tracked) : t'.tracked[j] = t.tracked[j]
              /\ t'.tracked # <<>> /\ t'.tracked[Len(t'.tracked)] = <<Dir, "manifest.json">>
            BY <1>3, <1>8, <2>2, RecordTrackedFacts
        <3>2. \A j \in 1..Len(t.tracked) : j \in 1..Len(t'.tracked)
            BY <3>1
        <3>3. /\ \A q : WillGo(q) <=> \E j \in 1..Len(t.tracked) : t.tracked[j] = q
              /\ \A q : WillGo(q)' <=> \E j \in 1..Len(t'.tracked) : t'.tracked[j] = q
            BY <1>2, <1>9 DEF WillGo, At
        <3>4. \A q : WillGo(q) => WillGo(q)'
            BY <3>1, <3>2, <3>3
        <3>5. t.kind = "print_id" => t.mark = Len(IdNames) /\ t.mark <= Len(t.tracked) /\ \A j \in 1..t.mark : t.tracked[j] = IdNames[j]
            BY <1>2 DEF Inv, KindInv, Running, At
        <3>6. t'.kind = "print_id" => t'.mark <= Len(t'.tracked) /\ \A j \in 1..t'.mark : t'.tracked[j] = IdNames[j]
            <4> SUFFICES ASSUME t.kind = "print_id"
                         PROVE  t.mark <= Len(t'.tracked) /\ \A j \in 1..t.mark : t'.tracked[j] = IdNames[j]
                BY <1>8, <1>9 DEF SameRun
            <4>1. t.mark \in Nat /\ t.mark <= Len(t.tracked)
                BY <1>3, <3>5, MemoryFacts
            <4>2. t.mark <= Len(t'.tracked) /\ \A j \in 1..t.mark : j \in 1..Len(t.tracked)
                BY <3>1, <4>1
            <4> QED
                BY <3>1, <3>5, <4>2
        <3> QED
            BY <1>8, <2>2, <3>1, <3>4, <3>6
    <2> QED
        BY <2>1, <2>2
<1> QED
    BY <1>2, <1>3, <1>4, <1>8, <1>9, <1>10, <1>11, <1>13, <1>14, RecordStep, DirFacts

(* The temporary manifest. *)
LEMMA WriteTmpInv == ASSUME Inv, WriteTmp PROVE Inv'
<1>1. t.pc = "manifest" /\ t.pc \in Recording /\ UNCHANGED <<doc, sick, exit>> /\ (Dir = "out" => doc = NoManifest)
    BY DEF WriteTmp, At, Recording, Inv, DirInv
<1>2. TypeOK /\ t \in Memory /\ Settled(Dir) /\ t.m.by = t.n /\ (t.kind = "failed" => ~t.retry)
      /\ (t.retry => "other" \in t.why)
    BY <1>1, RecordingFacts
<1>3. PICK next \in {"rename", "recordfails"} :
          /\ (\E w \in BOOLEAN : Put(<<Dir, "manifest.json.tmp">>, w)) \/ Unlink({<<Dir, "manifest.json.tmp">>})
          /\ Goto(next)
    BY DEF WriteTmp
<1>4. SameMemory /\ t' \in Memory /\ t'.pc = next
    BY <1>2, <1>3 DEF Goto, Memory, MainPcs, SameMemory, SameRun, SameList, SameFiles, SameVerdict
<1>5. SameRun /\ t'.n = t.n /\ t'.kind = t.kind /\ t'.why = t.why /\ t'.retry = t.retry /\ t'.m = t.m /\ t'.tracked = t.tracked
      /\ t'.written = t.written /\ t'.pc \in Recording
    BY <1>4 DEF SameMemory, SameRun, SameVerdict, SameList, Recording
<1>6. /\ TypeOK' /\ DiskInv'
      /\ \A d \in Dirs, y \in Names \cup {"."} :
             <<d, y>> # <<Dir, "manifest.json.tmp">> => disk'[<<d, y>>] = disk[<<d, y>>]
    BY <1>1, <1>3, <1>4, <1>5, RecordFile
<1>7. /\ disk'[<<Dir, ".">>] = disk[<<Dir, ".">>]
      /\ \A f \in Data : disk'[<<Dir, f>>] = disk[<<Dir, f>>]
      /\ \A x \in Names \cup {"."} : disk'[<<"scratch", x>>] = disk[<<"scratch", x>>]
      /\ \A d \in {"out", "id"}, x \in Names : d # Dir => disk'[<<d, x>>] = disk[<<d, x>>]
    BY <1>6, PathFacts, DirFacts, NameFacts
<1>8. Settled(Dir)' /\ Dir' = Dir
    BY <1>2, <1>5, <1>7, SettledKept
<1>9. MemoryInv' /\ RecordInv'
    BY <1>1, <1>2, <1>4, <1>5, <1>8 DEF MemoryInv, RecordInv, At, Opening, Recording
<1>10. /\ \A q : WillGo(q) => WillGo(q)'
       /\ t'.kind = "print_id" => t'.mark <= Len(t'.tracked) /\ \A j \in 1..t'.mark : t'.tracked[j] = IdNames[j]
       /\ t.kind # "failed" => t'.tracked # <<>> /\ t'.tracked[Len(t'.tracked)] = <<Dir, "manifest.json">>
    BY <1>1, <1>5, ListSame
<1> QED
    BY <1>1, <1>2, <1>4, <1>5, <1>6, <1>7, <1>9, <1>10, RecordStep, DirFacts


(* The rename: what readers find is what the tool holds in memory. *)
LEMMA RenameInv == ASSUME Inv, Rename PROVE Inv'
<1>1. t.pc = "rename" /\ t.pc \in Recording /\ UNCHANGED <<sick, exit>> /\ (Dir = "out" => doc = NoManifest)
    BY DEF Rename, At, Recording, Inv, DirInv
<1>2. TypeOK /\ DiskInv /\ t \in Memory /\ t.n \in Captures /\ Settled(Dir) /\ t.m.by = t.n /\ (t.kind = "failed" => ~t.retry)
      /\ (t.retry => "other" \in t.why) /\ There(<<Dir, ".">>)
    BY <1>1, RecordingFacts
<1>3. ASSUME NEW next \in {"sync", "recordfails"}, Goto(next), TypeOK', DiskInv',
             next = "sync" /\ Dir = "out" => doc' = t.m, next = "recordfails" \/ Dir # "out" => doc' = doc,
             \A d \in Dirs, y \in Names \cup {"."} :
                <<d, y>> # <<Dir, "manifest.json.tmp">> /\ <<d, y>> # <<Dir, "manifest.json">> => disk'[<<d, y>>] = disk[<<d, y>>]
      PROVE  Inv'
    <2>1. SameMemory /\ t' \in Memory /\ t'.pc = next
        BY <1>2, <1>3 DEF Goto, Memory, MainPcs, SameMemory, SameRun, SameList, SameFiles, SameVerdict
    <2>2. SameRun /\ t'.n = t.n /\ t'.kind = t.kind /\ t'.why = t.why /\ t'.retry = t.retry /\ t'.m = t.m /\ t'.tracked = t.tracked
          /\ t'.written = t.written /\ t'.pc \in Recording
        BY <2>1 DEF SameMemory, SameRun, SameVerdict, SameList, Recording
    <2>3. /\ disk'[<<Dir, ".">>] = disk[<<Dir, ".">>]
          /\ \A f \in Data : disk'[<<Dir, f>>] = disk[<<Dir, f>>]
          /\ \A x \in Names \cup {"."} : disk'[<<"scratch", x>>] = disk[<<"scratch", x>>]
          /\ \A d \in {"out", "id"}, x \in Names : d # Dir => disk'[<<d, x>>] = disk[<<d, x>>]
        BY <1>3, PathFacts, DirFacts, NameFacts
    <2>4. Settled(Dir)' /\ Dir' = Dir
        BY <1>2, <2>2, <2>3, SettledKept
    <2>5. MemoryInv' /\ RecordInv'
        BY <1>1, <1>2, <1>3, <2>1, <2>2, <2>4 DEF MemoryInv, RecordInv, At, Opening, Recording
    <2>6. /\ \A q : WillGo(q) => WillGo(q)'
          /\ t'.kind = "print_id" => t'.mark <= Len(t'.tracked) /\ \A j \in 1..t'.mark : t'.tracked[j] = IdNames[j]
          /\ t.kind # "failed" => t'.tracked # <<>> /\ t'.tracked[Len(t'.tracked)] = <<Dir, "manifest.json">>
        BY <1>1, <2>2, ListSame
    <2> QED
        BY <1>1, <1>2, <1>3, <2>1, <2>2, <2>3, <2>5, <2>6, RecordStep, DirFacts
<1>4. CASE Unlink({<<Dir, "manifest.json.tmp">>}) /\ Goto("recordfails") /\ doc' = doc
    <2>1. t' \in Memory /\ t'.n = t.n
        BY <1>2, <1>4 DEF Goto, Memory, MainPcs
    <2>2. /\ TypeOK' /\ DiskInv'
          /\ \A d \in Dirs, y \in Names \cup {"."} :
                <<d, y>> # <<Dir, "manifest.json.tmp">> => disk'[<<d, y>>] = disk[<<d, y>>]
        BY <1>1, <1>4, <2>1, RecordFile
    <2> QED
        BY <1>3, <1>4, <2>2
<1>5. CASE /\ disk' = [disk EXCEPT ![<<Dir, "manifest.json.tmp">>] = Nothing,
                                   ![<<Dir, "manifest.json">>] = [by |-> t.n, whole |-> TRUE]]
           /\ doc' = IF Dir = "out" THEN t.m ELSE doc
           /\ Goto("sync")
    <2> DEFINE tmp == <<Dir, "manifest.json.tmp">>
               man == <<Dir, "manifest.json">>
               c == [by |-> t.n, whole |-> TRUE]
    <2>1. tmp \in Paths /\ man \in Paths /\ tmp # man
        BY PathFacts, DirFacts, NameFacts
    <2>2. c \in Content /\ c # Nothing /\ c.by = t.n /\ Nothing \in Content /\ Nothing.by = 0
        BY <1>2, ContentFacts
    <2>3. disk' = [disk EXCEPT ![tmp] = Nothing, ![man] = c]
        BY <1>5
    <2> HIDE DEF tmp, man, c
    <2>4. /\ disk' \in [Paths -> Content] /\ disk'[man] = c /\ disk'[tmp] = Nothing
          /\ \A q \in Paths : q # tmp /\ q # man => disk'[q] = disk[q]
        BY <1>2, <2>1, <2>2, <2>3 DEF TypeOK
    <2>5. t' \in Memory /\ t'.n = t.n
        BY <1>2, <1>5 DEF Goto, Memory, MainPcs
    <2>6. doc' \in Promise!Manifest \cup {NoManifest} /\ (Dir = "out" => doc' \in Promise!Manifest)
        BY <1>2, <1>5, ManifestFacts DEF TypeOK
    <2>7. TypeOK'
        BY <1>1, <1>2, <2>4, <2>5, <2>6 DEF TypeOK
    <2>8. DiskInv'
        <3>1. \A p \in Paths : disk'[p].by \in (0..t'.n) \cup {User}
            <4>1. t.n \in 0..t'.n /\ 0 \in 0..t'.n
                BY <1>2, <2>5, NumberFacts
            <4> QED
                BY <1>2, <2>2, <2>4, <2>5, <4>1 DEF DiskInv
        <3>2. (doc' # NoManifest) <=> disk'[<<"out", "manifest.json">>] # Nothing
            <4>1. CASE Dir = "out"
                BY <2>2, <2>4, <2>6, <4>1, NoManifestFacts DEF man
            <4>2. CASE Dir # "out"
                <5>1. <<"out", "manifest.json">> \in Paths /\ <<"out", "manifest.json">> # tmp /\ <<"out", "manifest.json">> # man
                    BY <4>2, PathFacts, NameFacts DEF tmp, man
                <5> QED
                    BY <1>2, <1>5, <2>4, <4>2, <5>1 DEF DiskInv, There
            <4> QED
                BY <4>1, <4>2
        <3>3. doc'.by \in 0..t'.n /\ (doc'.status = "failed" => doc'.files = {} /\ ~doc'.id)
            <4>1. t.m.status = "failed" => t.m.files = {} /\ ~t.m.id
                BY <1>2 DEF Settled
            <4>2. t.n \in 0..t'.n
                BY <1>2, <2>5, NumberFacts
            <4> QED
                BY <1>2, <1>5, <2>5, <4>1, <4>2 DEF DiskInv
        <3>4. /\ disk'[<<"out", "other">>] = disk[<<"out", "other">>] /\ disk'[<<"id", "other">>] = disk[<<"id", "other">>]
              /\ disk'[<<"scratch", "other">>] = disk[<<"scratch", "other">>]
              /\ disk'[<<"out", ".">>] = disk[<<"out", ".">>]
            BY <2>4, PathFacts, NameFacts DEF tmp, man
        <3>5. ASSUME NEW x \in Names, disk'[<<"out", x>>] # Nothing PROVE disk'[<<"out", ".">>] # Nothing
            <4>1. CASE Dir = "out"
                BY <1>2, <3>4, <4>1 DEF There
            <4>2. CASE Dir # "out"
                <5>1. <<"out", x>> \in Paths /\ <<"out", x>> # tmp /\ <<"out", x>> # man
                    BY <4>2, PathFacts DEF tmp, man
                <5> QED
                    BY <1>2, <2>4, <3>4, <3>5, <5>1 DEF DiskInv, There
            <4> QED
                BY <4>1, <4>2
        <3> QED
            BY <1>2, <3>1, <3>2, <3>3, <3>4, <3>5 DEF DiskInv, There
    <2>9. \A d \in Dirs, y \in Names \cup {"."} : <<d, y>> # tmp /\ <<d, y>> # man => disk'[<<d, y>>] = disk[<<d, y>>]
        BY <2>4, PathFacts
    <2> QED
        BY <1>3, <1>5, <2>7, <2>8, <2>9 DEF tmp, man
<1> QED
    BY <1>4, <1>5 DEF Rename

(* A step out of the record. *)
LEMMA ReturnStep ==
    ASSUME Inv, t.pc \in {"unrecord"} \cup Recording, t' \in Memory, t'.pc = "return",
           SameRun, t'.written = t.written, UNCHANGED <<sick, exit>>,
           t.kind = "failed" => t'.tracked = <<>> /\ ~t'.retry,
           t.kind = "print_id" => t'.mark <= Len(t'.tracked) /\ \A j \in 1..t'.mark : t'.tracked[j] = IdNames[j],
           \A d \in Dirs, f \in Data : disk'[<<d, f>>] = disk[<<d, f>>],
           \A x \in Names \cup {"."} : disk'[<<"scratch", x>>] = disk[<<"scratch", x>>],
           Dir = "id" => doc' = doc /\ \A x \in Names : disk'[<<"out", x>>] = disk[<<"out", x>>],
           TypeOK', DiskInv', RecordInv'
    PROVE  Inv'
<1>1. /\ Running /\ t.n \in Captures /\ t'.n = t.n /\ t'.kind = t.kind /\ Dir \in {"out", "id"}
      /\ t'.mark = t.mark /\ t \in Memory /\ (Dir = "out" <=> t.kind # "print_id")
    BY MemoryFacts, DirFacts DEF Inv, TypeOK, KindInv, Running, At, Recording, SameRun
<1>2. SickInv'
    <2>1. \A d \in {"out", "id"}, f \in Data : disk'[<<d, f>>].by \in {0, disk[<<d, f>>].by}
        BY DirFacts DEF Dirs
    <2>2. NothingUnchecked'
        BY <1>1, <2>1, SickKept DEF Inv
    <2> QED
        BY <1>1, <2>2 DEF SickInv
<1>3. KindInv'
    <2>1. /\ t.kind = "failed" => t.written = {}
          /\ t.kind # "print_id" => t.mark = 0
          /\ t.kind = "print_id" => t.mark = Len(IdNames)
        BY <1>1 DEF Inv, KindInv, Recording
    <2> QED
        BY <1>1, <2>1 DEF KindInv, Running, At, Opening, Staging, Copying
<1>4. DirInv' /\ MemoryInv'
    <2>1. t.kind = "print_id" => Untouched
        BY <1>1 DEF Inv, DirInv
    <2>2. t.kind = "print_id" => Untouched'
        BY <1>1, <2>1 DEF Untouched
    <2> QED
        BY <1>1, <2>2 DEF DirInv, MemoryInv, At, Opening, Staging, Copying, Recording
<1>5. TrackInv'
    <2>1. \A x \in Names \cup {"."} : ~There(<<"scratch", x>>)
        BY <1>1 DEF Inv, TrackInv, ScratchInUse, At, Recording
    <2> QED
        BY <2>1 DEF TrackInv, At, ScratchInUse, Copying, Recording, There
<1>6. IdInv'
    BY DEF IdInv, At
<1> QED
    BY <1>2, <1>3, <1>4, <1>5, <1>6, NotOver DEF Inv

(* The directory is synced, or it is not. *)
LEMMA SyncDirInv == ASSUME Inv, SyncDir PROVE Inv'
<1>1. t.pc = "sync" /\ t.pc \in Recording /\ UNCHANGED <<disk, doc, sick, exit>> /\ (Dir = "out" => doc = t.m)
    BY DEF SyncDir, At, Recording, Inv, RecordInv
<1>2. TypeOK /\ DiskInv /\ t \in Memory /\ t.n \in Captures /\ Settled(Dir) /\ t.m.by = t.n
      /\ (t.kind = "failed" => ~t.retry /\ t.tracked = <<>> /\ t.m.status = "failed")
      /\ (t.retry => t.m.status = "failed" /\ "other" \in t.why)
    BY <1>1, RecordingFacts
<1>3. PICK next \in {"return", "release", "recordfails"} :
          /\ Goto(next)
          /\ next = "return" => t.kind = "failed" \/ t.retry
          /\ next = "release" => t.kind # "failed" /\ ~t.retry
    BY DEF SyncDir
<1>4. SameMemory /\ t' \in Memory /\ t'.pc = next
    BY <1>2, <1>3 DEF Goto, Memory, MainPcs, SameMemory, SameRun, SameList, SameFiles, SameVerdict
<1>5. SameRun /\ t'.n = t.n /\ t'.kind = t.kind /\ t'.why = t.why /\ t'.retry = t.retry /\ t'.m = t.m /\ t'.tracked = t.tracked
      /\ t'.written = t.written /\ t'.mark = t.mark
    BY <1>4 DEF SameMemory, SameRun, SameVerdict, SameList
<1>6. TypeOK' /\ DiskInv' /\ \A q : There(q)' <=> There(q)
    BY <1>1, <1>4, <1>5, Quiet
<1>7. Settled(Dir)' /\ Dir' = Dir
    BY <1>1, <1>2, <1>5, SettledKept
<1>8. CASE next = "return"
    <2>1. t.kind # "print_id" => Dir = "out"
        BY DirFacts
    <2>2. RecordInv'
        BY <1>1, <1>2, <1>3, <1>4, <1>5, <1>7, <1>8, <2>1 DEF RecordInv, At, Recording
    <2>3. t.kind = "print_id" => t.mark <= Len(t.tracked) /\ \A j \in 1..t.mark : t.tracked[j] = IdNames[j]
        BY <1>1 DEF Inv, KindInv, Running, At
    <2> QED
        BY <1>1, <1>2, <1>4, <1>5, <1>6, <1>8, <2>2, <2>3, ReturnStep
<1>9. CASE next # "return"
    <2>1. t'.pc \in Recording
        BY <1>4, <1>9 DEF Recording
    <2>2. MemoryInv' /\ RecordInv'
        BY <1>1, <1>2, <1>3, <1>4, <1>5, <1>7, <1>9 DEF MemoryInv, RecordInv, At, Opening, Recording
    <2>3. /\ \A q : WillGo(q) => WillGo(q)'
          /\ t'.kind = "print_id" => t'.mark <= Len(t'.tracked) /\ \A j \in 1..t'.mark : t'.tracked[j] = IdNames[j]
          /\ t.kind # "failed" => t'.tracked # <<>> /\ t'.tracked[Len(t'.tracked)] = <<Dir, "manifest.json">>
        BY <1>1, <1>5, <2>1, ListSame
    <2> QED
        BY <1>1, <1>2, <1>3, <1>4, <1>5, <1>6, <1>9, <2>1, <2>2, <2>3, RecordStep, DirFacts
<1> QED
    BY <1>8, <1>9


(* A list cut back to its mark: --print-id's names, or nothing. *)
LEMMA CutFacts ==
    ASSUME Inv, Running, t.pc \notin {"discover", "mkid", "trackid", "handler"}
    PROVE  /\ SubSeq(t.tracked, 1, t.mark) \in Seq(Paths)
           /\ t.kind # "print_id" => SubSeq(t.tracked, 1, t.mark) = <<>>
           /\ t.kind = "print_id" =>
                 /\ t.mark = Len(IdNames) /\ t.mark <= Len(SubSeq(t.tracked, 1, t.mark))
                 /\ \A j \in 1..t.mark : SubSeq(t.tracked, 1, t.mark)[j] = IdNames[j]
<1>1. t.tracked \in Seq(Paths) /\ Len(t.tracked) \in Nat /\ t.mark \in Nat
    BY MemoryFacts, ListFacts DEF Inv, TypeOK
<1>2. /\ t.kind # "print_id" => t.mark = 0
      /\ t.kind = "print_id" => /\ t.mark = Len(IdNames) /\ t.mark <= Len(t.tracked)
                                /\ \A j \in 1..t.mark : t.tracked[j] = IdNames[j]
    BY DEF Inv, KindInv
<1>3. t.mark \in 0..Len(t.tracked)
    BY <1>1, <1>2
<1> DEFINE s == SubSeq(t.tracked, 1, t.mark)
<1>4. s \in Seq(Paths) /\ Len(s) = t.mark /\ \A j \in 1..t.mark : s[j] = t.tracked[j]
    BY <1>1, <1>3, ListFacts
<1> HIDE DEF s
<1>5. t.mark = 0 => s = <<>>
    BY <1>4, ListFacts
<1>6. t.mark <= Len(s)
    BY <1>1, <1>4
<1> QED
    BY <1>2, <1>4, <1>5, <1>6 DEF s

(* The published capture is taken off the list. *)
LEMMA ReleaseInv == ASSUME Inv, Release PROVE Inv'
<1>1. /\ t.pc = "release" /\ t.pc \in Recording /\ Running /\ UNCHANGED <<disk, doc, sick, exit>> /\ (Dir = "out" => doc = t.m)
      /\ t.kind # "failed" /\ ~t.retry /\ t' = [t EXCEPT !.tracked = SubSeq(t.tracked, 1, t.mark), !.pc = "return"]
    BY DEF Release, At, Recording, Inv, RecordInv, Running
<1>2. TypeOK /\ DiskInv /\ t \in Memory /\ t.n \in Captures /\ Settled(Dir) /\ t.m.by = t.n
    BY <1>1, RecordingFacts
<1> DEFINE s == SubSeq(t.tracked, 1, t.mark)
<1>3. /\ s \in Seq(Paths) /\ (t.kind # "print_id" => s = <<>>)
      /\ t.kind = "print_id" => t.mark <= Len(s) /\ \A j \in 1..t.mark : s[j] = IdNames[j]
    BY <1>1, CutFacts
<1> HIDE DEF s
<1>4. /\ t' \in Memory /\ t'.pc = "return" /\ SameRun /\ SameVerdict /\ t'.tracked = s /\ t'.written = t.written
    BY <1>1, <1>2, <1>3 DEF Memory, MainPcs, SameRun, SameVerdict, s
<1>5. t'.n = t.n /\ t'.kind = t.kind /\ t'.why = t.why /\ t'.retry = t.retry /\ t'.m = t.m /\ t'.mark = t.mark
    BY <1>4 DEF SameRun, SameVerdict
<1>6. TypeOK' /\ DiskInv'
    BY <1>1, <1>4, <1>5, Quiet
<1>7. Settled(Dir)' /\ Dir' = Dir
    BY <1>1, <1>2, <1>5, SettledKept
<1>8. t.kind # "print_id" => Dir = "out"
    BY DirFacts
<1>9. RecordInv'
    BY <1>1, <1>2, <1>3, <1>4, <1>5, <1>7, <1>8 DEF RecordInv, At, Recording
<1> QED
    BY <1>1, <1>3, <1>4, <1>5, <1>6, <1>9, ReturnStep

(* A record that could not be written: its data files go first. *)
LEMMA RecordFailsInv == ASSUME Inv, RecordFails PROVE Inv'
<1>1. /\ t.pc = "recordfails" /\ t.pc \in Recording /\ Running /\ UNCHANGED <<doc, sick, exit>>
      /\ (Dir = "out" => doc \in {t.m, NoManifest})
    BY DEF RecordFails, At, Recording, Inv, RecordInv, Running
<1>2. /\ TypeOK /\ DiskInv /\ t \in Memory /\ t.n \in Captures /\ t.n \in 0..MaxCaptures /\ Settled(Dir) /\ t.m.by = t.n
      /\ t.kind = "failed" => ~t.retry /\ t.tracked = <<>> /\ t.m.status = "failed"
      /\ t.retry => t.m.status = "failed" /\ "other" \in t.why
      /\ \A f \in Data : There(<<Dir, f>>) => <<Dir, f>> \in t.written
      /\ t.written \subseteq {Dir} \X Data
    BY <1>1, RecordingFacts, NumberFacts
<1>3. CASE t.kind = "failed" /\ Goto("return") /\ disk' = disk
    <2>1. SameMemory /\ t' \in Memory /\ t'.pc = "return"
        BY <1>2, <1>3 DEF Goto, Memory, MainPcs, SameMemory, SameRun, SameList, SameFiles, SameVerdict
    <2>2. SameRun /\ t'.n = t.n /\ t'.kind = t.kind /\ t'.why = t.why /\ t'.retry = t.retry /\ t'.m = t.m /\ t'.tracked = t.tracked
          /\ t'.written = t.written /\ t'.mark = t.mark
        BY <2>1 DEF SameMemory, SameRun, SameVerdict, SameList
    <2>3. TypeOK' /\ DiskInv'
        BY <1>1, <1>3, <2>1, <2>2, Quiet
    <2>4. Settled(Dir)' /\ Dir' = Dir /\ Dir = "out"
        BY <1>2, <1>3, <2>2, SettledKept, DirFacts
    <2>5. RecordInv'
        BY <1>1, <1>2, <1>3, <2>1, <2>2, <2>4, NoManifestFacts DEF RecordInv, At, Recording
    <2> QED
        BY <1>1, <1>2, <1>3, <2>1, <2>2, <2>3, <2>4, <2>5, ReturnStep
<1>4. ASSUME t.kind # "failed", t' \in Memory, t'.pc = "unrecord", SameRun, SameList,
             \A d \in Dirs, y \in Names \cup {"."} : <<d, y>> \notin t.written => disk'[<<d, y>>] = disk[<<d, y>>],
             \A f \in Data : disk'[<<Dir, f>>] = disk[<<Dir, f>>] \/ ~There(<<Dir, f>>)',
             TypeOK', DiskInv', t'.m.status = "failed", t'.m.by = t.n, "other" \in t'.why, Settled(Dir)'
      PROVE  Inv'
    <2>1. MemoryInv' /\ RecordInv'
        BY <1>4 DEF MemoryInv, RecordInv, At, Opening, Recording, SameRun
    <2>2. t'.tracked = t.tracked /\ t'.written = t.written
        BY <1>4 DEF SameList
    <2>3. /\ disk'[<<Dir, ".">>] = disk[<<Dir, ".">>]
          /\ \A x \in Names \cup {"."} : disk'[<<"scratch", x>>] = disk[<<"scratch", x>>]
          /\ \A d \in {"out", "id"}, x \in Names : d # Dir => disk'[<<d, x>>] = disk[<<d, x>>]
        BY <1>2, <1>4, DirFacts, NameFacts, PathFacts
    <2>4. /\ \A q : WillGo(q) => WillGo(q)'
          /\ t'.kind = "print_id" => t'.mark <= Len(t'.tracked) /\ \A j \in 1..t'.mark : t'.tracked[j] = IdNames[j]
          /\ t'.tracked # <<>> /\ t'.tracked[Len(t'.tracked)] = <<Dir, "manifest.json">>
        BY <1>1, <1>4, <2>2, ListSame
    <2> QED
        BY <1>1, <1>2, <1>4, <2>1, <2>2, <2>3, <2>4, RecordStep, DirFacts
<1>5. CASE t.kind # "failed" /\ t.retry /\ Goto("unrecord") /\ disk' = disk
    <2>1. SameMemory /\ t' \in Memory /\ t'.pc = "unrecord"
        BY <1>2, <1>5 DEF Goto, Memory, MainPcs, SameMemory, SameRun, SameList, SameFiles, SameVerdict
    <2>2. SameRun /\ SameList /\ t'.n = t.n /\ t'.kind = t.kind /\ t'.why = t.why /\ t'.retry = t.retry /\ t'.m = t.m
        BY <2>1 DEF SameMemory, SameRun, SameVerdict
    <2>3. TypeOK' /\ DiskInv'
        BY <1>1, <1>5, <2>1, <2>2, Quiet
    <2>4. Settled(Dir)' /\ Dir' = Dir
        BY <1>2, <1>5, <2>2, SettledKept
    <2> QED
        BY <1>2, <1>4, <1>5, <2>1, <2>2, <2>3, <2>4
<1>6. CASE /\ t.kind # "failed" /\ ~t.retry /\ Unlink(t.written)
           /\ t' = [t EXCEPT !.why = t.why \cup {"other"}, !.m = FailedForm(t.m), !.pc = "unrecord"]
    <2> DEFINE m == FailedForm(t.m)
               why == t.why \cup {"other"}
    <2>1. /\ m \in [by : 0..MaxCaptures, status : {"complete", "partial", "failed"}, sanitized : BOOLEAN,
                    leak_check : {"not_run", "passed", "failed"}, files : SUBSET Data, id : BOOLEAN]
          /\ m.status = "failed" /\ m.files = {} /\ m.id = FALSE /\ m.by = t.n
        BY <1>2 DEF FailedForm, Memory
    <2>2. why \subseteq {"leak_or_schema", "other", "partial"} /\ "other" \in why
        BY <1>2, MemoryFacts
    <2> HIDE DEF m, why
    <2>3. t' \in Memory /\ t'.pc = "unrecord" /\ SameRun /\ SameList /\ t'.m = m /\ t'.why = why
        BY <1>2, <1>6, <2>1, <2>2 DEF Memory, MainPcs, SameRun, SameList, m, why
    <2>4. disk' \in [Paths -> Content] /\ \A q \in Paths : disk'[q] = IF q \in t.written THEN Nothing ELSE disk[q]
        BY <1>2, <1>6, UnlinkFacts DEF TypeOK
    <2>5. \A d \in Dirs, y \in Names \cup {"."} : <<d, y>> \notin t.written => disk'[<<d, y>>] = disk[<<d, y>>]
        BY <2>4, PathFacts
    <2>6. \A f \in Data : disk'[<<Dir, f>>] = Nothing
        <3>1. \A f \in Data : <<Dir, f>> \in Paths
            BY PathFacts, DirFacts, NameFacts
        <3> QED
            BY <1>2, <2>4, <3>1 DEF There
    <2>7. Dir' = Dir
        BY <2>3 DEF SameRun, Dir
    <2>8. Settled(Dir)'
        BY <2>1, <2>2, <2>3, <2>6, <2>7, FailedFacts DEF Settled, DataGone, There
    <2>9. TypeOK' /\ DiskInv'
        <3>1. {<<"out", "manifest.json">>, <<"out", ".">>} \cap t.written = {}
            BY <1>2, NameFacts
        <3>2. t'.n \in Nat /\ t.n <= t'.n
            BY <1>2, <2>3, NumberFacts DEF SameRun
        <3> QED
            BY <1>1, <1>2, <1>6, <2>3, <2>4, <3>1, <3>2, DiskUnlink DEF TypeOK
    <2>10. \A f \in Data : disk'[<<Dir, f>>] = disk[<<Dir, f>>] \/ ~There(<<Dir, f>>)'
        BY <2>6, <2>7 DEF There
    <2> QED
        BY <1>4, <1>6, <2>1, <2>2, <2>3, <2>5, <2>8, <2>9, <2>10
<1> QED
    BY <1>3, <1>5, <1>6 DEF RecordFails

(* remove_record: nothing of the record is left, and it is tried once more. *)
LEMMA RemoveRecordInv == ASSUME Inv, RemoveRecord PROVE Inv'
<1> DEFINE ps == {<<Dir, Record[k]>> : k \in 1..Len(Record)}
           next == IF t.retry THEN "return" ELSE "diagnostics"
<1>1. /\ t.pc = "unrecord" /\ Running /\ UNCHANGED <<sick, exit>> /\ Unlink(ps)
      /\ doc' = (IF Dir = "out" THEN NoManifest ELSE doc)
      /\ t' = [t EXCEPT !.retry = TRUE, !.pc = next]
      /\ t.kind # "failed" /\ t.m.status = "failed" /\ "other" \in t.why
    BY DEF RemoveRecord, At, Inv, RecordInv, Running
<1>2. /\ TypeOK /\ DiskInv /\ t \in Memory /\ t.n \in Captures /\ Settled(Dir) /\ t.m.by = t.n
    BY <1>1, RecordingFacts
<1>3. ps = {<<Dir, "diagnostics.txt">>, <<Dir, "manifest.json.tmp">>, <<Dir, "manifest.json">>}
    <2>1. 1..3 = {1, 2, 3}
        OBVIOUS
    <2> QED
        BY <2>1, NameFacts
<1> HIDE DEF ps, next
<1>4. next \in {"return", "diagnostics"} /\ next \in MainPcs
    BY DEF next, MainPcs
<1>5. /\ t' \in Memory /\ t'.pc = next /\ SameRun /\ SameList /\ t'.retry = TRUE /\ t'.m = t.m /\ t'.why = t.why
    BY <1>1, <1>2, <1>4 DEF Memory, SameRun, SameList
<1>6. t'.n = t.n /\ t'.kind = t.kind /\ Dir' = Dir /\ t'.tracked = t.tracked /\ t'.written = t.written /\ t'.mark = t.mark
    BY <1>5 DEF SameRun, SameList, Dir
<1>7. disk' \in [Paths -> Content] /\ \A q \in Paths : disk'[q] = IF q \in ps THEN Nothing ELSE disk[q]
    BY <1>1, <1>2, UnlinkFacts DEF TypeOK
<1>8. TypeOK' /\ DiskInv'
    <2>1. doc' = IF <<"out", "manifest.json">> \in ps THEN NoManifest ELSE doc
        BY <1>1, <1>3, PathFacts
    <2>2. <<"out", ".">> \notin ps
        BY <1>3, PathFacts
    <2>3. t'.n \in Nat /\ t.n <= t'.n
        BY <1>2, <1>6, NumberFacts
    <2>4. doc' \in Promise!Manifest \cup {NoManifest}
        BY <1>1, <1>2 DEF TypeOK
    <2> QED
        BY <1>1, <1>2, <1>5, <1>7, <2>1, <2>2, <2>3, <2>4, DiskUnlink DEF TypeOK
<1>9. /\ disk'[<<Dir, ".">>] = disk[<<Dir, ".">>]
      /\ \A d \in Dirs, f \in Data : disk'[<<d, f>>] = disk[<<d, f>>]
      /\ \A x \in Names \cup {"."} : disk'[<<"scratch", x>>] = disk[<<"scratch", x>>]
      /\ \A d \in {"out", "id"}, x \in Names : d # Dir => disk'[<<d, x>>] = disk[<<d, x>>]
      /\ disk'[<<Dir, "other">>] = disk[<<Dir, "other">>]
      /\ \A x \in {"diagnostics.txt", "manifest.json.tmp", "manifest.json"} : disk'[<<Dir, x>>] = Nothing
    BY <1>3, <1>7, PathFacts, DirFacts, NameFacts
<1>10. Settled(Dir)' /\ DataGone(Dir)'
    <2>1. DataGone(Dir)'
        BY <1>1, <1>2, <1>6, <1>9, DirFacts DEF Settled, DataGone, There
    <2>2. Failed(t.why)'
        BY <1>1, <1>5, FailedFacts
    <2> QED
        BY <1>1, <1>2, <1>5, <2>1, <2>2 DEF Settled
<1>11. Dir = "out" => Untouched'
    <2>1. Nothing.by = 0 /\ t.n # 0 /\ t.n # User
        BY <1>2, ContentFacts, NumberFacts
    <2>2. ASSUME Dir = "out", NEW x \in Names PROVE disk'[<<"out", x>>].by # t.n
        <3>1. CASE x \in Data
            BY <1>6, <1>10, <2>1, <2>2, <3>1 DEF DataGone, There
        <3>2. CASE x = "other"
            BY <1>2, <1>9, <2>1, <2>2, <3>2 DEF DiskInv
        <3>3. CASE x \in {"diagnostics.txt", "manifest.json.tmp", "manifest.json"}
            BY <1>9, <2>1, <2>2, <3>3
        <3> QED
            BY <3>1, <3>2, <3>3, NameFacts
    <2> QED
        BY <1>1, <1>6, <2>1, <2>2, NoManifestFacts DEF Untouched
<1>12. t.kind = "print_id" => t.mark <= Len(t.tracked) /\ \A j \in 1..t.mark : t.tracked[j] = IdNames[j]
    BY <1>1 DEF Inv, KindInv, Running, At
<1>13. CASE next = "return"
    <2>1. RecordInv'
        BY <1>1, <1>2, <1>5, <1>6, <1>10, <1>11, <1>13, DirFacts DEF RecordInv, At, Recording
    <2> QED
        BY <1>1, <1>2, <1>5, <1>6, <1>8, <1>9, <1>12, <1>13, <2>1, ReturnStep, DirFacts
<1>14. CASE next = "diagnostics"
    <2>1. MemoryInv' /\ RecordInv'
        BY <1>1, <1>2, <1>5, <1>6, <1>10, <1>14 DEF MemoryInv, RecordInv, At, Opening, Recording
    <2>2. t'.pc \in Recording
        BY <1>5, <1>14 DEF Recording
    <2>3. /\ \A q : WillGo(q) => WillGo(q)'
          /\ t'.kind = "print_id" => t'.mark <= Len(t'.tracked) /\ \A j \in 1..t'.mark : t'.tracked[j] = IdNames[j]
        BY <1>1, <1>5, <1>6, <2>2, ListSame
    <2> QED
        BY <1>1, <1>2, <1>5, <1>6, <1>8, <1>9, <1>14, <2>1, <2>2, <2>3, RecordStep, DirFacts
<1> QED
    BY <1>4, <1>13, <1>14


(* ~CleanupScope: nothing of a capture is on the list any more. *)
LEMMA ReturnInv == ASSUME Inv, Return PROVE Inv'
<1> DEFINE s == SubSeq(t.tracked, 1, t.mark)
           next == IF t.kind = "print_id" THEN "rmtree" ELSE "exit"
<1>1. /\ TypeOK /\ DiskInv /\ t \in Memory /\ t.pc = "return" /\ Running /\ t.n \in Captures
      /\ UNCHANGED <<disk, doc, sick, exit>> /\ t' = [t EXCEPT !.tracked = s, !.pc = next]
    BY DEF Return, At, Inv, TypeOK, KindInv, Running
<1>2. /\ s \in Seq(Paths) /\ (t.kind # "print_id" => s = <<>>)
      /\ t.kind = "print_id" => t.mark = Len(IdNames) /\ t.mark <= Len(s) /\ \A j \in 1..t.mark : s[j] = IdNames[j]
    BY <1>1, CutFacts
<1>3. next \in MainPcs
    BY DEF MainPcs
<1> HIDE DEF s, next
<1>4. /\ t' \in Memory /\ t'.pc = next /\ SameRun /\ SameVerdict /\ t'.tracked = s /\ t'.written = t.written
    BY <1>1, <1>2, <1>3 DEF Memory, SameRun, SameVerdict
<1>5. t'.n = t.n /\ t'.kind = t.kind /\ t'.why = t.why /\ t'.retry = t.retry /\ t'.m = t.m /\ t'.mark = t.mark
      /\ Dir' = Dir /\ t'.pc = IF t.kind = "print_id" THEN "rmtree" ELSE "exit"
    BY <1>4 DEF SameRun, SameVerdict, Dir, next
<1>6. TypeOK' /\ DiskInv' /\ NothingUnchecked' /\ \A q : There(q)' <=> There(q)
    BY <1>1, <1>4, <1>5, Quiet
<1>7. KindInv'
    <2>1. /\ t.kind = "failed" => t.written = {} /\ ~t.retry
          /\ t.kind # "print_id" => t.mark = 0
        BY <1>1 DEF Inv, KindInv
    <2> QED
        BY <1>1, <1>2, <1>4, <1>5, <2>1 DEF KindInv, Running, At, Opening, Staging, Copying
<1>8. SickInv' /\ DirInv' /\ MemoryInv'
    <2>1. t.kind = "print_id" => Untouched'
        BY <1>1, <1>5 DEF Inv, DirInv, Untouched
    <2> QED
        BY <1>5, <1>6, <2>1 DEF SickInv, DirInv, MemoryInv, At, Opening, Staging, Copying, Recording
<1>9. RecordInv'
    <2>1. CASE t.kind = "print_id"
        BY <1>5, <2>1 DEF RecordInv, At, Recording
    <2>2. CASE t.kind # "print_id"
        <3>1. /\ Settled("out")
              /\ doc = t.m \/ (t.m.status = "failed" /\ (t.kind = "failed" \/ Untouched))
              /\ t.kind = "failed" => doc.by # t.n \/ doc.status = "failed"
              /\ t.m.by = t.n
            BY <1>1, <2>2 DEF Inv, RecordInv
        <3>2. Dir = "out"
            BY <2>2, DirFacts
        <3>3. Settled("out")'
            BY <1>1, <1>5, <3>1, <3>2, SettledKept
        <3>4. Untouched => Untouched'
            BY <1>1, <1>5 DEF Untouched
        <3> QED
            BY <1>1, <1>2, <1>4, <1>5, <2>2, <3>1, <3>3, <3>4 DEF RecordInv, At, Recording
    <2> QED
        BY <2>1, <2>2
<1>10. TrackInv'
    <2>1. \A x \in Names \cup {"."} : ~There(<<"scratch", x>>)
        BY <1>1 DEF Inv, TrackInv, ScratchInUse, At
    <2> QED
        BY <1>5, <1>6, <2>1 DEF TrackInv, At, ScratchInUse, Copying, Recording
<1>11. IdInv'
    BY <1>5 DEF IdInv, At
<1>12. t'.pc # "idle" /\ t'.pc # "handler"
    BY <1>5
<1> QED
    BY <1>6, <1>7, <1>8, <1>9, <1>10, <1>11, <1>12, NotOver DEF Inv

(* A manifest that is not failed, found where the tool put it, is that of a published capture. *)
LEMMA SettledIsPublished ==
    ASSUME t \in Memory, disk \in [Paths -> Content], t.n \in Captures, Settled("out"), doc = t.m, t.m.by = t.n,
           t.m.status # "failed"
    PROVE  Published(t.n)
<1>1. Backed("out") /\ t.m.files \subseteq Data
    BY MemoryFacts DEF Settled
<1>2. \A f \in Data : disk[<<"out", f>>].by = t.n => There(<<"out", f>>)
    <2>1. \A f \in Data : <<"out", f>> \in Paths
        BY PathFacts, NameFacts DEF Dirs
    <2> QED
        BY <2>1, ContentFacts, NumberFacts DEF There
<1>3. doc.files = DataOf("out", t.n)
    BY <1>1, <1>2 DEF Backed, DataOf
<1> QED
    BY <1>1, <1>3 DEF Published, Backed

(* The exit code is what the directory says. *)
LEMMA ExitInv == ASSUME Inv, Exit PROVE Inv'
<1> DEFINE code == IF t.kind = "failed" THEN "1" ELSE exit_for(t.why)
<1>1. /\ TypeOK /\ DiskInv /\ t \in Memory /\ disk \in [Paths -> Content] /\ t.pc = "exit" /\ Running /\ t.n \in Captures
      /\ UNCHANGED <<disk, doc, sick>> /\ Ends(code)
    BY DEF Exit, At, Inv, TypeOK, KindInv, Running
<1>2. code \in {"0", "1", "2", "3"}
    BY FailedFacts
<1>3. \A p \in Under("scratch") : ~There(p)
    <2>1. \A x \in Names \cup {"."} : ~There(<<"scratch", x>>)
        BY <1>1 DEF Inv, TrackInv, ScratchInUse, At
    <2> QED
        BY <2>1 DEF Under
<1>4. t.kind = "print_id" => DirIsEmpty("id") /\ ~There(<<"id", ".">>) /\ Untouched
    BY <1>1 DEF Inv, IdInv, DirInv
<1>5. Untouched => DataOf("out", t.n) = {} /\ Mine(t.n) = {} /\ doc.by # t.n
    BY NameFacts DEF Untouched, DataOf, Mine
<1>6. t.kind # "print_id" =>
          /\ Settled("out") /\ t.m.by = t.n
          /\ doc = t.m \/ (t.m.status = "failed" /\ (t.kind = "failed" \/ Untouched))
          /\ t.kind = "failed" => doc.by # t.n \/ doc.status = "failed"
    BY <1>1 DEF Inv, RecordInv
<1>7. DataGone("out") => DataOf("out", t.n) = {}
    BY ContentFacts, NumberFacts, <1>1 DEF DataGone, DataOf, There, Nothing
<1>8. doc.status = "failed" => doc.files = {} /\ ~doc.id
    BY <1>1 DEF DiskInv
<1>9. Leaves(code)
    <2>1. CASE t.kind = "print_id"
        BY <1>2, <1>3, <1>4, <1>5, <2>1 DEF Leaves
    <2>2. CASE t.kind = "failed"
        <3>1. DataGone("out")
            BY <1>6, <2>2 DEF Settled
        <3> QED
            BY <1>3, <1>6, <1>7, <1>8, <2>2, <3>1 DEF Leaves
    <2>3. CASE t.kind = "capture" /\ Failed(t.why)
        <3>1. t.m.status = "failed" /\ DataGone("out")
            BY <1>6, <2>3 DEF Settled
        <3>2. code \in {"1", "3"}
            BY <2>3 DEF Failed
        <3> HIDE DEF code
        <3>3. Mine(t.n) # {} => doc.by = t.n
            BY <1>5, <1>6, <2>3
        <3>4. doc.by = t.n => doc.status = "failed"
            BY <1>5, <1>6, <2>3, <3>1
        <3> QED
            BY <1>3, <1>7, <1>8, <2>3, <3>1, <3>2, <3>3, <3>4 DEF Leaves
    <2>4. CASE t.kind = "capture" /\ ~Failed(t.why)
        <3>1. t.m.status # "failed" /\ t.m.status = Status(t.why)
            BY <1>6, <2>4 DEF Settled
        <3>2. doc = t.m
            BY <1>6, <2>4, <3>1
        <3>3. Published(t.n)
            BY <1>1, <1>6, <2>4, <3>1, <3>2, SettledIsPublished
        <3>4. code = IF "partial" \in t.why THEN "2" ELSE "0"
            BY <2>4, FailedFacts
        <3>5. doc.status = IF "partial" \in t.why THEN "partial" ELSE "complete"
            BY <3>1, <3>2 DEF Status
        <3> HIDE DEF code
        <3> QED
            BY <1>3, <1>6, <2>4, <3>2, <3>3, <3>4, <3>5 DEF Leaves
    <2> QED
        BY <1>1, <2>1, <2>2, <2>3, <2>4, MemoryFacts
<1> HIDE DEF code
<1> QED
    BY <1>1, <1>2, <1>9, EndsInv

-----------------------------------------------------------------------------
(* Signals.                                                                 *)

(* A manifest of the running capture that is not failed is published, but while the record is       *)
(* removed; until the capture is released it is the newest on the list.                             *)
LEMMA OwnManifest ==
    ASSUME Inv, Running, t.pc # "handler", doc.by = t.n, doc.status # "failed"
    PROVE  /\ t.kind = "capture"
           /\ \/ Published(t.n)
              \/ t.pc = "unrecord" /\ "other" \in t.why /\ t.tracked # <<>>
           /\ t.tracked # <<>> => t.tracked[Len(t.tracked)] = <<"out", "manifest.json">>
<1>1. /\ TypeOK /\ t \in Memory /\ disk \in [Paths -> Content] /\ t.n \in Captures /\ t.n # 0
      /\ doc # NoManifest /\ ~Untouched
    BY NumberFacts, NoManifestFacts DEF Inv, TypeOK, KindInv, Untouched
<1>2. t.kind # "print_id" /\ t.pc \notin Opening /\ Dir = "out"
    BY <1>1, DirFacts DEF Inv, DirInv
<1>3. t.pc \notin Staging \cup Copying \cup {"diagnostics", "manifest", "rename"}
    BY <1>1, <1>2 DEF Inv, DirInv
<1>4. t.pc \notin {"idle", "mkid", "trackid", "rmtree"}
    BY <1>2 DEF Inv, KindInv, Running, At
<1>5. t.pc \in {"sync", "release", "recordfails", "unrecord", "return", "exit"}
    BY <1>1, <1>2, <1>3, <1>4, MemoryFacts DEF MainPcs, Opening, Staging, Copying
<1>6. CASE t.pc \in {"sync", "release", "recordfails"}
    <2>1. doc = t.m
        BY <1>1, <1>2, <1>6 DEF Inv, RecordInv, At
    <2>2. Settled("out") /\ t.m.by = t.n /\ (t.kind = "failed" => t.m.status = "failed")
        BY <1>2, <1>6, RecordingFacts DEF Recording
    <2>3. t.kind # "failed" /\ Published(t.n)
        BY <1>1, <2>1, <2>2, SettledIsPublished
    <2>4. t.tracked[Len(t.tracked)] = <<"out", "manifest.json">>
        BY <1>2, <1>6, <2>3 DEF Inv, TrackInv
    <2> QED
        BY <1>1, <1>2, <2>3, <2>4, MemoryFacts
<1>7. CASE t.pc = "unrecord"
    <2>1. t.kind # "failed" /\ "other" \in t.why
        BY <1>7 DEF Inv, RecordInv, At
    <2>2. t.tracked # <<>> /\ t.tracked[Len(t.tracked)] = <<"out", "manifest.json">>
        BY <1>2, <1>7, <2>1 DEF Inv, TrackInv
    <2> QED
        BY <1>1, <1>2, <1>7, <2>1, <2>2, MemoryFacts
<1>8. CASE t.pc \in {"return", "exit"}
    <2>1. /\ Settled("out") /\ t.m.by = t.n
          /\ doc = t.m \/ (t.m.status = "failed" /\ (t.kind = "failed" \/ Untouched))
          /\ t.kind = "failed" => doc.by # t.n \/ doc.status = "failed"
          /\ t.m.status # "failed" => t.tracked = <<>>
        BY <1>2, <1>8 DEF Inv, RecordInv
    <2>2. t.kind # "failed" /\ doc = t.m
        BY <1>1, <2>1
    <2>3. Published(t.n) /\ t.tracked = <<>>
        BY <1>1, <2>1, <2>2, SettledIsPublished
    <2> QED
        BY <1>1, <1>2, <2>2, <2>3, MemoryFacts
<1> QED
    BY <1>5, <1>6, <1>7, <1>8

(* A data file of the running capture is on the list, or its capture is published. *)
LEMMA OwnData ==
    ASSUME Inv, Running, t.pc # "handler", NEW f \in Data, disk[<<"out", f>>].by = t.n
    PROVE  WillGo(<<"out", f>>) \/ (t.tracked = <<>> /\ Published(t.n))
<1>1. /\ TypeOK /\ t \in Memory /\ disk \in [Paths -> Content] /\ t.n \in Captures /\ t.n # 0 /\ f \in Names
      /\ There(<<"out", f>>) /\ ~Untouched
    BY NumberFacts, NameFacts, ContentFacts DEF Inv, TypeOK, KindInv, Untouched, There
<1>2. t.kind # "print_id" /\ t.pc \notin Opening /\ Dir = "out"
    BY <1>1, DirFacts DEF Inv, DirInv
<1>3. t.pc \notin {"idle", "mkid", "trackid", "rmtree"}
    BY <1>2 DEF Inv, KindInv, Running, At
<1>4. t.pc \in Staging \cup Copying \cup Recording \cup {"unrecord", "return", "exit"}
    BY <1>1, <1>2, <1>3, MemoryFacts DEF MainPcs, Opening, Staging, Copying, Recording
<1>5. CASE t.pc \in Staging \cup Copying \cup Recording \cup {"unrecord"}
    <2>1. <<"out", f>> \in t.written
        BY <1>1, <1>2, <1>5 DEF Inv, DirInv
    <2>2. t.pc \notin Staging
        BY <2>1 DEF Inv, KindInv
    <2> QED
        BY <1>5, <2>1, <2>2 DEF Inv, TrackInv
<1>6. CASE t.pc \in {"return", "exit"}
    <2>1. /\ Settled("out") /\ t.m.by = t.n
          /\ doc = t.m \/ t.m.status = "failed"
          /\ t.m.status # "failed" => t.tracked = <<>>
        BY <1>2, <1>6 DEF Inv, RecordInv
    <2>2. t.m.status # "failed"
        BY <1>1, <2>1 DEF Settled, DataGone
    <2> QED
        BY <1>1, <2>1, <2>2, SettledIsPublished
<1> QED
    BY <1>4, <1>5, <1>6


(* A signal finds everything it should remove on the list. *)
LEMMA SignalInv == ASSUME Inv, Signal PROVE Inv'
<1>1. /\ TypeOK /\ DiskInv /\ t \in Memory /\ Running /\ t.pc # "handler" /\ t.n \in Captures
      /\ UNCHANGED <<disk, doc, sick, exit>> /\ t' = [t EXCEPT !.pc = "handler", !.i = Len(t.tracked)]
    BY DEF Signal, At, Inv, TypeOK, KindInv, Running
<1>2. Len(t.tracked) \in Nat
    BY <1>1, MemoryFacts, ListFacts
<1>3. t' \in Memory /\ t'.pc = "handler" /\ t'.i = Len(t.tracked) /\ SameMemory
    BY <1>1, <1>2 DEF Memory, MainPcs, SameMemory, SameRun, SameList, SameFiles, SameVerdict
<1>4. t'.n = t.n /\ t'.kind = t.kind /\ t'.why = t.why /\ t'.retry = t.retry /\ t'.mark = t.mark /\ t'.tracked = t.tracked
      /\ t'.written = t.written
    BY <1>3 DEF SameMemory, SameRun, SameList, SameVerdict
<1>5. TypeOK' /\ DiskInv' /\ NothingUnchecked' /\ \A q : There(q)' <=> There(q)
    BY <1>1, <1>3, <1>4, Quiet
<1>6. \A q : WillGo(q)' <=> WillGo(q)
    BY <1>1, <1>3, <1>4 DEF WillGo, At
<1>7. KindInv'
    <2>1. /\ t.kind = "failed" => t.tracked = <<>> /\ t.written = {} /\ ~t.retry
          /\ t.kind # "print_id" => t.mark = 0
        BY <1>1 DEF Inv, KindInv
    <2> QED
        BY <1>1, <1>3, <1>4, <2>1 DEF KindInv, At, Opening, Staging, Copying
<1>8. DirInv'
    <2>1. t.kind = "print_id" => Untouched'
        BY <1>1, <1>4 DEF Inv, DirInv, Untouched
    <2> QED
        BY <1>3, <1>4, <2>1 DEF DirInv, Opening, Staging, Copying, Recording
<1>9. SickInv' /\ MemoryInv' /\ RecordInv'
    BY <1>3, <1>5 DEF SickInv, MemoryInv, RecordInv, At, Opening, Recording
<1>10. TrackInv'
    <2>1. ASSUME NEW x \in Names, There(<<"scratch", x>>) PROVE WillGo(<<"scratch", x>>)
        <3>1. x # "."
            BY NameFacts
        <3> QED
            BY <1>1, <2>1, <3>1 DEF Inv, TrackInv
    <2>2. \A x \in Names : There(<<"scratch", x>>)' => WillGo(<<"scratch", x>>)'
        BY <1>5, <1>6, <2>1
    <2> QED
        BY <1>3, <2>2 DEF TrackInv, ScratchInUse, Copying, Recording
<1>11. IdInv'
    <2>1. ASSUME t.kind = "print_id", NEW x \in Names, There(<<"id", x>>) PROVE WillGo(<<"id", x>>)
        <3>1. x # "other"
            BY <1>1, <2>1 DEF DiskInv
        <3>2. t.pc \notin {"discover", "mkid", "trackid"}
            BY <2>1 DEF Inv, IdInv, DirIsEmpty
        <3>3. /\ t.mark = Len(IdNames) /\ t.mark <= Len(t.tracked)
              /\ \A j \in 1..t.mark : t.tracked[j] = IdNames[j]
            BY <1>1, <2>1, <3>2 DEF Inv, KindInv
        <3>4. PICK j \in 1..Len(IdNames) : IdNames[j] = <<"id", x>>
            BY <3>1, IdFacts
        <3>5. j \in 1..Len(t.tracked) /\ t.tracked[j] = <<"id", x>>
            <4>1. Len(IdNames) \in Nat /\ Len(IdNames) <= Len(t.tracked)
                BY <3>3, IdFacts
            <4>2. j \in 1..Len(t.tracked)
                BY <1>2, <4>1
            <4> QED
                BY <3>3, <3>4, <4>2
        <3> QED
            BY <1>1, <3>5 DEF WillGo, At
    <2> QED
        BY <1>3, <1>4, <1>5, <1>6, <2>1 DEF IdInv, At
<1>12. HandlerInv'
    <2>1. Published(t.n)' <=> Published(t.n)
        BY <1>1, <1>4 DEF Published, DataOf
    <2>2. t'.i <= Len(t'.tracked)
        BY <1>2, <1>3, <1>4
    <2>3. \A f \in Data : disk'[<<"out", f>>].by = t'.n =>
              WillGo(<<"out", f>>)' \/ (t'.tracked = <<>> /\ Published(t.n)')
        BY <1>1, <1>4, <1>6, <2>1, OwnData
    <2>4. ASSUME doc'.by = t'.n, doc'.status # "failed"
          PROVE  /\ t'.kind = "capture"
                 /\ "other" \notin t'.why \/ t'.tracked = <<>> => Published(t.n)'
                 /\ t'.tracked # <<>> => t'.i = Len(t'.tracked) /\ t'.tracked[t'.i] = <<"out", "manifest.json">>
        <3>1. /\ t.kind = "capture"
              /\ Published(t.n) \/ ("other" \in t.why /\ t.tracked # <<>>)
              /\ t.tracked # <<>> => t.tracked[Len(t.tracked)] = <<"out", "manifest.json">>
            BY <1>1, <1>4, <2>4, OwnManifest
        <3> QED
            BY <1>3, <1>4, <2>1, <3>1
    <2> QED
        BY <2>2, <2>3, <2>4 DEF HandlerInv
<1> QED
    BY <1>3, <1>5, <1>7, <1>8, <1>9, <1>10, <1>11, <1>12, NotOver DEF Inv

(* The handler takes the newest entry, and goes when there is none. *)
LEMMA HandlerStepInv == ASSUME Inv, Handler PROVE Inv'
<1>1. /\ TypeOK /\ DiskInv /\ t \in Memory /\ disk \in [Paths -> Content] /\ Running /\ t.pc = "handler" /\ t.n \in Captures
      /\ sick' = sick /\ t.i \in Nat /\ t.tracked \in Seq(Paths) /\ Len(t.tracked) \in Nat /\ t.i <= Len(t.tracked)
    BY MemoryFacts, ListFacts DEF Handler, At, Inv, TypeOK, KindInv, Running, HandlerInv
<1>2. /\ \A f \in Data : disk[<<"out", f>>].by = t.n => WillGo(<<"out", f>>) \/ (t.tracked = <<>> /\ Published(t.n))
      /\ doc.by = t.n /\ doc.status # "failed" =>
          /\ t.tracked = <<>> => Published(t.n)
          /\ t.tracked # <<>> => t.i = Len(t.tracked) /\ t.tracked[t.i] = <<"out", "manifest.json">>
      /\ \A x \in Names : There(<<"scratch", x>>) => WillGo(<<"scratch", x>>)
      /\ t.kind = "print_id" => Untouched /\ \A x \in Names : There(<<"id", x>>) => WillGo(<<"id", x>>)
    BY <1>1 DEF Inv, HandlerInv, TrackInv, IdInv, DirInv, ScratchInUse, At
<1>3. \A q : WillGo(q) <=> \E j \in 1..t.i : t.tracked[j] = q
    BY <1>1 DEF WillGo, At
<1>4. CASE t.i = 0
    <2>1. Ends("signal") /\ UNCHANGED <<disk, doc, sick>>
        BY <1>4 DEF Handler
    <2>2. \A q : ~WillGo(q)
        <3>1. 1..0 = {}
            OBVIOUS
        <3> QED
            BY <1>3, <1>4, <3>1
    <2>3. DirIsEmpty("scratch") /\ (t.kind = "print_id" => DirIsEmpty("id"))
        BY <1>2, <2>2 DEF DirIsEmpty
    <2>4. Published(t.n) \/ DataOf("out", t.n) = {}
        BY <1>2, <2>2 DEF DataOf
    <2>5. doc.by = t.n => Published(t.n) \/ doc.files = {}
        <3>1. doc.status = "failed" => doc.files = {}
            BY <1>1 DEF DiskInv
        <3>2. t.tracked # <<>> => Len(t.tracked) # 0
            BY <1>1, ListFacts
        <3> QED
            BY <1>2, <1>4, <3>1, <3>2
    <2>6. Leaves("signal")
        BY <2>3, <2>4, <2>5 DEF Leaves
    <2> QED
        BY <1>1, <2>1, <2>6, EndsInv
<1>5. CASE t.i # 0
    <2> DEFINE p == t.tracked[t.i]
    <2>1. /\ disk' = IF p[2] = "." /\ ~DirIsEmpty(p[1]) THEN disk ELSE [disk EXCEPT ![p] = Nothing]
          /\ doc' = IF p = <<"out", "manifest.json">> THEN NoManifest ELSE doc
          /\ t' = [t EXCEPT !.i = t.i - 1]
          /\ exit' = exit
        BY <1>5 DEF Handler, Victim
    <2>2. t.i \in 1..Len(t.tracked) /\ t.i - 1 \in Nat /\ t.i - 1 <= Len(t.tracked) /\ t.tracked # <<>>
        BY <1>1, <1>5, ListFacts
    <2>3. p \in Paths /\ p = <<p[1], p[2]>> /\ p[1] \in Dirs /\ p[2] \in Names \cup {"."}
        BY <1>1, <2>2, ListFacts, PathFacts
    <2> HIDE DEF p
    <2>4. t' \in Memory /\ t'.pc = "handler" /\ t'.i = t.i - 1 /\ SameMemory
        BY <1>1, <2>1, <2>2 DEF Memory, MainPcs, SameMemory, SameRun, SameList, SameFiles, SameVerdict
    <2>5. t'.n = t.n /\ t'.kind = t.kind /\ t'.why = t.why /\ t'.retry = t.retry /\ t'.mark = t.mark /\ t'.tracked = t.tracked
          /\ t'.written = t.written
        BY <2>4 DEF SameMemory, SameRun, SameList, SameVerdict
    <2>6. /\ disk' \in [Paths -> Content]
          /\ \A q \in Paths : disk'[q] = disk[q] \/ disk'[q] = Nothing
          /\ \A q \in Paths : q # p => disk'[q] = disk[q]
          /\ p[2] # "." => disk'[p] = Nothing
          /\ p[2] = "." /\ ~DirIsEmpty(p[1]) => disk' = disk
        <3>1. Nothing \in Content
            BY ContentFacts
        <3> QED
            BY <1>1, <2>1, <2>3, <3>1
    <2>7. \A x \in Names, d \in Dirs : There(<<d, x>>)' => There(<<d, x>>) /\ <<d, x>> # p
        <3> SUFFICES ASSUME NEW x \in Names, NEW d \in Dirs, There(<<d, x>>)'
                     PROVE  There(<<d, x>>) /\ <<d, x>> # p
            OBVIOUS
        <3>1. <<d, x>> \in Paths /\ x # "."
            BY PathFacts, NameFacts
        <3>2. <<d, x>> = p => p[2] # "."
            BY <3>1
        <3> QED
            BY <2>6, <3>1, <3>2 DEF There
    <2>8. ASSUME NEW q, WillGo(q), q # p PROVE WillGo(q)'
        <3>1. PICK j \in 1..t.i : t.tracked[j] = q
            BY <1>3, <2>8
        <3>2. j # t.i
            BY <2>8, <3>1 DEF p
        <3>3. j \in 1..(t.i - 1)
            BY <1>1, <3>2
        <3> QED
            BY <2>4, <2>5, <3>1, <3>3 DEF WillGo, At
    <2>9. TypeOK'
        <3>1. doc' \in Promise!Manifest \cup {NoManifest}
            BY <1>1, <2>1 DEF TypeOK
        <3> QED
            BY <1>1, <2>1, <2>4, <2>6, <3>1 DEF TypeOK
    <2>10. DiskInv'
        <3>1. \A q \in Paths : disk'[q].by \in (0..t'.n) \cup {User}
            <4>1. Nothing.by = 0 /\ 0 \in 0..t.n
                BY <1>1, ContentFacts, NumberFacts
            <4> QED
                BY <1>1, <2>5, <2>6, <4>1 DEF DiskInv
        <3>2. (doc' # NoManifest) <=> disk'[<<"out", "manifest.json">>] # Nothing
            <4>1. <<"out", "manifest.json">> \in Paths /\ <<"out", "manifest.json">>[2] # "."
                BY PathFacts, NameFacts
            <4>2. CASE p = <<"out", "manifest.json">>
                BY <2>1, <2>6, <4>1, <4>2
            <4>3. CASE p # <<"out", "manifest.json">>
                BY <1>1, <2>1, <2>6, <4>1, <4>3 DEF DiskInv, There
            <4> QED
                BY <4>2, <4>3
        <3>3. doc'.by \in 0..t'.n /\ (doc'.status = "failed" => doc'.files = {} /\ ~doc'.id)
            <4>1. 0 \in 0..t.n
                BY <1>1, NumberFacts
            <4> QED
                BY <1>1, <2>1, <2>5, <4>1, NoManifestFacts DEF DiskInv
        <3>4. /\ disk'[<<"out", "other">>].by \in {0, User}
              /\ disk'[<<"id", "other">>] = Nothing /\ disk'[<<"scratch", "other">>] = Nothing
            <4>1. <<"out", "other">> \in Paths /\ <<"id", "other">> \in Paths /\ <<"scratch", "other">> \in Paths
                BY PathFacts, NameFacts
            <4>2. Nothing.by = 0
                BY ContentFacts
            <4> QED
                BY <1>1, <2>6, <4>1, <4>2 DEF DiskInv, There
        <3>5. ASSUME NEW x \in Names, disk'[<<"out", x>>] # Nothing PROVE disk'[<<"out", ".">>] # Nothing
            <4>1. There(<<"out", x>>) /\ <<"out", ".">> \in Paths
                BY <2>7, <3>5, PathFacts DEF There
            <4>2. There(<<"out", ".">>) /\ ~DirIsEmpty("out")
                BY <1>1, <4>1 DEF DiskInv, DirIsEmpty
            <4>3. p = <<"out", ".">> => p[1] = "out" /\ p[2] = "."
                OBVIOUS
            <4> QED
                BY <2>6, <4>1, <4>2, <4>3 DEF There
        <3> QED
            BY <3>1, <3>2, <3>3, <3>4, <3>5 DEF DiskInv, There
    <2>11. SickInv'
        <3>1. \A d \in {"out", "id"}, f \in Data : <<d, f>> \in Paths
            BY PathFacts, NameFacts
        <3>2. Nothing.by = 0
            BY ContentFacts
        <3>3. NothingUnchecked'
            BY <1>1, <2>5, <2>6, <3>1, <3>2, SickKept DEF Inv
        <3> QED
            BY <2>4, <3>3 DEF SickInv
    <2>12. KindInv'
        <3>1. /\ t.kind = "failed" => t.tracked = <<>> /\ t.written = {} /\ ~t.retry
              /\ t.kind # "print_id" => t.mark = 0
            BY <1>1 DEF Inv, KindInv
        <3> QED
            BY <1>1, <2>4, <2>5, <3>1 DEF KindInv, At, Opening, Staging, Copying
    <2>13. DirInv' /\ MemoryInv' /\ RecordInv'
        <3>1. t.kind = "print_id" => Untouched'
            <4>1. \A x \in Names : <<"out", x>> \in Paths
                BY PathFacts
            <4>2. Nothing.by = 0 /\ t.n # 0
                BY <1>1, ContentFacts, NumberFacts
            <4> QED
                BY <1>2, <2>1, <2>5, <2>6, <4>1, <4>2, NoManifestFacts DEF Untouched
        <3> QED
            BY <2>4, <2>5, <3>1 DEF DirInv, MemoryInv, RecordInv, At, Opening, Staging, Copying, Recording
    <2>14. TrackInv' /\ IdInv'
        <3>1. \A x \in Names : There(<<"scratch", x>>)' => WillGo(<<"scratch", x>>)'
            BY <1>2, <2>7, <2>8, PathFacts
        <3>2. t.kind = "print_id" => \A x \in Names : There(<<"id", x>>)' => WillGo(<<"id", x>>)'
            BY <1>2, <2>7, <2>8, PathFacts
        <3> QED
            BY <2>4, <2>5, <3>1, <3>2 DEF TrackInv, IdInv, At, ScratchInUse, Copying, Recording
    <2>15. HandlerInv'
        <3>1. ASSUME NEW f \in Data, disk'[<<"out", f>>].by = t.n PROVE WillGo(<<"out", f>>)'
            <4>1. f \in Names /\ "out" \in Dirs /\ <<"out", f>> \in Paths /\ Nothing.by = 0 /\ t.n # 0
                BY <1>1, NameFacts, PathFacts, ContentFacts, NumberFacts
            <4>2. There(<<"out", f>>)' /\ disk[<<"out", f>>].by = t.n
                BY <2>6, <3>1, <4>1 DEF There
            <4> QED
                BY <1>2, <2>2, <2>7, <2>8, <4>1, <4>2
        <3>2. ~(doc'.by = t.n /\ doc'.status # "failed")
            BY <1>2, <2>1, <2>2, NoManifestFacts DEF p
        <3>3. t'.i <= Len(t'.tracked)
            BY <2>2, <2>4, <2>5
        <3> QED
            BY <2>5, <3>1, <3>2, <3>3 DEF HandlerInv
    <2> QED
        BY <2>4, <2>9, <2>10, <2>11, <2>12, <2>13, <2>14, <2>15, NotOver DEF Inv
<1> QED
    BY <1>4, <1>5

(* SIGKILL: nothing is promised of what it leaves but what always holds. *)
LEMMA KillInv == ASSUME Inv, Kill PROVE Inv'
<1>1. Running /\ Ends("killed") /\ UNCHANGED <<disk, doc, sick>>
    BY DEF Kill, Running
<1>2. Leaves("killed")
    BY DEF Leaves
<1> QED
    BY <1>1, <1>2, EndsInv

(* The invariant is inductive. *)
LEMMA StepInv == Inv /\ [Next]_vars => Inv'
<1> SUFFICES ASSUME Inv, [Next]_vars PROVE Inv'
    OBVIOUS
<1>1. CASE Pipeline
    BY <1>1, StartInv, DiscoverInv, MakeIdDirInv, TrackIdInv, RemoveTreeInv, PrepareInv, ClearInv, MakeScratchInv,
       TrackScratchInv, ReadSourcesInv, StageInv, ValidateInv, LeakSearchInv, ReplayInv, PublishInv, WriteDataInv,
       UnwindScratchInv, FinishInv, WriteDiagnosticsInv, WriteTmpInv, RenameInv, SyncDirInv, ReleaseInv,
       RecordFailsInv, RemoveRecordInv, ReturnInv, ExitInv DEF Pipeline
<1>2. CASE Signal \/ Handler \/ Kill
    BY <1>2, SignalInv, HandlerStepInv, KillInv
<1>3. CASE UNCHANGED vars
    <2>1. UNCHANGED disk /\ UNCHANGED doc /\ UNCHANGED sick /\ UNCHANGED t /\ UNCHANGED exit
        BY <1>3 DEF vars
    <2>2. (TypeOK /\ DiskInv /\ KindInv)'
        BY <2>1 DEF Inv, TypeOK, DiskInv, KindInv, There, Running, At
    <2>3. (SickInv /\ DirInv)'
        BY <2>1 DEF Inv, SickInv, NothingUnchecked, DataOf, DirInv, Running, At, Untouched, Dir, There
    <2>4. MemoryInv'
        BY <2>1 DEF Inv, MemoryInv, At, Backed, Dir, There, Failed, exit_for
    <2>5. RecordInv'
        BY <2>1 DEF Inv, RecordInv, At, Backed, Dir, There, Failed, exit_for, Settled, DataGone, Status, Untouched
    <2>6. (TrackInv /\ IdInv /\ HandlerInv)'
        BY <2>1 DEF Inv, TrackInv, IdInv, HandlerInv, At, Running, WillGo, There, Dir, DirIsEmpty, Published, DataOf
    <2>7. EndsAsItSays'
        BY <2>1 DEF Inv, EndsAsItSays, EndedAsReported, SignalLeavesAllOrNothing, PrintIdKeepsNothing, Over, At, There,
           DirIsEmpty, Mine, DataOf, Published
    <2> QED
        BY <2>2, <2>3, <2>4, <2>5, <2>6, <2>7 DEF Inv
<1> QED
    BY <1>1, <1>2, <1>3 DEF Next


-----------------------------------------------------------------------------
(* The directory's promise, step by step.                                   *)

PromiseStep == [Promise!DirNext]_Promise!dirVars

(* What is in --out is what the promise is about. *)
LEMMA PromiseFacts ==
    /\ Promise!Nothing = Nothing /\ Promise!NoManifest = NoManifest
    /\ \A f \in Data : <<"out", f>> \in Paths
    BY NameFacts, PathFacts DEF Promise!Nothing, Nothing, NoManifest

(* A step that touches neither the data files nor the manifest. *)
LEMMA PromiseQuiet ==
    ASSUME \A f \in Data : disk'[<<"out", f>>] = disk[<<"out", f>>], doc' = doc
    PROVE  PromiseStep
<1>1. [f \in Data |-> disk[<<"out", f>>]]' = [f \in Data |-> disk[<<"out", f>>]]
    OBVIOUS
<1> QED
    BY <1>1 DEF PromiseStep, Promise!dirVars

(* A step that removes data files. *)
LEMMA PromiseRemoves ==
    ASSUME \A f \in Data : disk'[<<"out", f>>] = disk[<<"out", f>>] \/ disk'[<<"out", f>>] = Nothing, doc' = doc
    PROVE  PromiseStep
<1> DEFINE gone == {f \in Data : disk'[<<"out", f>>] = Nothing}
           d == [f \in Data |-> disk[<<"out", f>>]]
<1>1. CASE gone = {}
    BY <1>1, PromiseQuiet
<1>2. CASE gone # {}
    <2>1. d' = [f \in Data |-> IF f \in gone THEN Nothing ELSE d[f]] /\ gone \in SUBSET Data
        OBVIOUS
    <2>2. Promise!RemoveData
        BY <1>2, <2>1, PromiseFacts DEF Promise!RemoveData, Data
    <2> QED
        BY <2>2 DEF PromiseStep, Promise!DirNext
<1> QED
    BY <1>1, <1>2

(* A step that removes the manifest. *)
LEMMA PromiseRemovesManifest ==
    ASSUME \A f \in Data : disk'[<<"out", f>>] = disk[<<"out", f>>], doc' = NoManifest
    PROVE  PromiseStep
<1>1. [f \in Data |-> disk[<<"out", f>>]]' = [f \in Data |-> disk[<<"out", f>>]]
    OBVIOUS
<1> QED
    BY <1>1, PromiseFacts DEF PromiseStep, Promise!DirNext, Promise!RemoveManifest

(* Any removal that leaves the manifest. *)
LEMMA PromiseUnlink ==
    ASSUME Inv, NEW ps, Unlink(ps), doc' = doc
    PROVE  PromiseStep
<1>1. \A f \in Data : disk'[<<"out", f>>] = disk[<<"out", f>>] \/ disk'[<<"out", f>>] = Nothing
    BY UnlinkFacts, PromiseFacts DEF Inv, TypeOK
<1> QED
    BY <1>1, PromiseRemoves

(* A write elsewhere. *)
LEMMA PromisePut ==
    ASSUME Inv, NEW p, NEW w, Put(p, w), \A f \in Data : p # <<"out", f>>, doc' = doc
    PROVE  PromiseStep
<1>1. \A f \in Data : disk'[<<"out", f>>] = disk[<<"out", f>>]
    BY PromiseFacts DEF Inv, TypeOK, Put
<1> QED
    BY <1>1, PromiseQuiet

(* A data file is written only while there is no manifest, and no other capture's file. *)
LEMMA PromiseWrites ==
    ASSUME Inv, t.pc \in {"publish", "write"}, NEW f \in Data, NEW w \in BOOLEAN, Put(<<Dir, f>>, w), doc' = doc
    PROVE  PromiseStep
<1>1. CASE Dir # "out"
    <2>1. \A g \in Data : <<Dir, f>> # <<"out", g>>
        BY <1>1, PathFacts
    <2> QED
        BY <2>1, PromisePut
<1>2. CASE Dir = "out"
    <2> DEFINE d == [g \in Data |-> disk[<<"out", g>>]]
               c == [by |-> t.n, whole |-> w]
    <2>1. t.n \in Captures /\ doc = NoManifest /\ disk \in [Paths -> Content]
        BY <1>2 DEF Inv, TypeOK, KindInv, Running, At, DirInv, Copying
    <2>2. ASSUME NEW g \in Data PROVE d[g].by \in {0, t.n}
        <3>1. There(<<"out", g>>) => disk[<<"out", g>>].by = t.n
            BY <1>2 DEF Inv, DirInv, Copying
        <3>2. ~There(<<"out", g>>) => disk[<<"out", g>>].by = 0
            BY ContentFacts DEF There
        <3> QED
            BY <3>1, <3>2
    <2>3. d' = [d EXCEPT ![f] = c]
        <3>1. disk' = [disk EXCEPT ![<<"out", f>>] = c]
            BY <1>2 DEF Put
        <3> HIDE DEF c
        <3>2. \A g \in Data : disk'[<<"out", g>>] = IF g = f THEN c ELSE disk[<<"out", g>>]
            BY <2>1, <3>1, PromiseFacts, PathFacts
        <3> QED
            BY <3>2
    <2>4. PICK k \in Promise!Captures : k = t.n
        BY <2>1, NumberFacts
    <2>5. Promise!Write(k)
        BY <2>1, <2>2, <2>3, <2>4, PromiseFacts DEF Promise!Write, Data
    <2> QED
        BY <2>5 DEF PromiseStep, Promise!DirNext
<1> QED
    BY <1>1, <1>2

(* The rename publishes a manifest with all of its files, or a failed one with none. *)
LEMMA PromiseRename ==
    ASSUME Inv, Rename
    PROVE  PromiseStep
<1>1. t.pc = "rename" /\ t.pc \in Recording /\ (Dir = "out" => doc = NoManifest)
    BY DEF Rename, At, Recording, Inv, DirInv
<1>2. TypeOK /\ t \in Memory /\ disk \in [Paths -> Content] /\ t.n \in Captures /\ Settled(Dir) /\ t.m.by = t.n
    BY <1>1, RecordingFacts DEF TypeOK
<1>3. CASE Unlink({<<Dir, "manifest.json.tmp">>}) /\ doc' = doc
    BY <1>3, PromiseUnlink
<1>4. CASE /\ disk' = [disk EXCEPT ![<<Dir, "manifest.json.tmp">>] = Nothing,
                                   ![<<Dir, "manifest.json">>] = [by |-> t.n, whole |-> TRUE]]
           /\ doc' = IF Dir = "out" THEN t.m ELSE doc
    <2>1. \A f \in Data : disk'[<<"out", f>>] = disk[<<"out", f>>]
        <3>1. \A f \in Data : <<"out", f>> # <<Dir, "manifest.json.tmp">> /\ <<"out", f>> # <<Dir, "manifest.json">>
            BY PathFacts, NameFacts
        <3>2. \A q \in Paths : q # <<Dir, "manifest.json.tmp">> /\ q # <<Dir, "manifest.json">> => disk'[q] = disk[q]
            BY <1>2, <1>4
        <3> QED
            BY <3>1, <3>2, PromiseFacts
    <2>2. CASE Dir # "out"
        BY <1>4, <2>1, <2>2, PromiseQuiet
    <2>3. CASE Dir = "out"
        <3> DEFINE d == [f \in Data |-> disk[<<"out", f>>]]
        <3>1. d' = d
            BY <2>1
        <3>2. doc' = t.m /\ t.m \in Promise!Manifest
            BY <1>2, <1>4, <2>3, ManifestFacts
        <3>3. ASSUME t.m.status = "failed" PROVE Promise!Bad(t.m)
            <4>1. t.m.files = {} /\ ~t.m.id /\ \A f \in Data : d[f] = Nothing
                BY <1>2, <2>3, <3>3 DEF Settled, DataGone, There
            <4> QED
                BY <3>3, <4>1, PromiseFacts DEF Promise!Bad, Data
        <3>4. ASSUME t.m.status # "failed" PROVE Promise!Good(t.m)
            <4>1. Backed("out") /\ t.m.files \subseteq Data
                BY <1>2, <2>3, <3>4, MemoryFacts DEF Settled
            <4>2. \A f \in Data : d[f] # Nothing => f \in t.m.files /\ d[f].whole
                BY <4>1 DEF Backed, There
            <4>3. t.m.files = {f \in Data : d[f].by = t.n}
                <5>1. \A f \in Data : d[f].by = t.n => d[f] # Nothing
                    BY <1>2, ContentFacts, NumberFacts
                <5> QED
                    BY <4>1, <4>2, <5>1 DEF Backed
            <4> QED
                BY <1>2, <3>4, <4>1, <4>2, <4>3, PromiseFacts DEF Promise!Good, Promise!DataOf, Data, Backed
        <3>5. Promise!Good(t.m) \/ Promise!Bad(t.m)
            BY <3>3, <3>4
        <3>6. PICK k \in Promise!Captures : k = t.n
            BY <1>2, NumberFacts
        <3>7. Promise!Good(doc') \/ Promise!Bad(doc')
            BY <3>2, <3>5 DEF Promise!Good, Promise!Bad
        <3>8. Promise!Publish(k)
            BY <1>1, <1>2, <2>3, <3>1, <3>2, <3>6, <3>7, PromiseFacts DEF Promise!Publish
        <3> QED
            BY <3>8 DEF PromiseStep, Promise!DirNext
    <2> QED
        BY <2>2, <2>3
<1> QED
    BY <1>3, <1>4 DEF Rename


(* prepare_out removes the data files before the manifest they belong to. *)
LEMMA PromiseClear == ASSUME Inv, Clear PROVE PromiseStep
<1> DEFINE x == ClearOrder[t.i]
<1>1. Unlink({<<Dir, x>>}) /\ doc' = (IF x = "manifest.json" /\ Dir = "out" THEN NoManifest ELSE doc)
    BY DEF Clear
<1> HIDE DEF x
<1>2. CASE x = "manifest.json" /\ Dir = "out"
    <2>1. \A f \in Data : <<"out", f>> \notin {<<Dir, x>>}
        BY <1>2, NameFacts, PathFacts
    <2>2. \A f \in Data : disk'[<<"out", f>>] = disk[<<"out", f>>]
        BY <1>1, <2>1, UnlinkFacts, PromiseFacts DEF Inv, TypeOK
    <2> QED
        BY <1>1, <1>2, <2>2, PromiseRemovesManifest
<1>3. CASE ~(x = "manifest.json" /\ Dir = "out")
    BY <1>1, <1>3, PromiseUnlink
<1> QED
    BY <1>2, <1>3

(* remove_record takes no data file. *)
LEMMA PromiseRemoveRecord == ASSUME Inv, RemoveRecord PROVE PromiseStep
<1>1. /\ Unlink({<<Dir, Record[k]>> : k \in 1..Len(Record)})
      /\ doc' = (IF Dir = "out" THEN NoManifest ELSE doc)
    BY DEF RemoveRecord
<1>2. CASE Dir = "out"
    <2>1. \A f \in Data : <<"out", f>> \notin {<<Dir, Record[k]>> : k \in 1..Len(Record)}
        <3>1. \A k \in 1..3 : k = 1 \/ k = 2 \/ k = 3
            OBVIOUS
        <3>2. \A k \in 1..Len(Record) : Record[k] \notin Data
            BY <3>1, NameFacts
        <3> QED
            BY <3>2, PathFacts
    <2>2. \A f \in Data : disk'[<<"out", f>>] = disk[<<"out", f>>]
        BY <1>1, <2>1, UnlinkFacts, PromiseFacts DEF Inv, TypeOK
    <2> QED
        BY <1>1, <1>2, <2>2, PromiseRemovesManifest
<1>3. CASE Dir # "out"
    BY <1>1, <1>3, PromiseUnlink
<1> QED
    BY <1>2, <1>3

(* The handler takes one entry of the list. *)
LEMMA PromiseHandler == ASSUME Inv, Handler PROVE PromiseStep
<1>1. CASE t.i = 0
    <2>1. disk' = disk /\ doc' = doc
        BY <1>1 DEF Handler
    <2> QED
        BY <2>1, PromiseQuiet
<1>2. CASE t.i # 0
    <2> DEFINE p == Victim(t.i)
    <2>1. /\ disk' = IF p[2] = "." /\ ~DirIsEmpty(p[1]) THEN disk ELSE [disk EXCEPT ![p] = Nothing]
          /\ doc' = IF p = <<"out", "manifest.json">> THEN NoManifest ELSE doc
        BY <1>2 DEF Handler
    <2> HIDE DEF p
    <2>2. \A q \in Paths : disk'[q] = disk[q] \/ (q = p /\ disk'[q] = Nothing)
        BY <2>1 DEF Inv, TypeOK
    <2>3. CASE p = <<"out", "manifest.json">>
        <3>1. \A f \in Data : <<"out", f>> # p
            BY <2>3, NameFacts, PathFacts
        <3>2. \A f \in Data : disk'[<<"out", f>>] = disk[<<"out", f>>]
            BY <2>2, <3>1, PromiseFacts
        <3> QED
            BY <2>1, <2>3, <3>2, PromiseRemovesManifest
    <2>4. CASE p # <<"out", "manifest.json">>
        <3>1. \A f \in Data : disk'[<<"out", f>>] = disk[<<"out", f>>] \/ disk'[<<"out", f>>] = Nothing
            BY <2>2, PromiseFacts
        <3> QED
            BY <2>1, <2>4, <3>1, PromiseRemoves
    <2> QED
        BY <2>3, <2>4
<1> QED
    BY <1>1, <1>2

(* Every step keeps the promise. *)
LEMMA StepKeepsPromise == Inv /\ [Next]_vars => PromiseStep
<1> SUFFICES ASSUME Inv, [Next]_vars PROVE PromiseStep
    OBVIOUS
<1>1. CASE disk' = disk /\ doc' = doc
    BY <1>1, PromiseQuiet
<1>2. ASSUME NEW d, NEW x, NEW w, Put(<<d, x>>, w), d # "out" \/ x \notin Data, doc' = doc PROVE PromiseStep
    BY <1>2, PromisePut, PathFacts
<1>3. \A x \in {".", "diagnostics.txt", "manifest.json.tmp", "manifest.json"} : x \notin Data
    BY NameFacts
<1>4. CASE Start \/ RemoveTree \/ UnwindScratch
    BY <1>4, PromiseUnlink DEF Start, RemoveTree, UnwindScratch
<1>5. CASE \/ Discover \/ TrackId \/ TrackScratch \/ ReadSources \/ Validate \/ Replay \/ SyncDir \/ Release
           \/ Return \/ Exit \/ Signal \/ Kill \/ UNCHANGED vars
    BY <1>1, <1>5 DEF Discover, TrackId, TrackScratch, ReadSources, Validate, Replay, SyncDir, Release,
       Return, Exit, Signal, Kill, vars
<1>6. CASE MakeIdDir \/ MakeScratch
    BY <1>1, <1>2, <1>6 DEF MakeIdDir, MakeScratch
<1>7. CASE Prepare \/ WriteDiagnostics
    BY <1>1, <1>2, <1>3, <1>7 DEF Prepare, WriteDiagnostics
<1>8. CASE Stage
    <2>1. PICK f \in First(t.left) : Put(<<"scratch", f>>, TRUE) \/ Put(<<"scratch", f>>, FALSE)
        BY <1>8 DEF Stage
    <2>2. doc' = doc
        BY <1>8 DEF Stage
    <2> QED
        BY <1>2, <2>1, <2>2
<1>9. CASE LeakSearch
    BY <1>2, <1>9 DEF LeakSearch
<1>10. CASE Publish
    <2>1. PICK f \in First(t.left) : Put(<<Dir, f>>, FALSE) \/ disk' = disk
        BY <1>10 DEF Publish
    <2>2. t.pc = "publish" /\ doc' = doc
        BY <1>10 DEF Publish, At
    <2>3. f \in Data
        BY MemoryFacts DEF Inv, TypeOK, First
    <2> QED
        BY <1>1, <2>1, <2>2, <2>3, PromiseWrites
<1>11. CASE WriteData
    <2>1. PICK f \in First(t.left) : Put(<<Dir, f>>, TRUE) \/ disk' = disk
        BY <1>11 DEF WriteData
    <2>2. t.pc = "write" /\ doc' = doc
        BY <1>11 DEF WriteData, At
    <2>3. f \in Data
        BY MemoryFacts DEF Inv, TypeOK, First
    <2> QED
        BY <1>1, <2>1, <2>2, <2>3, PromiseWrites
<1>12. CASE Finish
    <2>1. doc' = doc /\ (Unlink(t.written) \/ disk' = disk)
        BY <1>12 DEF Finish
    <2> QED
        BY <1>1, <2>1, PromiseUnlink
<1>13. CASE WriteTmp
    <2>1. doc' = doc /\ (Put(<<Dir, "manifest.json.tmp">>, TRUE) \/ Unlink({<<Dir, "manifest.json.tmp">>}))
        BY <1>13 DEF WriteTmp
    <2> QED
        BY <1>2, <1>3, <2>1, PromiseUnlink
<1>14. CASE RecordFails
    <2>1. doc' = doc /\ (Unlink(t.written) \/ disk' = disk)
        BY <1>14 DEF RecordFails
    <2> QED
        BY <1>1, <2>1, PromiseUnlink
<1>15. CASE Clear \/ Rename \/ RemoveRecord \/ Handler
    BY <1>15, PromiseClear, PromiseRename, PromiseRemoveRecord, PromiseHandler
<1> QED
    BY <1>4, <1>5, <1>6, <1>7, <1>8, <1>9, <1>10, <1>11, <1>12, <1>13, <1>14, <1>15 DEF Next, Pipeline

-----------------------------------------------------------------------------
(* The inductive invariant holds at every step of every run of the tool, of *)
(* the handler and of SIGKILL (core/pipeline.cpp, core/cleanup.cpp).        *)
THEOREM Invariant == Spec => []Inv
    BY InitInv, StepInv, PTL DEF Spec

(* Every path, the manifest and the tool's memory hold what the code can put there. *)
THEOREM TypeCorrect == Spec => []TypeOK
<1>1. Inv => TypeOK
    BY DEF Inv
<1> QED
    BY <1>1, Invariant, PTL

(* No data file reaches --out, or the directory of --print-id, from a capture whose files break a   *)
(* schema or hold an identifier (Run::stage_and_check).                                             *)
THEOREM OnlyChecked == Spec => []NothingUnchecked
<1>1. Inv => NothingUnchecked
    BY DEF Inv, SickInv
<1> QED
    BY <1>1, Invariant, PTL

(* A manifest that is not failed has all of its files while its capture runs, its signal handler    *)
(* included, until a record that could not be synced is removed (write_manifest_atomic,             *)
(* run_signal_cleanup).                                                                             *)
THEOREM ManifestLast == Spec => []ManifestComesLast
<1>1. Inv => ManifestComesLast
    <2> SUFFICES ASSUME Inv, ~At("idle"), t.n > 0, doc.by = t.n, doc.status # "failed", "other" \notin t.why
                 PROVE  Published(t.n)
        BY DEF ManifestComesLast
    <2>1. CASE t.pc = "handler"
        BY <2>1 DEF Inv, HandlerInv, At
    <2>2. CASE t.pc # "handler"
        BY <2>2, OwnManifest DEF Running
    <2> QED
        BY <2>1, <2>2
<1> QED
    BY <1>1, Invariant, PTL

(* However a capture ends, but for SIGKILL, what it left is what its end says: by its exit code,    *)
(* after a signal, and after --print-id (Run::finish, on_signal, print_id).                         *)
THEOREM EndsTruthfully == Spec => []EndsAsItSays
<1>1. Inv => EndsAsItSays
    BY DEF Inv
<1> QED
    BY <1>1, Invariant, PTL

(* The pipeline, its handler and SIGKILL keep the promise of the directory: files of one capture    *)
(* only, written only while there is no manifest, listed only when all are there.                   *)
THEOREM KeepsThePromise == Spec => ImplementsDir
<1>1. Init => Promise!DirInit
    <2> SUFFICES ASSUME Init PROVE Promise!DirInit
        OBVIOUS
    <2>1. PICK used \in BOOLEAN, other \in BOOLEAN :
              disk = [p \in Paths |->
                        IF \/ used /\ p = <<"out", ".">>
                           \/ used /\ other /\ p = <<"out", "other">>
                        THEN [by |-> User, whole |-> TRUE] ELSE Nothing]
        BY DEF Init
    <2>2. \A f \in Data : <<"out", f>> # <<"out", ".">> /\ <<"out", f>> # <<"out", "other">>
        BY NameFacts, PathFacts
    <2>3. \A f \in Data : disk[<<"out", f>>] = Nothing
        BY <2>1, <2>2, PromiseFacts
    <2>4. [f \in Data |-> disk[<<"out", f>>]] = [f \in Data |-> Nothing]
        BY <2>3
    <2>5. doc = NoManifest
        BY DEF Init
    <2> QED
        BY <2>4, <2>5, PromiseFacts DEF Promise!DirInit, Data
<1>2. Inv /\ [Next]_vars => [Promise!DirNext]_Promise!dirVars
    BY StepKeepsPromise DEF PromiseStep
<1> QED
    BY <1>1, <1>2, Invariant, PTL DEF Spec, ImplementsDir, Promise!DirSpec

=============================================================================
