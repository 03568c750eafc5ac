--------------------------- MODULE CollectProofs ---------------------------
(***************************************************************************)
(* What the CLI copies out of the pods before they go.                      *)
(*                                                                          *)
(* The capture (CaptureFetch): what reaches the results is one published    *)
(* capture, for any set of data files and any number of captures.  The      *)
(* argument needs that the manifest of the second read is the first one's,  *)
(* which was checked, and that only Verify puts files into the results.     *)
(*                                                                          *)
(* The steps and the tests (Verdicts): a verdict on the copies is true of   *)
(* the pods, for any plan, any junit files and any number of pods, because  *)
(* a copy is how the pod's file began.                                      *)
(***************************************************************************)
EXTENDS CaptureFetch, Verdicts, SequenceTheorems, WellFoundedInduction, TLAPS

(* The strengthening: a first manifest was checked, and the results have a  *)
(* manifest from Verify on.                                                 *)
Placed ==
    /\ Second => check_manifest(first)
    /\ pc = "diagnostics" => dest.doc # NoManifest
    /\ pc \notin {"diagnostics", "accepted", "rejected"} => dest = NoDest

Inv == TypeOK /\ DestIsOneCapture /\ Placed

USE CaptureDirAssumption

\* A file that is not there, and a directory without files, have their types.
LEMMA NothingIsContent == Nothing \in Content /\ NoData \in [Data -> Content]
  BY DEF Nothing, Content, NoData

\* The fetch begins with empty results.
LEMMA InitInv == Init => Inv
  <1> SUFFICES ASSUME Init PROVE Inv
    OBVIOUS
  <1> USE DEF Init, DirInit, NoCopies, NoDest
  <1>1. TypeOK
    BY NothingIsContent DEF TypeOK, NoData
  <1>2. DestIsOneCapture /\ Placed
    BY DEF DestIsOneCapture, Placed, Second, NoData, NoManifest
  <1> QED BY <1>1, <1>2 DEF Inv

(* The steps of the capture tool keep the directory in its type. *)
LEMMA DirType ==
    ASSUME data \in [Data -> Content], doc \in Manifest \cup {NoManifest}, DirNext
    PROVE  data' \in [Data -> Content] /\ doc' \in Manifest \cup {NoManifest}
  <1>1. ASSUME NEW k \in Captures, Write(k) PROVE data' \in [Data -> Content] /\ doc' = doc
    BY <1>1 DEF Write, Content
  <1>2. ASSUME NEW k \in Captures, Publish(k) PROVE data' = data /\ doc' \in Manifest
    BY <1>2 DEF Publish
  <1>3. ASSUME RemoveData PROVE data' \in [Data -> Content] /\ doc' = doc
    BY <1>3, NothingIsContent DEF RemoveData
  <1>4. ASSUME RemoveManifest PROVE data' = data /\ doc' = NoManifest
    BY <1>4 DEF RemoveManifest
  <1> QED BY <1>1, <1>2, <1>3, <1>4 DEF DirNext

(* What a rejection leaves of the results. *)
LEMMA RejectType ==
    ASSUME Reject
    PROVE  /\ pc' = "rejected"
           /\ dest' \in [there : BOOLEAN, doc : Manifest \cup {NoManifest},
                        data : [Data -> Content], diagnostics : BOOLEAN]
           /\ dest'.doc = NoManifest /\ dest'.doc.files = {}
           /\ \A f \in Data : dest'.data[f] = Nothing
  <1>1. PICK d \in BOOLEAN : dest' = [NoDest EXCEPT !.there = TRUE, !.diagnostics = d]
    BY DEF Reject
  <1>2. dest' = [there |-> TRUE, doc |-> NoManifest, data |-> NoData, diagnostics |-> d]
    BY <1>1 DEF NoDest
  <1>3. dest'.data = NoData /\ dest'.doc = NoManifest /\ NoManifest.files = {}
    BY <1>2 DEF NoManifest
  <1> QED BY <1>2, <1>3, NothingIsContent DEF Reject, NoData

\* Every step of the fetch and of the directory keeps the invariant.
LEMMA StepInv == Inv /\ [Next]_vars => Inv'
  <1> SUFFICES ASSUME Inv, [Next]_vars PROVE Inv'
    OBVIOUS
  <1> USE DEF Inv, TypeOK, DestIsOneCapture, Placed, Ended, Second
  <1>1. CASE DirNext /\ UNCHANGED <<pc, again, first, got, dest>>
    BY <1>1, DirType
  <1>2. CASE Probe
    BY <1>2, RejectType DEF Probe, dirVars
  <1>3. CASE Sizes
    BY <1>3, RejectType DEF Sizes, dirVars
  <1>4. CASE TarCopies
    <2> UNCHANGED <<dirVars, pc, again, first, dest>>
      BY <1>4 DEF TarCopies
    <2>1. CASE got' = [got EXCEPT !.doc = doc]
      BY <2>1 DEF dirVars
    <2>2. CASE \E f \in Wanted : got' = [got EXCEPT !.data[f] = data[f]]
      <3>1. PICK f \in Wanted : got' = [got EXCEPT !.data[f] = data[f]]
        BY <2>2
      <3>2. f \in first.files /\ f \in Data
        BY DEF Wanted, Second, Manifest, NoManifest
      <3>3. got'.doc = got.doc /\ got'.data = [got.data EXCEPT ![f] = data[f]]
        BY <3>1, <3>2
      <3>4. got' \in [doc : Manifest \cup {NoManifest}, data : [Data -> Content]]
        BY <3>1, <3>2
      <3> QED BY <3>2, <3>3, <3>4 DEF dirVars
    <2> QED BY <1>4, <2>1, <2>2 DEF TarCopies
  <1>5. CASE TransportError
    BY <1>5, RejectType, NothingIsContent DEF TransportError, NoCopies, NoData, dirVars
  <1>6. CASE FirstManifest
    <2> /\ UNCHANGED dirVars /\ again' = FALSE
        /\ got' \in [doc : Manifest \cup {NoManifest}, data : [Data -> Content]]
        /\ \A f \in Data : got'.data[f] = Nothing
      BY <1>6, NothingIsContent DEF FirstManifest, NoCopies, NoData
    <2>0. pc = "tar"
      BY <1>6 DEF FirstManifest, TarDone
    <2>1. CASE check_manifest(got.doc) /\ first' = got.doc /\ pc' = "probe" /\ dest' = dest
      <3>1. TypeOK'
        BY <2>1 DEF dirVars
      <3>2. DestIsOneCapture' /\ Placed'
        BY <2>0, <2>1 DEF check_manifest
      <3> QED BY <3>1, <3>2
    <2>2. CASE Reject /\ first' = first
      BY <2>2, RejectType DEF dirVars
    <2> QED BY <1>6, <2>1, <2>2 DEF FirstManifest
  <1>7. CASE Verify
    <2> UNCHANGED <<dirVars, again, first, got>> /\ first.files \subseteq Data
      BY <1>7 DEF Verify, Manifest, NoManifest
    <2>1. CASE /\ Unchanged /\ verify_dir(first) /\ pc' = "diagnostics"
               /\ dest' = [NoDest EXCEPT !.there = TRUE, !.doc = got.doc, !.data = got.data]
      <3>1. dest' = [there |-> TRUE, doc |-> first, data |-> got.data, diagnostics |-> FALSE]
        BY <2>1 DEF NoDest, Unchanged
      <3>2. first # NoManifest /\ check_manifest(first)
        BY <1>7 DEF Verify
      <3>3. \A f \in first.files : SameBytes(got.data[f], f, first)
        BY <2>1 DEF verify_dir, Hash
      <3>4. dest' \in [there : BOOLEAN, doc : Manifest \cup {NoManifest},
                      data : [Data -> Content], diagnostics : BOOLEAN]
        BY <3>1
      <3>5. dest'.data = got.data /\ dest'.doc = first
        BY <3>1
      <3>6. DestIsOneCapture'
        BY <2>1, <3>2, <3>3, <3>5
      <3> QED BY <2>1, <3>2, <3>4, <3>5, <3>6 DEF dirVars
    <2>2. CASE Reject
      BY <2>2, RejectType DEF dirVars
    <2> QED BY <1>7, <2>1, <2>2 DEF Verify
  <1>8. CASE Diagnostics
    BY <1>8 DEF Diagnostics, dirVars
  <1>9. CASE LocalIo
    BY <1>9 DEF LocalIo, dirVars
  <1>10. CASE UNCHANGED vars
    BY <1>10 DEF vars, dirVars
  <1> QED BY <1>1, <1>2, <1>3, <1>4, <1>5, <1>6, <1>7, <1>8, <1>9, <1>10 DEF Next, Fetch

(* The type invariant holds for every instance. *)
THEOREM TypeCorrect == Spec => []TypeOK
  <1>1. Inv => TypeOK
    BY DEF Inv
  <1> QED BY InitInv, StepInv, <1>1, PTL DEF Spec

(* Whatever the capture tool does to the directory within its promise while *)
(* the fetch reads, the results hold one published capture, its checked     *)
(* manifest and the whole files that lists, or nothing of one.              *)
THEOREM FetchedIsOneCapture == Spec => []DestIsOneCapture
  <1>1. Inv => DestIsOneCapture
    BY DEF Inv
  <1> QED BY InitInv, StepInv, <1>1, PTL DEF Spec

-----------------------------------------------------------------------------
(* The verdict on the copies (Verdicts), for any plan, junit files and      *)
(* number of pods.                                                          *)

StepEntries == [name : Nat, kind : StepKinds, code : Nat]

Begins(a, b) == Len(a) <= Len(b) /\ \A i \in 1..Len(a) : a[i] = b[i]

\* A steps.json lists the plan from its start, and only its last step counts against the run.
FollowsPlan(q) ==
    /\ q \in Seq(StepEntries) /\ Len(q) <= Len(Plan)
    /\ \A k \in 1..Len(q) : q[k].name = k /\ q[k].kind = Plan[k]
    /\ \A k \in 1..Len(q) : Failing(q[k]) => k = Len(q)

RecordsOK ==
    /\ steps = [r \in Ranks |-> steps[r]] /\ junit = [r \in Ranks |-> junit[r]]
    /\ control = [r \in Ranks |-> control[r]] /\ files = [r \in Ranks |-> files[r]]
    /\ \A r \in Ranks : FollowsPlan(steps[r].steps) /\ junit[r] \in Seq(JunitFiles)
    /\ at \in Ranks /\ phase \in {"control", "artifacts", "judge", "judged"}

Whole(r) == Len(control[r].steps) = Len(Plan)

\* The copies are how the pods' files began; the tests are copied after the steps, so
\* beside a complete plan they are all there are.
CopiesOK ==
    \A r \in Ranks :
        /\ control[r].steps \in Seq(StepEntries) /\ Begins(control[r].steps, steps[r].steps)
        /\ files[r] \in Seq(JunitFiles) /\ Begins(files[r], junit[r])
        /\ Whole(r) /\ (r < at \/ phase \in {"judge", "judged"}) => files[r] = junit[r]

NoneFails(q) == \A k \in 1..Len(q) : ~Failing(q[k])
NoneBad(fs) == \A k \in 1..Len(fs) : ~BadJunit(GpuProfile, fs[k])

\* What the copies show when the verdict is a pass, and when it is a test failure.
SomeEmpty(js) == \E k \in 1..Len(js) : ~js[k].valid \/ js[k].cases = {}
VerdictOK ==
    phase = "judged" =>
        /\ verdict = Passed =>
             \A r \in Ranks : Whole(r) /\ NoneFails(control[r].steps) /\ NoneBad(files[r])
        /\ verdict.test_code = 1 =>
             /\ \A r \in Ranks :
                  /\ control[r].state \notin {"timeout", "terminated"}
                  /\ \/ Whole(r) /\ NoneFails(control[r].steps)
                     \/ \E k \in 1..Len(control[r].steps) :
                          /\ control[r].steps[k].kind \in {"build", "command"}
                          /\ control[r].steps[k].code # 0
             /\ \E r \in Ranks : ~NoneFails(control[r].steps) \/ SomeEmpty(files[r])

JudgeInv == RecordsOK /\ CopiesOK /\ VerdictOK

\* Every set of naturals that is not empty has a least element.
LEMMA LeastNat ==
  ASSUME NEW S \in SUBSET Nat, S # {}
  PROVE  \E m \in S : \A k \in S : m <= k
<1> DEFINE R == {ss \in Nat \X Nat : ss[1] < ss[2]}
<1>0. IsWellFoundedOn(R, Nat)
  BY NatLessThanWellFounded, Zenon DEF OpToRel
<1> HIDE DEF R
<1>1. PICK m \in S : \A y \in S : <<y, m>> \notin R
  BY <1>0, WFMin
<1>2. ASSUME NEW k \in S PROVE m <= k
  <2>1. <<k, m>> \notin R
    BY <1>1
  <2>2. k \in Nat /\ m \in Nat
    OBVIOUS
  <2>3. <<k, m>> \in Nat \X Nat => <<k, m>>[1] >= <<k, m>>[2]
    BY <2>1, <2>2 DEF R
  <2> QED BY <2>2, <2>3
<1> QED BY <1>2

FirstOf(H) == IF H = {} THEN 0 ELSE CHOOSE k \in H : \A j \in H : k <= j

\* The first of some positions is one of them.
LEMMA FirstOfHits ==
  ASSUME NEW H \in SUBSET (Nat \ {0})
  PROVE  (FirstOf(H) = 0 <=> H = {}) /\ (FirstOf(H) # 0 => FirstOf(H) \in H)
<1> USE DEF FirstOf
<1>1. CASE H = {}
  BY <1>1
<1>2. CASE H # {}
  <2>1. \E m \in H : \A k \in H : m <= k
    BY <1>2, LeastNat
  <2> QED BY <1>2, <2>1
<1> QED BY <1>1, <1>2

\* A verdict v on the copies d and js: infrastructure, a pass, or a test failure
\* with what each of the last two needs.
Says(v, d, js) ==
    \/ v.infra = TRUE /\ v.test_code = 0
    \/ /\ v = Passed
       /\ d.state \notin {"timeout", "terminated"}
       /\ NoneFails(d.steps) /\ Names(d.steps) = Planned /\ NoneBad(js)
    \/ /\ v.infra = FALSE /\ v.test_code = 1
       /\ d.state \notin {"timeout", "terminated"}
       /\ \/ \E k \in 1..Len(d.steps) :
               Failing(d.steps[k]) /\ d.steps[k].kind \notin {"preflight", "install"}
          \/ NoneFails(d.steps) /\ Names(d.steps) = Planned /\ SomeEmpty(js)

\* What guards.evaluate concludes of one rank's copies, said without its order.
LEMMA EvaluateSays ==
  ASSUME NEW d, NEW js, NEW summary \in BOOLEAN, NEW v,
         d.steps \in Seq(StepEntries), js \in Seq(JunitFiles),
         v = Evaluate(d, js, GpuProfile, Planned, FALSE, summary)
  PROVE  Says(v, d, js)
<1> USE DEF Says
<1> DEFINE ran == d.steps
           H == {k \in DOMAIN ran : Failing(ran[k])}
           J == {k \in DOMAIN js : BadJunit(GpuProfile, js[k])}
           bad == FirstOf(H)
           worst == FirstOf(J)
<1>1. DOMAIN ran = 1..Len(ran) /\ DOMAIN js = 1..Len(js) /\ Len(ran) \in Nat /\ Len(js) \in Nat
  OBVIOUS
<1>2. H \in SUBSET (Nat \ {0}) /\ J \in SUBSET (Nat \ {0})
  BY <1>1
<1>3. (bad = 0 <=> H = {}) /\ (bad # 0 => bad \in H)
  <2> HIDE DEF H
  <2> QED BY <1>2, FirstOfHits
<1>4. (worst = 0 <=> J = {}) /\ (worst # 0 => worst \in J)
  <2> HIDE DEF J
  <2> QED BY <1>2, FirstOfHits
<1>5. v = IF d.state = "code_wait_timeout" \/ d.code_wait = "timeout" THEN Infra(None)
          ELSE IF d.state \in {"timeout", "terminated"} THEN Infra(LastName(ran))
          ELSE IF bad # 0 THEN StepVerdict(ran[bad])
          ELSE IF Incomplete(ran, Planned) THEN Infra(LastName(ran))
          ELSE IF ~summary THEN Infra(Configure)
          ELSE IF worst # 0 THEN JunitVerdict(js[worst], CommandName(ran))
          ELSE Passed
  BY Zenon DEF Evaluate, FirstWith, FirstOf
<1>6. NoneFails(ran) <=> H = {}
  BY <1>1 DEF NoneFails
<1>7. NoneBad(js) <=> J = {}
  BY <1>1 DEF NoneBad
<1> HIDE DEF ran, bad, worst, J, H
<1>8. ASSUME NEW s PROVE Infra(s).infra = TRUE /\ Infra(s).test_code = 0
  BY DEF Infra, Verdict
<1>9. ASSUME NEW s PROVE Verdict(1, FALSE, s).infra = FALSE /\ Verdict(1, FALSE, s).test_code = 1
  BY DEF Verdict
<1>10. CASE d.state = "code_wait_timeout" \/ d.code_wait = "timeout" \/ d.state \in {"timeout", "terminated"}
  BY <1>5, <1>8, <1>10
<1>11. CASE /\ ~(d.state = "code_wait_timeout" \/ d.code_wait = "timeout" \/ d.state \in {"timeout", "terminated"})
            /\ bad # 0
  <2>1. v = StepVerdict(ran[bad])
    BY <1>5, <1>11
  <2>2. bad \in 1..Len(ran) /\ Failing(ran[bad])
    BY <1>1, <1>3, <1>11 DEF H
  <2>3. CASE ran[bad].kind \in {"preflight", "install"}
    BY <1>8, <2>1, <2>3 DEF StepVerdict
  <2>4. CASE ran[bad].kind \notin {"preflight", "install"}
    BY <1>9, <1>11, <2>1, <2>2, <2>4 DEF StepVerdict, ran
  <2> QED BY <2>3, <2>4
<1>12. CASE /\ ~(d.state = "code_wait_timeout" \/ d.code_wait = "timeout" \/ d.state \in {"timeout", "terminated"})
            /\ bad = 0 /\ (Incomplete(ran, Planned) \/ ~summary)
  BY <1>5, <1>8, <1>12
<1>13. CASE /\ ~(d.state = "code_wait_timeout" \/ d.code_wait = "timeout" \/ d.state \in {"timeout", "terminated"})
            /\ bad = 0 /\ ~Incomplete(ran, Planned) /\ summary
  <2>1. NoneFails(ran) /\ Names(ran) = Planned
    BY <1>3, <1>6, <1>13 DEF Incomplete
  <2>2. CASE worst # 0
    <3>1. v = JunitVerdict(js[worst], CommandName(ran))
      BY <1>5, <1>13, <2>2
    <3>2. worst \in 1..Len(js)
      BY <1>1, <1>4, <2>2 DEF J
    <3>3. CASE ~js[worst].valid \/ js[worst].cases = {}
      BY <1>9, <1>13, <2>1, <3>1, <3>2, <3>3 DEF JunitVerdict, SomeEmpty, ran
    <3>4. CASE ~(~js[worst].valid \/ js[worst].cases = {})
      BY <1>8, <3>1, <3>4 DEF JunitVerdict
    <3> QED BY <3>3, <3>4
  <2>3. CASE worst = 0
    BY <1>4, <1>5, <1>7, <1>13, <2>1, <2>3 DEF ran
  <2> QED BY <2>2, <2>3
<1> QED BY <1>10, <1>11, <1>12, <1>13

\* What guards.combine concludes: infrastructure wins over a failure, a failure over a pass.
LEMMA CombineSays ==
  ASSUME Pods \in Nat \ {0}, NEW vs, vs = [r \in Ranks |-> vs[r]],
         \A r \in Ranks : /\ vs[r].infra \in BOOLEAN /\ vs[r].test_code \in {0, 1}
                          /\ vs[r].infra => vs[r].test_code = 0
         , NEW v, v = Combine(vs)
  PROVE  /\ v.test_code = 1 => (\A r \in Ranks : ~vs[r].infra) /\ (\E r \in Ranks : vs[r].test_code = 1)
         /\ v = Passed => \A r \in Ranks : ~vs[r].infra /\ vs[r].test_code = 0
<1> DEFINE E == {k \in DOMAIN vs : vs[k].infra}
           F == {k \in DOMAIN vs : vs[k].test_code # 0}
           broken == FirstOf(E)
           failed == FirstOf(F)
<1>1. DOMAIN vs = Ranks /\ Len(vs) = Pods /\ Ranks = 1..Pods
  <2>1. DOMAIN vs = Ranks
    OBVIOUS
  <2> QED BY <2>1 DEF Ranks
<1>2. E \in SUBSET (Nat \ {0}) /\ F \in SUBSET (Nat \ {0})
  BY <1>1
<1>3. (broken = 0 <=> E = {}) /\ (broken # 0 => broken \in E)
  <2> HIDE DEF E
  <2> QED BY <1>2, FirstOfHits
<1>4. (failed = 0 <=> F = {}) /\ (failed # 0 => failed \in F)
  <2> HIDE DEF F
  <2> QED BY <1>2, FirstOfHits
<1>5. v = IF Len(vs) = 1 THEN vs[1] ELSE IF broken # 0 THEN vs[broken] ELSE IF failed # 0 THEN vs[failed] ELSE Passed
  BY Zenon DEF Combine, FirstWith, FirstOf
<1>6. Passed.test_code = 0 /\ Passed.infra = FALSE
  BY DEF Passed, Verdict
<1>7. CASE Pods = 1
  <2>1. Ranks = {1} /\ v = vs[1]
    BY <1>1, <1>5, <1>7
  <2> QED BY <1>6, <2>1
<1>8. CASE Pods # 1 /\ broken # 0
  <2>1. v = vs[broken] /\ broken \in Ranks /\ vs[broken].infra
    BY <1>1, <1>3, <1>5, <1>8
  <2>2. v.infra /\ v.test_code = 0
    BY <2>1, Zenon
  <2>3. v # Passed
    BY <1>6, <2>2, Zenon
  <2> QED BY <2>2, <2>3
<1>9. CASE Pods # 1 /\ broken = 0 /\ failed # 0
  <2>1. v = vs[failed] /\ failed \in Ranks /\ vs[failed].test_code # 0 /\ \A r \in Ranks : ~vs[r].infra
    BY <1>1, <1>3, <1>4, <1>5, <1>9
  <2> QED BY <1>6, <2>1
<1>10. CASE Pods # 1 /\ broken = 0 /\ failed = 0
  <2>1. v = Passed /\ \A r \in Ranks : ~vs[r].infra /\ vs[r].test_code = 0
    BY <1>1, <1>3, <1>4, <1>5, <1>10
  <2> QED BY <1>6, <2>1
<1> QED BY <1>7, <1>8, <1>9, <1>10

\* Nothing has run and nothing is copied.
LEMMA JudgeInit == CopyInit => JudgeInv
<1> SUFFICES ASSUME CopyInit PROVE JudgeInv
  OBVIOUS
<1>1. NotBegun.steps = <<>>
  BY DEF NotBegun, Document
<1>2. Len(Plan) \in Nat /\ 1 \in Ranks
  BY VerdictsAssumption DEF Ranks
<1>3. FollowsPlan(<<>>)
  BY <1>2 DEF FollowsPlan
<1>4. RecordsOK
  BY <1>1, <1>2, <1>3 DEF RecordsOK, CopyInit
<1>5. CopiesOK
  <2>1. ASSUME NEW r \in Ranks
        PROVE  /\ control[r].steps = <<>> /\ steps[r].steps = <<>>
               /\ files[r] = <<>> /\ junit[r] = <<>>
    BY <1>1 DEF CopyInit
  <2>2. Begins(<<>>, <<>>) /\ <<>> \in Seq(StepEntries) /\ <<>> \in Seq(JunitFiles)
    BY DEF Begins
  <2> QED BY <2>1, <2>2 DEF CopiesOK
<1> QED BY <1>4, <1>5 DEF JudgeInv, VerdictOK, CopyInit

\* Whoever judges, the copies say it.
LEMMA JudgeStep ==
  ASSUME JudgeInv, Judge PROVE JudgeInv'
<1>0. Pods \in Nat \ {0} /\ Plan \in Seq(StepKinds) /\ Len(Plan) \in Nat
  BY VerdictsAssumption
<1>1. PICK summary \in BOOLEAN :
         verdict' = Combine([r \in Ranks |->
             Evaluate(control[r], files[r], GpuProfile, Planned, FALSE, summary)])
  BY DEF Judge
<1> DEFINE vs == [r \in Ranks |->
             Evaluate(control[r], files[r], GpuProfile, Planned, FALSE, summary)]
           IsInfra(r) == vs[r].infra = TRUE /\ vs[r].test_code = 0
           IsPass(r) == /\ vs[r] = Passed
                        /\ control[r].state \notin {"timeout", "terminated"}
                        /\ NoneFails(control[r].steps) /\ Names(control[r].steps) = Planned
                        /\ NoneBad(files[r])
           IsFailure(r) == /\ vs[r].infra = FALSE /\ vs[r].test_code = 1
                           /\ control[r].state \notin {"timeout", "terminated"}
                           /\ \/ \E k \in 1..Len(control[r].steps) :
                                   /\ Failing(control[r].steps[k])
                                   /\ control[r].steps[k].kind \notin {"preflight", "install"}
                              \/ /\ NoneFails(control[r].steps) /\ Names(control[r].steps) = Planned
                                 /\ SomeEmpty(files[r])
<1>2. ASSUME NEW r \in Ranks PROVE IsInfra(r) \/ IsPass(r) \/ IsFailure(r)
  <2>1. control[r].steps \in Seq(StepEntries) /\ files[r] \in Seq(JunitFiles)
    BY DEF JudgeInv, CopiesOK
  <2>2. vs[r] = Evaluate(control[r], files[r], GpuProfile, Planned, FALSE, summary)
    OBVIOUS
  <2> HIDE DEF vs
  <2>3. Says(vs[r], control[r], files[r])
    BY <2>1, <2>2, EvaluateSays
  <2> QED BY <2>3 DEF Says
<1>3. vs = [r \in Ranks |-> vs[r]] /\ verdict' = Combine(vs)
  BY <1>1
<1> HIDE DEF vs
<1>4. Passed.infra = FALSE /\ Passed.test_code = 0
  BY DEF Passed, Verdict
<1>5. \A r \in Ranks : /\ vs[r].infra \in BOOLEAN /\ vs[r].test_code \in {0, 1}
                       /\ vs[r].infra => vs[r].test_code = 0
  BY <1>2, <1>4
<1>6. /\ verdict'.test_code = 1 => (\A r \in Ranks : ~vs[r].infra) /\ (\E r \in Ranks : vs[r].test_code = 1)
      /\ verdict' = Passed => \A r \in Ranks : ~vs[r].infra /\ vs[r].test_code = 0
  BY <1>0, <1>3, <1>5, CombineSays
<1>7. ASSUME NEW r \in Ranks, Names(control[r].steps) = Planned PROVE Whole(r)
  <2>1. control[r].steps \in Seq(StepEntries)
    BY DEF JudgeInv, CopiesOK
  <2>2. DOMAIN Names(control[r].steps) = 1..Len(control[r].steps) /\ Len(control[r].steps) \in Nat
    BY <2>1 DEF Names
  <2>3. DOMAIN Planned = 1..Len(Plan)
    BY <1>0 DEF Planned
  <2> QED BY <1>0, <1>7, <2>2, <2>3 DEF Whole
<1>8. control' = control /\ files' = files /\ phase' = "judged"
      /\ steps' = steps /\ junit' = junit /\ at' = at /\ phase = "judge"
  BY DEF Judge, podVars
<1>9. VerdictOK'
  <2>1. ASSUME verdict' = Passed
        PROVE  \A r \in Ranks : Whole(r) /\ NoneFails(control[r].steps) /\ NoneBad(files[r])
    <3> SUFFICES ASSUME NEW r \in Ranks
                 PROVE  Whole(r) /\ NoneFails(control[r].steps) /\ NoneBad(files[r])
      OBVIOUS
    <3>1. ~vs[r].infra /\ vs[r].test_code = 0
      BY <1>6, <2>1, Zenon
    <3>2. ~IsInfra(r) /\ ~IsFailure(r)
      BY <3>1
    <3>3. IsPass(r)
      BY <1>2, <3>2
    <3> QED BY <1>7, <3>3
  <2>2. ASSUME verdict'.test_code = 1, NEW r \in Ranks
        PROVE  /\ control[r].state \notin {"timeout", "terminated"}
               /\ \/ Whole(r) /\ NoneFails(control[r].steps)
                  \/ \E k \in 1..Len(control[r].steps) :
                       /\ control[r].steps[k].kind \in {"build", "command"}
                       /\ control[r].steps[k].code # 0
    <3>1. IsPass(r) \/ IsFailure(r)
      BY <1>2, <1>6, <2>2
    <3>2. control[r].steps \in Seq(StepEntries)
      BY DEF JudgeInv, CopiesOK
    <3>3. ASSUME NEW k \in 1..Len(control[r].steps), Failing(control[r].steps[k]),
                 control[r].steps[k].kind \notin {"preflight", "install"}
          PROVE  /\ control[r].steps[k].kind \in {"build", "command"}
                 /\ control[r].steps[k].code # 0
      <4>1. control[r].steps[k] \in StepEntries
        BY <3>2
      <4> QED BY <3>3, <4>1 DEF StepEntries, StepKinds, Failing
    <3>4. CASE IsPass(r)
      BY <1>7, <3>4
    <3>5. CASE IsFailure(r)
      BY <1>7, <3>3, <3>5
    <3> QED BY <3>1, <3>4, <3>5
  <2>3. ASSUME verdict'.test_code = 1
        PROVE  \E r \in Ranks : ~NoneFails(control[r].steps) \/ SomeEmpty(files[r])
    <3>1. PICK r \in Ranks : vs[r].test_code = 1
      BY <1>6, <2>3
    <3>2. IsFailure(r)
      <4>1. ~IsInfra(r) /\ ~IsPass(r)
        BY <1>4, <3>1
      <4> QED BY <1>2, <4>1
    <3> QED BY <3>2 DEF NoneFails
  <2> QED BY <1>8, <2>1, <2>2, <2>3 DEF VerdictOK, Whole, NoneFails, NoneBad, SomeEmpty
<1>10. RecordsOK' /\ CopiesOK'
  BY <1>8 DEF JudgeInv, RecordsOK, CopiesOK, Whole, FollowsPlan
<1> QED BY <1>9, <1>10 DEF JudgeInv

\* A document that begins another begins what that grows into.
LEMMA BeginsAppend ==
  ASSUME NEW S, NEW a \in Seq(S), NEW b \in Seq(S), NEW e \in S, Begins(a, b)
  PROVE  Begins(a, Append(b, e))
<1>1. /\ Len(Append(b, e)) = Len(b) + 1 /\ \A i \in 1..Len(b) : Append(b, e)[i] = b[i]
      /\ Len(a) \in Nat /\ Len(b) \in Nat
  BY AppendProperties
<1> QED BY <1>1 DEF Begins

\* What the records of rank r become: as they were, or with the next step.
Grows(r) ==
    \/ steps'[r].steps = steps[r].steps
    \/ /\ StepLeft(r)
       /\ \E code \in Nat : steps'[r].steps = Append(steps[r].steps, NextEntry(r, code))

\* A supervisor's write leaves the others' records alone and extends its own by at most a step.
LEMMA WritesGrow ==
  ASSUME JudgeInv, NEW r \in Ranks,
         StepRecorded(r) \/ StepTimedOut(r) \/ Finish(r) \/ OnTerm(r)
  PROVE  /\ Grows(r) /\ \A q \in Ranks : q # r => steps'[q] = steps[q]
         /\ steps' = [q \in Ranks |-> steps'[q]]
         /\ UNCHANGED <<junit, at, phase, control, files, verdict>>
<1>1. DOMAIN steps = Ranks
  <2>1. steps = [q \in Ranks |-> steps[q]]
    BY DEF JudgeInv, RecordsOK
  <2> QED BY <2>1
<1>2. \A s, ran : Document(s, ran).steps = ran
  BY DEF Document
<1>3. 0 \in Nat /\ 1 \in Nat /\ 143 \in Nat
  OBVIOUS
<1>4. UNCHANGED <<junit, at, phase, control, files, verdict>>
  BY DEF StepRecorded, StepTimedOut, Finish, OnTerm, cliVars
<1>5. CASE StepRecorded(r)
  <2>1. PICK code \in {0, 1} : steps' = [steps EXCEPT ![r] =
            Document("running", Append(steps[r].steps, NextEntry(r, code)))]
    BY <1>5 DEF StepRecorded, Ran
  <2>2. steps'[r].steps = Append(steps[r].steps, NextEntry(r, code)) /\ code \in Nat
    <3> DEFINE ran == Append(steps[r].steps, NextEntry(r, code))
    <3>1. steps' = [steps EXCEPT ![r] = Document("running", ran)]
      BY <2>1
    <3> HIDE DEF ran
    <3>2. steps'[r].steps = ran
      BY <1>1, <1>2, <3>1
    <3> QED BY <3>2 DEF ran
  <2> QED BY <1>1, <1>4, <1>5, <2>1, <2>2 DEF StepRecorded, Grows
<1>6. CASE StepTimedOut(r)
  <2>1. PICK code \in {0, 1} : steps' = [steps EXCEPT ![r] =
            Document("timeout", Append(steps[r].steps, NextEntry(r, code)))]
    BY <1>6 DEF StepTimedOut, Ran
  <2>2. steps'[r].steps = Append(steps[r].steps, NextEntry(r, code)) /\ code \in Nat
    <3> DEFINE ran == Append(steps[r].steps, NextEntry(r, code))
    <3>1. steps' = [steps EXCEPT ![r] = Document("timeout", ran)]
      BY <2>1
    <3> HIDE DEF ran
    <3>2. steps'[r].steps = ran
      BY <1>1, <1>2, <3>1
    <3> QED BY <3>2 DEF ran
  <2> QED BY <1>1, <1>4, <1>6, <2>1, <2>2 DEF StepTimedOut, Grows
<1>7. CASE Finish(r)
  <2>1. steps' = [steps EXCEPT ![r] = Document("done", steps[r].steps)]
    BY <1>7 DEF Finish, Ran
  <2>2. steps'[r].steps = steps[r].steps
    BY <1>1, <1>2, <2>1
  <2> QED BY <1>1, <1>4, <2>1, <2>2 DEF Grows
<1>8. CASE OnTerm(r)
  <2>1. PICK ran \in {steps[r].steps} \cup
              (IF StepLeft(r) THEN {Append(steps[r].steps, NextEntry(r, 143))} ELSE {}) :
            steps' = [steps EXCEPT ![r] = Document("terminated", ran)]
    BY <1>8 DEF OnTerm, Ran
  <2>2. steps'[r].steps = ran
    BY <1>1, <1>2, <2>1
  <2>3. Grows(r)
    <3>1. CASE ran = steps[r].steps
      BY <2>2, <3>1 DEF Grows
    <3>2. CASE ran # steps[r].steps
      BY <1>3, <2>1, <2>2, <3>2 DEF Grows
    <3> QED BY <3>1, <3>2
  <2> QED BY <1>1, <1>4, <2>1, <2>3
<1> QED BY <1>5, <1>6, <1>7, <1>8

\* The supervisors' writes to steps.json.
LEMMA WritesKeepJudge ==
  ASSUME JudgeInv, NEW r \in Ranks,
         StepRecorded(r) \/ StepTimedOut(r) \/ Finish(r) \/ OnTerm(r)
  PROVE  JudgeInv'
<1>1. /\ Grows(r) /\ \A q \in Ranks : q # r => steps'[q] = steps[q]
      /\ steps' = [q \in Ranks |-> steps'[q]]
      /\ UNCHANGED <<junit, at, phase, control, files, verdict>>
  BY WritesGrow
<1>2. FollowsPlan(steps[r].steps) /\ Len(Plan) \in Nat /\ Plan \in Seq(StepKinds)
  BY VerdictsAssumption DEF JudgeInv, RecordsOK
<1> DEFINE q == steps[r].steps
<1>3. CASE steps'[r].steps = q
  <2>1. \A s \in Ranks : steps'[s].steps = steps[s].steps
    BY <1>1, <1>3
  <2>2. RecordsOK'
    <3>1. \A s \in Ranks : FollowsPlan(steps'[s].steps)
      BY <2>1 DEF JudgeInv, RecordsOK
    <3> QED BY <1>1, <3>1 DEF JudgeInv, RecordsOK
  <2>3. CopiesOK'
    BY <1>1, <2>1 DEF JudgeInv, CopiesOK, Whole
  <2> QED BY <1>1, <2>2, <2>3 DEF JudgeInv, VerdictOK, Whole, NoneFails, NoneBad, SomeEmpty
<1>4. ASSUME StepLeft(r), NEW code \in Nat, steps'[r].steps = Append(q, NextEntry(r, code))
      PROVE  JudgeInv'
  <2> DEFINE e == NextEntry(r, code)
             n == Len(q)
  <2>1. /\ q \in Seq(StepEntries) /\ n \in Nat /\ n < Len(Plan)
        /\ \A k \in 1..n : q[k].name = k /\ q[k].kind = Plan[k] /\ ~Failing(q[k])
    <3>1. ~Stopped(r) /\ n < Len(Plan)
      BY <1>4 DEF StepLeft, Ran
    <3>2. q \in Seq(StepEntries) /\ n \in Nat /\ DOMAIN q = 1..n
      BY <1>2 DEF FollowsPlan
    <3>3. \A k \in 1..n : ~Failing(q[k])
      BY <3>1, <3>2 DEF Stopped, Ran, Failing
    <3> QED BY <1>2, <3>1, <3>2, <3>3 DEF FollowsPlan
  <2>2. e.name = n + 1 /\ e.kind = Plan[n + 1] /\ e \in StepEntries
    <3>1. n + 1 \in 1..Len(Plan) /\ Plan[n + 1] \in StepKinds
      BY <1>2, <2>1
    <3> QED BY <1>4, <2>1, <3>1 DEF NextEntry, Ran, StepEntries
  <2> HIDE DEF e
  <2>3. /\ Append(q, e) \in Seq(StepEntries) /\ Len(Append(q, e)) = n + 1
        /\ \A k \in 1..n : Append(q, e)[k] = q[k]
        /\ Append(q, e)[n + 1] = e
    BY <2>1, <2>2, AppendProperties
  <2>4. FollowsPlan(Append(q, e))
    <3>1. ASSUME NEW k \in 1..(n + 1)
          PROVE  /\ Append(q, e)[k].name = k /\ Append(q, e)[k].kind = Plan[k]
                 /\ Failing(Append(q, e)[k]) => k = n + 1
      <4>1. CASE k = n + 1
        BY <2>2, <2>3, <4>1
      <4>2. CASE k # n + 1
        <5>1. k \in 1..n
          BY <2>1, <4>2
        <5> QED BY <2>1, <2>3, <5>1
      <4> QED BY <4>1, <4>2
    <3>2. n + 1 <= Len(Plan)
      BY <1>2, <2>1
    <3> QED BY <2>3, <3>1, <3>2 DEF FollowsPlan
  <2>5. ASSUME NEW s \in Ranks PROVE FollowsPlan(steps'[s].steps)
    <3>1. CASE s = r
      BY <1>4, <2>4, <3>1 DEF e
    <3>2. CASE s # r
      BY <1>1, <3>2 DEF JudgeInv, RecordsOK
    <3> QED BY <3>1, <3>2
  <2>6. RecordsOK'
    <3>1. \A s \in Ranks : FollowsPlan(steps[s].steps)'
      BY <2>5 DEF FollowsPlan
    <3> QED BY <1>1, <3>1 DEF JudgeInv, RecordsOK
  <2>7. ASSUME NEW s \in Ranks PROVE Begins(control[s].steps, steps'[s].steps)
    <3>1. control[s].steps \in Seq(StepEntries) /\ Begins(control[s].steps, steps[s].steps)
      BY DEF JudgeInv, CopiesOK
    <3>2. CASE s = r
      <4>1. Begins(control[r].steps, Append(q, e))
        <5> HIDE DEF q
        <5> QED BY <2>1, <2>2, <3>1, <3>2, BeginsAppend DEF q
      <4> QED BY <1>4, <3>2, <4>1 DEF e
    <3>3. CASE s # r
      BY <1>1, <3>1, <3>3
    <3> QED BY <3>2, <3>3
  <2>8. CopiesOK'
    <3>1. \A s \in Ranks : Begins(control[s].steps, steps[s].steps)'
      BY <1>1, <2>7 DEF Begins
    <3> QED BY <1>1, <3>1 DEF JudgeInv, CopiesOK, Whole, Begins
  <2> QED BY <1>1, <2>6, <2>8 DEF JudgeInv, VerdictOK, Whole, NoneFails, NoneBad, SomeEmpty
<1> QED BY <1>1, <1>3, <1>4 DEF Grows

\* A command writes a junit file, which it can only while its plan is not complete.
LEMMA TestsKeepJudge ==
  ASSUME JudgeInv, NEW r \in Ranks, TestWrites(r)
  PROVE  JudgeInv'
<1>1. PICK f \in JunitFiles : junit' = [junit EXCEPT ![r] = Append(@, f)]
  BY DEF TestWrites
<1>2. UNCHANGED <<steps, at, phase, control, files, verdict>>
  BY DEF TestWrites, cliVars
<1>3. DOMAIN junit = Ranks
  <2>1. junit = [q \in Ranks |-> junit[q]]
    BY DEF JudgeInv, RecordsOK
  <2> QED BY <2>1
<1>4. /\ junit'[r] = Append(junit[r], f) /\ \A s \in Ranks : s # r => junit'[s] = junit[s]
      /\ junit' = [s \in Ranks |-> junit'[s]]
  BY <1>1, <1>3
<1>5. junit[r] \in Seq(JunitFiles) /\ junit'[r] \in Seq(JunitFiles)
  BY <1>4, AppendProperties DEF JudgeInv, RecordsOK
<1>6. ~Whole(r)
  <2>1. Len(steps[r].steps) < Len(Plan)
    BY DEF TestWrites, StepLeft, Ran
  <2>2. /\ Len(control[r].steps) <= Len(steps[r].steps)
        /\ control[r].steps \in Seq(StepEntries) /\ steps[r].steps \in Seq(StepEntries)
    BY DEF JudgeInv, CopiesOK, RecordsOK, FollowsPlan, Begins
  <2>3. Len(control[r].steps) \in Nat /\ Len(steps[r].steps) \in Nat /\ Len(Plan) \in Nat
    BY <2>2, VerdictsAssumption
  <2> QED BY <2>1, <2>2, <2>3 DEF Whole
<1>7. RecordsOK'
  <2>1. \A s \in Ranks : junit'[s] \in Seq(JunitFiles)
    BY <1>4, <1>5 DEF JudgeInv, RecordsOK
  <2> QED BY <1>2, <1>4, <2>1 DEF JudgeInv, RecordsOK, FollowsPlan
<1>8. ASSUME NEW s \in Ranks PROVE Begins(files[s], junit'[s])
  <2>1. files[s] \in Seq(JunitFiles) /\ Begins(files[s], junit[s])
    BY DEF JudgeInv, CopiesOK
  <2>2. CASE s = r
    <3>1. Begins(files[r], Append(junit[r], f))
      BY <1>5, <2>1, <2>2, BeginsAppend
    <3> QED BY <1>4, <2>2, <3>1
  <2>3. CASE s # r
    BY <1>4, <2>1, <2>3
  <2> QED BY <2>2, <2>3
<1>9. CopiesOK'
  <2>1. \A s \in Ranks : Begins(files[s], junit[s])'
    BY <1>2, <1>8 DEF Begins
  <2>2. ASSUME NEW s \in Ranks, Whole(s) /\ (s < at \/ phase \in {"judge", "judged"})
        PROVE  files[s] = junit'[s]
    BY <1>4, <1>6, <2>2 DEF JudgeInv, CopiesOK
  <2> QED BY <1>2, <2>1, <2>2 DEF JudgeInv, CopiesOK, Whole, Begins
<1> QED BY <1>2, <1>7, <1>9 DEF JudgeInv, VerdictOK, Whole, NoneFails, NoneBad, SomeEmpty

\* The control files of a rank are copied.
LEMMA ControlKeepsJudge ==
  ASSUME JudgeInv, CopyControl PROVE JudgeInv'
<1>1. /\ control' = [control EXCEPT ![at] = steps[at]] /\ phase = "control" /\ phase' = "artifacts"
      /\ UNCHANGED <<steps, junit, at, files, verdict>>
  BY DEF CopyControl, podVars
<1>2. DOMAIN control = Ranks /\ at \in Ranks /\ at \in Int
  <2>1. control = [q \in Ranks |-> control[q]] /\ at \in Ranks
    BY DEF JudgeInv, RecordsOK
  <2> QED BY <2>1 DEF Ranks
<1>3. /\ control'[at] = steps[at] /\ \A s \in Ranks : s # at => control'[s] = control[s]
      /\ control' = [s \in Ranks |-> control'[s]]
  BY <1>1, <1>2
<1>4. RecordsOK'
  BY <1>1, <1>3 DEF JudgeInv, RecordsOK, FollowsPlan
<1>5. ASSUME NEW s \in Ranks
      PROVE  /\ control'[s].steps \in Seq(StepEntries) /\ Begins(control'[s].steps, steps[s].steps)
             /\ Len(control'[s].steps) = Len(Plan) /\ s < at => files[s] = junit[s]
  <2>1. CASE s = at
    <3>1. steps[at].steps \in Seq(StepEntries)
      BY <1>2 DEF JudgeInv, RecordsOK, FollowsPlan
    <3>2. Begins(steps[at].steps, steps[at].steps)
      BY <3>1 DEF Begins
    <3> QED BY <1>2, <1>3, <2>1, <3>1, <3>2
  <2>2. CASE s # at
    BY <1>3, <2>2 DEF JudgeInv, CopiesOK, Whole
  <2> QED BY <2>1, <2>2
<1>6. CopiesOK'
  BY <1>1, <1>5 DEF JudgeInv, CopiesOK, Whole, Begins
<1> QED BY <1>1, <1>4, <1>6 DEF JudgeInv, VerdictOK

\* The artifacts of a rank are copied, after its control files.
LEMMA ArtifactsKeepJudge ==
  ASSUME JudgeInv, CopyArtifacts PROVE JudgeInv'
<1>1. /\ files' = [files EXCEPT ![at] = junit[at]] /\ phase = "artifacts"
      /\ UNCHANGED <<steps, junit, control, verdict>>
      /\ \/ at < Pods /\ at' = at + 1 /\ phase' = "control"
         \/ ~(at < Pods) /\ at' = at /\ phase' = "judge"
  BY DEF CopyArtifacts, NextRank, podVars
<1>2. DOMAIN files = Ranks /\ at \in 1..Pods /\ Pods \in Nat /\ Ranks = 1..Pods
  <2>1. files = [q \in Ranks |-> files[q]] /\ at \in Ranks
    BY DEF JudgeInv, RecordsOK
  <2> QED BY <2>1, VerdictsAssumption DEF Ranks
<1>3. /\ files'[at] = junit[at] /\ \A s \in Ranks : s # at => files'[s] = files[s]
      /\ files' = [s \in Ranks |-> files'[s]]
  BY <1>1, <1>2
<1>4. RecordsOK'
  <2>1. at' \in Ranks /\ phase' \in {"control", "artifacts", "judge", "judged"}
    BY <1>1, <1>2
  <2> QED BY <1>1, <1>3, <2>1 DEF JudgeInv, RecordsOK, FollowsPlan
<1>5. ASSUME NEW s \in Ranks
      PROVE  /\ files'[s] \in Seq(JunitFiles) /\ Begins(files'[s], junit[s])
             /\ Whole(s) /\ (s < at' \/ phase' \in {"judge", "judged"}) => files'[s] = junit[s]
  <2>1. CASE s = at
    <3>1. junit[at] \in Seq(JunitFiles)
      BY <1>2 DEF JudgeInv, RecordsOK
    <3>2. Begins(junit[at], junit[at])
      BY <3>1 DEF Begins
    <3> QED BY <1>3, <2>1, <3>1, <3>2
  <2>2. CASE s # at
    <3>1. s < at' \/ phase' \in {"judge", "judged"} => s < at
      BY <1>1, <1>2, <2>2
    <3>2. /\ files[s] \in Seq(JunitFiles) /\ Begins(files[s], junit[s])
          /\ Whole(s) /\ s < at => files[s] = junit[s]
      BY DEF JudgeInv, CopiesOK
    <3> QED BY <1>3, <2>2, <3>1, <3>2
  <2> QED BY <2>1, <2>2
<1>6. CopiesOK'
  <2>1. \A s \in Ranks : Begins(files[s], junit[s])'
    BY <1>1, <1>5 DEF Begins
  <2>2. \A s \in Ranks : Whole(s)' <=> Whole(s)
    BY <1>1 DEF Whole
  <2> QED BY <1>1, <1>5, <2>1, <2>2 DEF JudgeInv, CopiesOK, Begins
<1>7. phase' # "judged"
  BY <1>1
<1> QED BY <1>4, <1>6, <1>7 DEF JudgeInv, VerdictOK

\* The invariant of copying and judging.
LEMMA JudgeInvariant == CopySpec => []JudgeInv
<1>1. JudgeInv /\ [CopyNext]_copyVars => JudgeInv'
  <2> SUFFICES ASSUME JudgeInv, [CopyNext]_copyVars PROVE JudgeInv'
    OBVIOUS
  <2>1. ASSUME NEW r \in Ranks,
               StepRecorded(r) \/ StepTimedOut(r) \/ Finish(r) \/ OnTerm(r)
        PROVE  JudgeInv'
    BY <2>1, WritesKeepJudge
  <2>2. ASSUME NEW r \in Ranks, TestWrites(r) PROVE JudgeInv'
    BY <2>2, TestsKeepJudge
  <2>3. CASE CopyControl
    BY <2>3, ControlKeepsJudge
  <2>4. CASE CopyArtifacts
    BY <2>4, ArtifactsKeepJudge
  <2>5. CASE Judge
    BY <2>5, JudgeStep
  <2>6. CASE UNCHANGED copyVars
    <3>1. UNCHANGED <<steps, junit, at, phase, control, files, verdict>>
      BY <2>6 DEF copyVars, podVars, cliVars
    <3>2. RecordsOK'
      BY <3>1 DEF JudgeInv, RecordsOK, FollowsPlan
    <3>3. CopiesOK'
      BY <3>1 DEF JudgeInv, CopiesOK, Whole, Begins
    <3>4. VerdictOK'
      BY <3>1 DEF JudgeInv, VerdictOK, Whole, NoneFails, NoneBad, SomeEmpty
    <3> QED BY <3>2, <3>3, <3>4 DEF JudgeInv
  <2> QED BY <2>1, <2>2, <2>3, <2>4, <2>5, <2>6 DEF CopyNext
<1> QED BY <1>1, JudgeInit, PTL DEF CopySpec

\* What the copies begin with, the pods' own files hold.
LEMMA CopiesTellTruth ==
  ASSUME JudgeInv, NEW r \in Ranks
  PROVE  /\ Whole(r) /\ NoneFails(control[r].steps) => CompletePlan(r)
         /\ \A k \in 1..Len(control[r].steps) :
               k \in DOMAIN steps[r].steps /\ steps[r].steps[k] = control[r].steps[k]
         /\ ~NoneFails(control[r].steps) => Stopped(r)
         /\ SomeEmpty(files[r]) => NothingTested(r)
         /\ NoneBad(junit[r]) => ~BadTests(r)
<1>1. /\ control[r].steps \in Seq(StepEntries) /\ Begins(control[r].steps, steps[r].steps)
      /\ files[r] \in Seq(JunitFiles) /\ Begins(files[r], junit[r])
      /\ FollowsPlan(steps[r].steps) /\ steps[r].steps \in Seq(StepEntries) /\ junit[r] \in Seq(JunitFiles)
  BY DEF JudgeInv, RecordsOK, CopiesOK, FollowsPlan
<1>2. /\ DOMAIN steps[r].steps = 1..Len(steps[r].steps) /\ DOMAIN junit[r] = 1..Len(junit[r])
      /\ Len(steps[r].steps) \in Nat /\ Len(junit[r]) \in Nat
      /\ Len(control[r].steps) \in Nat /\ Len(files[r]) \in Nat /\ Len(Plan) \in Nat
  BY <1>1, VerdictsAssumption
<1>3. \A k \in 1..Len(control[r].steps) :
         k \in DOMAIN steps[r].steps /\ steps[r].steps[k] = control[r].steps[k]
  BY <1>1, <1>2 DEF Begins
<1>4. \A k \in 1..Len(files[r]) : k \in DOMAIN junit[r] /\ junit[r][k] = files[r][k]
  BY <1>1, <1>2 DEF Begins
<1>5. ASSUME Whole(r), NoneFails(control[r].steps) PROVE CompletePlan(r)
  <2>1. Len(steps[r].steps) = Len(Plan) /\ Len(control[r].steps) = Len(steps[r].steps)
    BY <1>1, <1>2, <1>5 DEF Whole, Begins, FollowsPlan
  <2>2. \A k \in DOMAIN steps[r].steps : ~Failing(steps[r].steps[k])
    BY <1>2, <1>3, <1>5, <2>1 DEF NoneFails
  <2> QED BY <2>1, <2>2 DEF CompletePlan, Stopped, Ran, Failing
<1>6. ~NoneFails(control[r].steps) => Stopped(r)
  BY <1>3 DEF NoneFails, Stopped, Ran, Failing
<1>7. SomeEmpty(files[r]) => NothingTested(r)
  BY <1>4 DEF SomeEmpty, NothingTested
<1>8. NoneBad(junit[r]) => ~BadTests(r)
  BY <1>2 DEF NoneBad, BadTests, BadJunit, SkippedGpu
<1> QED BY <1>3, <1>5, <1>6, <1>7, <1>8

\* A pass is earned in every pod, not only in the copies, which are made while the
\* pods may still run (backend.collect, guards.evaluate and combine).
THEOREM PassWasEarned == CopySpec => []PassIsEarned
<1>1. JudgeInv => PassIsEarned
  <2> SUFFICES ASSUME JudgeInv, phase = "judged", verdict = Passed, NEW r \in Ranks
               PROVE  CompletePlan(r) /\ ~BadTests(r)
    BY DEF PassIsEarned
  <2>1. Whole(r) /\ NoneFails(control[r].steps) /\ NoneBad(files[r])
    BY DEF JudgeInv, VerdictOK
  <2>2. files[r] = junit[r]
    BY <2>1 DEF JudgeInv, CopiesOK
  <2> QED BY <2>1, <2>2, CopiesTellTruth
<1> QED BY <1>1, JudgeInvariant, PTL

\* A test failure is one: no rank was cut short, and some rank has a failed step or a
\* junit file with no tests to show for it, so a skipped GPU test alone is never one
\* (guards.combine: infrastructure wins).
THEOREM FailWasATestResult == CopySpec => []FailIsATestResult
<1>1. JudgeInv => FailIsATestResult
  <2> SUFFICES ASSUME JudgeInv, phase = "judged", verdict.test_code = 1 PROVE FailIsATestResult
    BY DEF FailIsATestResult
  <2>1. ASSUME NEW r \in Ranks
        PROVE  /\ control[r].state \notin {"timeout", "terminated"}
               /\ \/ CompletePlan(r)
                  \/ \E k \in DOMAIN steps[r].steps :
                        steps[r].steps[k].kind \in {"build", "command"} /\ steps[r].steps[k].code # 0
    <3>1. /\ control[r].state \notin {"timeout", "terminated"}
          /\ \/ Whole(r) /\ NoneFails(control[r].steps)
             \/ \E k \in 1..Len(control[r].steps) :
                  control[r].steps[k].kind \in {"build", "command"} /\ control[r].steps[k].code # 0
      BY DEF JudgeInv, VerdictOK
    <3> QED BY <3>1, CopiesTellTruth
  <2>2. \E r \in Ranks : Stopped(r) \/ NothingTested(r)
    <3>1. PICK r \in Ranks : ~NoneFails(control[r].steps) \/ SomeEmpty(files[r])
      BY DEF JudgeInv, VerdictOK
    <3> QED BY <3>1, CopiesTellTruth
  <2> QED BY <2>1, <2>2 DEF FailIsATestResult, Ran
<1> QED BY <1>1, JudgeInvariant, PTL
=============================================================================
