--------------------------- MODULE NamespaceProofs ---------------------------
(***************************************************************************)
(* What is proved of Namespace for any number of terminals and commands,    *)
(* any leftovers and any number of incarnations.  Three ideas carry it: a   *)
(* command looks only at incarnations there have been, so what it saw of an *)
(* older one never speaks for a newer one; within an incarnation guardrails *)
(* are only added; and a Job's name is taken once, so what was listed by    *)
(* name is still what was listed when it is deleted.                        *)
(***************************************************************************)
EXTENDS Namespace, TLAPS

RunPcs == {"get", "ask", "reread", "quota", "policy", "account", "gc", "gcdelete", "cache", "job", "running"}
CheckPcs == {"quota", "policy", "account", "gc", "gcdelete", "cache", "job"}
HasJob == {"running", "wait", "log", "judge", "done"}

\* Which operation is where, and that a run got there through prepare.
OpAt(t, pc) ==
    /\ pc \in RunPcs => Cmd(t).op = "run"
    /\ pc \in {"look", "apply"} => Cmd(t).op \in {"run", "init"}
    /\ pc \in {"probe", "wait", "log", "judge"} => Cmd(t).op = "verify"
    /\ pc \in {"confirm", "askall", "select", "delete", "volume", "label", "asknamespace", "remove"} =>
         Cmd(t).op = "cleanup"
    /\ pc \in RunPcs \cup {"look", "apply"} /\ Cmd(t).op = "run" => Prepare(Cmd(t).req)

PlaceOf(t) == OpAt(t, st[t].pc) /\ (st[t].pc = "start" => st[t] = Idle)

\* How far the counters are, and what verify's exit 0 says about them.
CountOf(t) ==
    /\ st[t].pc \in {"probe", "wait"} => st[t].n = 0 /\ st[t].failed = "none"
    /\ st[t].pc = "apply" => st[t].n \in 1..8
    /\ st[t].pc = "log" => st[t].n < Len(PROBE(Cmd(t).req.rdma))
    /\ st[t].pc = "judge" => st[t].n <= Len(PROBE(Cmd(t).req.rdma))
    /\ st[t].pc = "done" /\ Cmd(t).op = "verify" /\ st[t].exit = 0 =>
         st[t].n = Len(PROBE(Cmd(t).req.rdma)) /\ st[t].failed = "none"

\* The guardrails that preflight.check asks for.
HasGuards == ns.psa # "none" /\ "ResourceQuota" \in ns.objs /\ {"default-deny", "egress"} \cap ns.objs # {}

\* Only incarnations there have been are looked at; what a run has found out
\* about the one that it has looked at.
CheckedOf(t) ==
    /\ \A i \in st[t].seen : i <= ns.inc
    /\ st[t].pc \in CheckPcs => st[t].seen # {}
    /\ ns.exists /\ st[t].seen = {ns.inc} =>
        /\ st[t].pc \in {"quota", "policy"} => "psa" \in st[t].missing \/ ns.psa # "none"
        /\ st[t].pc = "policy" => "quota" \in st[t].missing \/ "ResourceQuota" \in ns.objs
        /\ st[t].pc \in {"account", "gc", "gcdelete", "cache", "job"} => Cmd(t).req.unguarded \/ HasGuards

\* The guardrails inside the namespace that come before the n-th.
Before(n) == {GUARDRAILS[k] : k \in 1..(n - 1)} \cap Inside

\* What an init has applied to the one incarnation that it has met.
InitOf(t) ==
    Cmd(t).op = "init" =>
        /\ st[t].pc = "look" => st[t].seen = {}
        /\ st[t].pc = "apply" => (st[t].n = 1) = (st[t].seen = {})
        /\ st[t].pc = "apply" /\ ns.exists /\ st[t].seen = {ns.inc} =>
             ns.psa # "none" /\ Before(st[t].n) \subseteq ns.objs
        /\ st[t].pc = "done" /\ st[t].exit = 0 /\ st[t].seen = {ns.inc} /\ ns.exists =>
             Inside \subseteq ns.objs /\ role /\ ns.psa # "none"

\* What was listed is still what may be taken, and no new Job gets its name.
TodoOf(t) ==
    /\ \A i \in st[t].todo : i \in Terminals => st[i].pc \in HasJob
    /\ \A j \in jobs : j.id \in st[t].todo /\ st[t].pc \in {"gcdelete", "delete"} => MayTake(t, j)

Good(t) == PlaceOf(t) /\ CountOf(t) /\ CheckedOf(t) /\ InitOf(t) /\ TodoOf(t)

\* A name belongs to one Job, made once.
NamedOnce ==
    /\ \A j, k \in jobs : j.id = k.id => j = k
    /\ \A j \in jobs : j.id \in Terminals => st[j.id].pc \in HasJob

Inv == TypeOK /\ (\A t \in Terminals : Good(t)) /\ NamedOnce /\ GuardedJobs /\ JobsAsAllowed

-----------------------------------------------------------------------------
(* What a step may do to the rest of the world. *)

\* The namespace: its incarnations follow each other, and within one of them
\* guardrails are only added.
NsSteady ==
    /\ ns'.inc >= ns.inc
    /\ ns.exists => ns'.inc = ns.inc
    /\ ns'.exists /\ ns'.inc = ns.inc =>
         ns.exists /\ ns.objs \subseteq ns'.objs /\ (ns.psa # "none" => ns'.psa # "none")
    /\ role => role'

\* The other terminals, and the names that are taken.
OnlyAt(t) ==
    /\ \A u \in Terminals : u # t => st'[u] = st[u]
    /\ st[t].pc \in HasJob => st'[t].pc \in HasJob

\* A Job of the next state is one of this state, perhaps past its deadline now,
\* or has a name that was free.
FreshOrOld ==
    \A j \in jobs' : \/ j.id \in Terminals /\ st[j.id].pc \notin HasJob
                     \/ \E k \in jobs : k.id = j.id /\ k.owner = j.owner /\ (k.expired => j.expired)

\* What is seen of one incarnation only is of this one, if it was seen before.
LEMMA SameOne ==
    ASSUME TypeOK, TypeOK', NsSteady, NEW u \in Terminals, st'[u] = st[u], \A i \in st[u].seen : i <= ns.inc,
           ns'.exists, st'[u].seen = {ns'.inc}
    PROVE  ns.exists /\ st[u].seen = {ns.inc} /\ ns'.inc = ns.inc
<1>1. ns'.inc \in st[u].seen /\ ns'.inc \in Nat /\ ns.inc \in Nat
  BY DEF TypeOK, ClusterOK
<1>2. ns'.inc = ns.inc
  BY <1>1 DEF NsSteady
<1> QED BY <1>2 DEF NsSteady

\* Whoever does not act keeps what is known about it.
LEMMA OthersKeep ==
    ASSUME Inv, NEW t \in Terminals, NsSteady, OnlyAt(t), TypeOK', FreshOrOld, NEW u \in Terminals, st'[u] = st[u]
    PROVE  Good(u)'
<1>1. PlaceOf(u)' /\ CountOf(u)'
  BY DEF Inv, Good, PlaceOf, OpAt, CountOf, Cmd
<1>2. CheckedOf(u)'
  <2>1. \A i \in st'[u].seen : i <= ns'.inc
    BY DEF Inv, Good, CheckedOf, TypeOK, ClusterOK, TermState, NsSteady
  <2>2. ns'.exists /\ st'[u].seen = {ns'.inc} => ns.exists /\ st[u].seen = {ns.inc} /\ ns'.inc = ns.inc
    BY SameOne DEF Inv, Good, CheckedOf
  <2> QED BY <2>1, <2>2 DEF Inv, Good, CheckedOf, NsSteady, HasGuards, Cmd
<1>3. InitOf(u)'
  <2>1. ns'.exists /\ st'[u].seen = {ns'.inc} => ns.exists /\ st[u].seen = {ns.inc} /\ ns'.inc = ns.inc
    BY SameOne DEF Inv, Good, CheckedOf
  <2> QED BY <2>1 DEF Inv, Good, InitOf, NsSteady, Cmd
<1>4. TodoOf(u)'
  <2>1. \A i \in st[u].todo : i \in Terminals => st'[i].pc \in HasJob
    BY DEF Inv, Good, TodoOf, OnlyAt
  <2>2. ASSUME NEW j \in jobs', j.id \in st[u].todo, st[u].pc \in {"gcdelete", "delete"} PROVE MayTake(u, j)'
    <3>1. PICK k \in jobs : k.id = j.id /\ k.owner = j.owner /\ (k.expired => j.expired)
      BY <2>2 DEF FreshOrOld, Inv, Good, TodoOf
    <3>2. MayTake(u, k)
      BY <2>2, <3>1 DEF Inv, Good, TodoOf
    <3> QED BY <3>1, <3>2 DEF MayTake, Cmd
  <2> QED BY <2>1, <2>2 DEF TodoOf
<1> QED BY <1>1, <1>2, <1>3, <1>4 DEF Good

\* A step that makes no Job keeps what is known about the Jobs.
LEMMA JobsKeep ==
    ASSUME Inv, NEW t \in Terminals, NsSteady, OnlyAt(t), TypeOK', jobs' \subseteq jobs
    PROVE  NamedOnce' /\ GuardedJobs' /\ JobsAsAllowed' /\ FreshOrOld
<1>1. NamedOnce'
  BY DEF Inv, NamedOnce, OnlyAt
<1>2. GuardedJobs'
  BY DEF Inv, GuardedJobs, NsSteady, TypeOK, ClusterOK
<1>3. JobsAsAllowed' /\ FreshOrOld
  BY DEF Inv, JobsAsAllowed, FreshOrOld
<1> QED BY <1>1, <1>2, <1>3

\* So a step of a terminal has to keep its own part only.
LEMMA OwnPart ==
    ASSUME Inv, NEW t \in Terminals, NsSteady, OnlyAt(t), TypeOK', jobs' \subseteq jobs, Good(t)'
    PROVE  Inv'
  BY JobsKeep, OthersKeep DEF Inv, OnlyAt

\* A step that leaves the cluster alone, and one that only takes Jobs away.
LEMMA Steady ==
    ASSUME Inv, jobs' \subseteq jobs, UNCHANGED <<ns, cache, role>>
    PROVE  ClusterOK' /\ NsSteady
  BY DEF Inv, TypeOK, ClusterOK, NsSteady

\* A delete is such a step.
LEMMA DeleteSteady ==
    ASSUME Inv, NEW i, Delete(i), UNCHANGED <<ns, cache, role>>
    PROVE  ClusterOK' /\ NsSteady /\ jobs' \subseteq jobs
  BY Steady DEF Delete

\* So is one that leaves the cluster as it is.
LEMMA ClusterSteady ==
    ASSUME Inv, UNCHANGED Cluster
    PROVE  ClusterOK' /\ NsSteady /\ jobs' \subseteq jobs
  BY Steady DEF Cluster

\* The probe's script ends with its marker, which it has nowhere else.
LEMMA ProbeEnds ==
    ASSUME NEW rdma \in BOOLEAN
    PROVE  /\ Len(PROBE(rdma)) \in 8..9
           /\ \A i \in 1..Len(PROBE(rdma)) : PROBE(rdma)[i] \in Failures \cup {"done"}
           /\ \A i \in 1..Len(PROBE(rdma)) : PROBE(rdma)[i] = "done" <=> i = Len(PROBE(rdma))
<1>1. Len(PROBE(rdma)) \in 8..9
  BY DEF PROBE
<1>2. ASSUME NEW i \in 1..Len(PROBE(rdma)) PROVE PROBE(rdma)[i] \in Failures \cup {"done"}
  BY DEF PROBE, CHECKS, Failures
<1>3. ASSUME NEW i \in 1..Len(PROBE(rdma)) PROVE PROBE(rdma)[i] = "done" => i = Len(PROBE(rdma))
  BY DEF PROBE
<1>4. PROBE(rdma)[Len(PROBE(rdma))] = "done"
  BY DEF PROBE
<1> QED BY <1>1, <1>2, <1>3, <1>4

\* The objects by name.
LEMMA GuardNames ==
    /\ Len(GUARDRAILS) = 8
    /\ Inside = {"ServiceAccount", "ResourceQuota", "LimitRange", "default-deny", "egress", "Role"}
    /\ \A k \in 1..8 : GUARDRAILS[k] \in {"Namespace", "ClusterRole"} \cup Inside
    /\ \A k \in 1..8 : (GUARDRAILS[k] = "Namespace" <=> k = 1) /\ (GUARDRAILS[k] = "ClusterRole" <=> k = 8)
  BY DEF GUARDRAILS, Inside, Range

-----------------------------------------------------------------------------
(* The two ways on that most operations share. *)

\* To another place.
LEMMA Gotos ==
    ASSUME TypeOK, NEW t \in Terminals, NEW p \in Pcs, Goto(t, p)
    PROVE  /\ st' \in [Terminals -> TermState]
           /\ \A u \in Terminals : u # t => st'[u] = st[u]
           /\ st'[t] = [st[t] EXCEPT !.pc = p]
           /\ st'[t].pc = p
           /\ st'[t].cmd = st[t].cmd /\ st'[t].n = st[t].n /\ st'[t].missing = st[t].missing
           /\ st'[t].seen = st[t].seen /\ st'[t].todo = st[t].todo /\ st'[t].failed = st[t].failed
           /\ st'[t].exit = st[t].exit
<1> DEFINE s == [st[t] EXCEPT !.pc = p]
<1>1. st[t] \in TermState
  BY DEF TypeOK
<1>2. /\ s \in TermState /\ s.pc = p
      /\ s.cmd = st[t].cmd /\ s.n = st[t].n /\ s.missing = st[t].missing /\ s.seen = st[t].seen
      /\ s.todo = st[t].todo /\ s.failed = st[t].failed /\ s.exit = st[t].exit
  BY <1>1 DEF TermState
<1>3. st' = [st EXCEPT ![t] = s]
  BY DEF Goto
<1> HIDE DEF s
<1>4. st' \in [Terminals -> TermState] /\ st'[t] = s /\ \A u \in Terminals : u # t => st'[u] = st[u]
  BY <1>2, <1>3 DEF TypeOK
<1> QED BY <1>2, <1>4 DEF s

\* A step of terminal t, to s.
LEMMA Moves ==
    ASSUME Inv, NEW t \in Terminals, NEW s \in TermState, st' = [st EXCEPT ![t] = s],
           ClusterOK', st[t].pc \in HasJob => s.pc \in HasJob
    PROVE  TypeOK' /\ OnlyAt(t) /\ st'[t] = s
<1>1. st' \in [Terminals -> TermState] /\ st'[t] = s /\ \A u \in Terminals : u # t => st'[u] = st[u]
  BY DEF Inv, TypeOK
<1> QED BY <1>1 DEF TypeOK, OnlyAt

\* The end of a command: nothing is known any more, except for a verify.
LEMMA Exits ==
    ASSUME Inv, NEW t \in Terminals, NEW code \in {0, 1, 2, 3, 4, 130}, Exit(t, code),
           ClusterOK', NsSteady, jobs' \subseteq jobs,
           code = 0 /\ Cmd(t).op = "verify" =>
               st[t].n = Len(PROBE(Cmd(t).req.rdma)) /\ st[t].failed = "none"
    PROVE  Inv'
<1> DEFINE n == IF st[t].cmd.op = "verify" THEN st[t].n ELSE 0
<1> DEFINE e == [pc |-> "done", cmd |-> st[t].cmd, n |-> n, existing |-> FALSE, missing |-> {}, seen |-> {},
                 psa |-> "none", todo |-> {}, failed |-> st[t].failed, exit |-> code]
<1>1. st' = [st EXCEPT ![t] = e]
  BY DEF Exit
<1>2. e \in TermState
  <2>1. st[t] \in TermState
    BY DEF Inv, TypeOK
  <2>2. n \in 0..9 /\ st[t].cmd \in Cmds /\ st[t].failed \in Failures
    BY <2>1 DEF TermState
  <2> HIDE DEF n
  <2> QED BY <2>2 DEF TermState, Pcs, PsaLevels
<1> HIDE DEF e
<1>3. st' \in [Terminals -> TermState] /\ st'[t] = e /\ \A u \in Terminals : u # t => st'[u] = st[u]
  BY <1>1, <1>2 DEF Inv, TypeOK
<1>4. TypeOK' /\ OnlyAt(t)
  BY <1>3 DEF TypeOK, OnlyAt, HasJob, e
<1>5. /\ st'[t].pc = "done" /\ st'[t].cmd = st[t].cmd /\ st'[t].seen = {} /\ st'[t].todo = {}
      /\ st'[t].exit = code /\ st'[t].failed = st[t].failed
      /\ st[t].cmd.op = "verify" => st'[t].n = st[t].n
  BY <1>3 DEF e
<1>6. Good(t)'
  BY <1>5 DEF Good, PlaceOf, OpAt, CountOf, CheckedOf, InitOf, TodoOf, RunPcs, CheckPcs, Cmd
<1> QED BY <1>4, <1>6, OwnPart

\* The same for a step that leaves the cluster alone.
LEMMA EndsQuietly ==
    ASSUME Inv, NEW t \in Terminals, NEW code \in {1, 2, 3, 4, 130}, Exit(t, code), UNCHANGED Cluster
    PROVE  Inv'
  BY Exits, ClusterSteady

\* The length of the script that a verify's probe runs.
LEMMA ProbeLen ==
    ASSUME TypeOK, NEW t \in Terminals, Cmd(t).op = "verify"
    PROVE  Cmd(t).req.rdma \in BOOLEAN /\ Len(PROBE(Cmd(t).req.rdma)) \in 8..9
<1>1. Cmd(t) \in Cmds
  BY DEF TypeOK, TermState, Cmd
<1>2. Cmd(t).req.rdma \in BOOLEAN
  BY <1>1, NamespaceAssumption DEF Cmds
<1> QED BY <1>2, ProbeEnds

\* Who is not deleting has nothing to account for but the names.
LEMMA TodoKeeps ==
    ASSUME Inv, NEW t \in Terminals, OnlyAt(t), st'[t].todo = st[t].todo, st'[t].pc \notin {"gcdelete", "delete"}
    PROVE  TodoOf(t)'
  BY DEF Inv, Good, TodoOf, OnlyAt

\* A step to a place about which nothing more is known than about the last one.
LEMMA GoesOn ==
    ASSUME Inv, NEW t \in Terminals, NEW p \in Pcs, Goto(t, p), ClusterOK', jobs' \subseteq jobs, UNCHANGED <<ns, role>>,
           OpAt(t, p), st[t].pc \in HasJob => p \in HasJob,
           p \notin {"start", "probe", "wait", "apply", "done", "gcdelete", "delete"},
           p \in CheckPcs => st[t].pc \in {"gcdelete", "cache"} /\ p \in {"cache", "job"},
           p = "look" => Cmd(t).op = "run",
           p = "log" => st[t].n < Len(PROBE(Cmd(t).req.rdma)),
           p = "judge" => st[t].n <= Len(PROBE(Cmd(t).req.rdma))
    PROVE  Inv'
<1>1. /\ st' \in [Terminals -> TermState] /\ \A u \in Terminals : u # t => st'[u] = st[u]
      /\ st'[t].pc = p /\ st'[t].cmd = st[t].cmd /\ st'[t].n = st[t].n /\ st'[t].missing = st[t].missing
      /\ st'[t].seen = st[t].seen /\ st'[t].todo = st[t].todo
  BY Gotos DEF Inv
<1>2. TypeOK' /\ OnlyAt(t) /\ NsSteady
  BY <1>1 DEF Inv, TypeOK, ClusterOK, OnlyAt, NsSteady
<1>3. PlaceOf(t)' /\ CountOf(t)'
  BY <1>1 DEF PlaceOf, OpAt, CountOf, Cmd
<1>4. CheckedOf(t)'
  BY <1>1 DEF Inv, Good, CheckedOf, CheckPcs, HasGuards, Cmd
<1>5. InitOf(t)'
  BY <1>1 DEF InitOf, Cmd
<1>6. TodoOf(t)'
  BY <1>1, <1>2, TodoKeeps
<1> QED BY <1>2, <1>3, <1>4, <1>5, <1>6, OwnPart DEF Good

\* A new Job has a name that was free, carries what it may and, where its
\* checks speak for the namespace, is guarded.
LEMMA NewJob ==
    ASSUME Inv, NEW t \in Terminals, NEW j, j.id = t, st[t].pc \notin HasJob, st'[t].pc \in HasJob, OnlyAt(t),
           UNCHANGED ns, jobs' = jobs \cup {j}, Permitted(j),
           ~j.probe /\ ~j.unguarded /\ j.checked = {ns.inc} => HasGuards
    PROVE  NamedOnce' /\ GuardedJobs' /\ JobsAsAllowed' /\ FreshOrOld
<1>1. \A k \in jobs : k.id # t
  BY DEF Inv, NamedOnce
<1>2. NamedOnce'
  BY <1>1 DEF Inv, NamedOnce, OnlyAt
<1>3. GuardedJobs'
  BY DEF Inv, GuardedJobs, HasGuards
<1>4. JobsAsAllowed' /\ FreshOrOld
  BY DEF Inv, JobsAsAllowed, FreshOrOld
<1> QED BY <1>2, <1>3, <1>4

\* A step of one terminal that also makes a Job keeps the invariant.
LEMMA OwnPartAndJob ==
    ASSUME Inv, NEW t \in Terminals, NsSteady, OnlyAt(t), TypeOK', Good(t)',
           NamedOnce' /\ GuardedJobs' /\ JobsAsAllowed' /\ FreshOrOld
    PROVE  Inv'
  BY OthersKeep DEF Inv, OnlyAt

\* Reading the labels begins a run's knowledge of one incarnation.
LEMMA ReadLabelsKeeps ==
    ASSUME Inv, NEW t \in Terminals, st[t].pc \in {"get", "reread"}, ns.exists, ReadLabels(t), UNCHANGED Cluster
    PROVE  Inv'
<1> DEFINE m == IF ns.psa = "none" THEN {"psa"} ELSE {}
<1>b. ns.exists \in BOOLEAN /\ ns.psa \in PsaLevels /\ ns.inc \in Nat
  BY DEF Inv, TypeOK, ClusterOK
<1>c. \A i \in {ns.inc} : i <= ns.inc
  BY <1>b
<1>d. m \in SUBSET {"psa", "quota", "policy"} /\ {ns.inc} \in SUBSET Nat
  BY <1>b
<1> DEFINE s == [st[t] EXCEPT !.pc = "quota", !.psa = ns.psa, !.seen = {ns.inc}, !.missing = m]
<1>1. st' = [st EXCEPT ![t] = s] /\ st[t] \in TermState
  BY DEF ReadLabels, Inv, TypeOK
<1>2. s \in TermState
  <2>1. "quota" \in Pcs
    BY DEF Pcs
  <2> QED BY <1>1, <2>1, <1>b, <1>d DEF TermState
<1>3. /\ s.pc = "quota" /\ s.psa = ns.psa /\ s.seen = {ns.inc} /\ s.missing = m
      /\ s.cmd = st[t].cmd /\ s.n = st[t].n /\ s.todo = st[t].todo /\ s.failed = st[t].failed /\ s.exit = st[t].exit
  BY <1>1 DEF TermState
<1> HIDE DEF s
<1>4. UNCHANGED <<ns, jobs, role>>
  BY DEF Cluster, ReadLabels
<1>5. ClusterOK' /\ NsSteady /\ jobs' \subseteq jobs
  BY ClusterSteady DEF ReadLabels
<1>6. TypeOK' /\ OnlyAt(t) /\ st'[t] = s
  BY <1>1, <1>2, <1>3, <1>5, Moves DEF HasJob, ReadLabels
<1>7. PlaceOf(t)' /\ CountOf(t)'
  BY <1>3, <1>6, <1>4 DEF ReadLabels, Inv, Good, PlaceOf, OpAt, CountOf, RunPcs, Cmd
<1>8. CheckedOf(t)'
  BY <1>3, <1>6, <1>4, <1>b, <1>c DEF CheckedOf, CheckPcs, Cmd
<1>9. InitOf(t)'
  BY <1>3, <1>6, <1>4 DEF ReadLabels, Inv, Good, PlaceOf, OpAt, InitOf, RunPcs, Cmd
<1>10. TodoOf(t)'
  BY <1>3, <1>6, <1>4, TodoKeeps
<1> QED BY <1>6, <1>5, <1>7, <1>8, <1>9, <1>10, OwnPart DEF Good

\* What an init looks at is not remembered as seen: the apply is.
LEMMA LookStep == ASSUME Inv, NEW t \in Terminals, Look(t) PROVE Inv'
<1>b. ns.exists \in BOOLEAN /\ ns.psa \in PsaLevels /\ ns.inc \in Nat
  BY DEF Inv, TypeOK, ClusterOK
<1>c. 1 \in 0..9
  OBVIOUS
<1> DEFINE s == [st[t] EXCEPT !.existing = ns.exists, !.n = 1, !.pc = "apply"]
<1>1. st' = [st EXCEPT ![t] = s] /\ st[t] \in TermState
  BY DEF Look, At, Inv, TypeOK
<1>2. s \in TermState
  <2>1. "apply" \in Pcs
    BY DEF Pcs
  <2> QED BY <1>1, <2>1, <1>b, <1>c DEF TermState
<1>3. /\ s.existing = ns.exists /\ s.n = 1 /\ s.pc = "apply"
      /\ s.cmd = st[t].cmd /\ s.missing = st[t].missing /\ s.seen = st[t].seen /\ s.todo = st[t].todo /\ s.failed = st[t].failed /\ s.exit = st[t].exit
  BY <1>1 DEF TermState
<1> HIDE DEF s
<1>4. UNCHANGED <<ns, jobs, role>>
  BY DEF Cluster, Look, At
<1>5. ClusterOK' /\ NsSteady /\ jobs' \subseteq jobs
  BY ClusterSteady DEF Look, At
<1>6. TypeOK' /\ OnlyAt(t) /\ st'[t] = s
  BY <1>1, <1>2, <1>3, <1>5, Moves DEF HasJob, Look, At
<1>7. PlaceOf(t)' /\ CountOf(t)'
  BY <1>3, <1>6, <1>4 DEF Look, At, Inv, Good, PlaceOf, OpAt, CountOf, RunPcs, Cmd
<1>8. CheckedOf(t)'
  BY <1>3, <1>6, <1>4 DEF Look, At, Inv, Good, PlaceOf, OpAt, CheckedOf, HasGuards, RunPcs, CheckPcs, Cmd
<1>9. InitOf(t)'
  BY <1>3, <1>6, <1>4 DEF Look, At, Inv, Good, PlaceOf, OpAt, InitOf, RunPcs, Cmd
<1>10. TodoOf(t)'
  BY <1>3, <1>6, <1>4, TodoKeeps
<1> QED BY <1>6, <1>5, <1>7, <1>8, <1>9, <1>10, OwnPart DEF Good

\* The server's refusal ends the command.
LEMMA ApplyFailsStep == ASSUME Inv, NEW t \in Terminals, ApplyFails(t) PROVE Inv'
  BY EndsQuietly DEF ApplyFails, Cluster

\* A log that ends early leaves the count where it is.
LEMMA LogEndsStep == ASSUME Inv, NEW t \in Terminals, LogEnds(t) PROVE Inv'
<1>b. Len(PROBE(Cmd(t).req.rdma)) \in 8..9 /\ st[t].n \in 0..9 /\ Cmd(t).op = "verify" /\ Cmd(t).req.rdma \in BOOLEAN
  <2>1. Cmd(t).op = "verify" /\ st[t] \in TermState
    BY DEF LogEnds, At, Inv, TypeOK, Good, PlaceOf, OpAt
  <2>2. st[t].n \in 0..9
    BY <2>1 DEF TermState
  <2> QED BY <2>1, <2>2, ProbeLen DEF Inv
<1>c. st[t].n <= Len(PROBE(Cmd(t).req.rdma))
  BY <1>b DEF LogEnds, At, Inv, Good, CountOf
<1>1. OpAt(t, "judge")
  BY DEF Inv, Good, PlaceOf, OpAt, RunPcs, LogEnds, At
<1>2. ClusterOK' /\ jobs' \subseteq jobs /\ UNCHANGED <<ns, role>>
  BY ClusterSteady DEF Cluster, LogEnds, At
<1> QED BY <1>1, <1>2, <1>c, GoesOn DEF Pcs, HasJob, CheckPcs, LogEnds, At

\* The first line is still to come.
LEMMA PodStartsStep == ASSUME Inv, NEW t \in Terminals, PodStarts(t) PROVE Inv'
<1>b. Len(PROBE(Cmd(t).req.rdma)) \in 8..9 /\ st[t].n \in 0..9 /\ Cmd(t).op = "verify" /\ Cmd(t).req.rdma \in BOOLEAN
  <2>1. Cmd(t).op = "verify" /\ st[t] \in TermState
    BY DEF PodStarts, At, Inv, TypeOK, Good, PlaceOf, OpAt
  <2>2. st[t].n \in 0..9
    BY <2>1 DEF TermState
  <2> QED BY <2>1, <2>2, ProbeLen DEF Inv
<1>c. st[t].n = 0
  BY DEF PodStarts, At, Inv, Good, CountOf
<1>d. st[t].n < Len(PROBE(Cmd(t).req.rdma))
  <2> DEFINE len == Len(PROBE(Cmd(t).req.rdma))
  <2>1. len \in 8..9
    BY <1>b
  <2> HIDE DEF len
  <2>2. st[t].n < len
    BY <1>c, <2>1
  <2> QED BY <2>2 DEF len
<1>1. OpAt(t, "log")
  BY DEF Inv, Good, PlaceOf, OpAt, RunPcs, PodStarts, At
<1>2. ClusterOK' /\ jobs' \subseteq jobs /\ UNCHANGED <<ns, role>>
  BY ClusterSteady DEF Cluster, PodStarts, At
<1> QED BY <1>1, <1>2, <1>d, GoesOn DEF Pcs, HasJob, CheckPcs, PodStarts, At

\* The answer of a run's user: on, or the end.
LEMMA AnswerStep == ASSUME Inv, NEW t \in Terminals, Answer(t) PROVE Inv'
<1>1. CASE Exit(t, 2)
  BY <1>1, EndsQuietly DEF Answer, Cluster
<1>2. CASE At(t, "asknamespace") /\ Exit(t, 0)
  <2>1. Cmd(t).op = "cleanup"
    BY <1>2 DEF At, Inv, Good, PlaceOf, OpAt
  <2> QED BY <1>2, <2>1, Exits, ClusterSteady DEF Answer, Cluster
<1>3. CASE At(t, "ask") /\ Goto(t, "look")
  <2>1. OpAt(t, "look") /\ Cmd(t).op = "run"
    BY <1>3 DEF Inv, Good, PlaceOf, OpAt, RunPcs, At
  <2>2. ClusterOK' /\ jobs' \subseteq jobs /\ UNCHANGED <<ns, role>>
    BY ClusterSteady DEF Cluster, Answer
  <2> QED BY <1>3, <2>1, <2>2, GoesOn DEF Pcs, HasJob, CheckPcs, At
<1>4. ASSUME NEW p \in {"select", "remove"}, Goto(t, p), At(t, "askall") \/ At(t, "asknamespace") PROVE Inv'
  <2>1. OpAt(t, p)
    BY <1>4 DEF Inv, Good, PlaceOf, OpAt, RunPcs, At
  <2>2. ClusterOK' /\ jobs' \subseteq jobs /\ UNCHANGED <<ns, role>>
    BY ClusterSteady DEF Cluster, Answer
  <2> QED BY <1>4, <2>1, <2>2, GoesOn DEF Pcs, HasJob, CheckPcs, At
<1> QED BY <1>1, <1>2, <1>3, <1>4 DEF Answer

\* A run reads the labels, or creates the namespace, or asks, or ends.
LEMMA EnsureNamespaceStep == ASSUME Inv, NEW t \in Terminals, EnsureNamespace(t) PROVE Inv'
<1>1. CASE ns.exists /\ ReadLabels(t)
  BY <1>1, ReadLabelsKeeps DEF EnsureNamespace, At
<1>2. CASE Exit(t, 2)
  BY <1>2, EndsQuietly DEF EnsureNamespace, Cluster
<1>3. CASE Goto(t, "look")
  <2>1. OpAt(t, "look") /\ Cmd(t).op = "run"
    BY DEF Inv, Good, PlaceOf, OpAt, RunPcs, EnsureNamespace, At
  <2>2. ClusterOK' /\ jobs' \subseteq jobs /\ UNCHANGED <<ns, role>>
    BY <1>3, ClusterSteady DEF Cluster, EnsureNamespace, At
  <2> QED BY <1>3, <2>1, <2>2, GoesOn DEF Pcs, HasJob, CheckPcs, EnsureNamespace, At
<1>4. CASE Goto(t, "ask")
  <2>1. OpAt(t, "ask")
    BY DEF Inv, Good, PlaceOf, OpAt, RunPcs, EnsureNamespace, At
  <2>2. ClusterOK' /\ jobs' \subseteq jobs /\ UNCHANGED <<ns, role>>
    BY <1>4, ClusterSteady DEF Cluster, EnsureNamespace, At
  <2> QED BY <1>4, <2>1, <2>2, GoesOn DEF Pcs, HasJob, CheckPcs, EnsureNamespace, At
<1> QED BY <1>1, <1>2, <1>3, <1>4 DEF EnsureNamespace, Confirm

\* The labels of what the run created, if it is still there.
LEMMA RereadStep == ASSUME Inv, NEW t \in Terminals, Reread(t) PROVE Inv'
<1>1. CASE ns.exists
  BY <1>1, ReadLabelsKeeps DEF Reread, At
<1>2. CASE ~ns.exists
  BY <1>2, EndsQuietly DEF Reread, Cluster
<1> QED BY <1>1, <1>2

\* A quota that is missing is remembered; one that is there stays.
LEMMA ListQuotasStep == ASSUME Inv, NEW t \in Terminals, ListQuotas(t) PROVE Inv'
<1> DEFINE m == IF "ResourceQuota" \in ns.objs THEN st[t].missing ELSE st[t].missing \cup {"quota"}
<1>a. st[t] \in TermState /\ ns.inc \in Nat
  BY DEF Inv, TypeOK, ClusterOK
<1>b. See(t) \in SUBSET Nat /\ st[t].missing \in SUBSET {"psa", "quota", "policy"}
  BY <1>a DEF See, TermState
<1>c. (\A i \in See(t) : i <= ns.inc) /\ See(t) # {} /\ (ns.exists /\ See(t) = {ns.inc} => st[t].seen = {ns.inc})
  BY <1>a DEF See, TermState, Inv, Good, CheckedOf, CheckPcs, At, ListQuotas
<1>d. m \in SUBSET {"psa", "quota", "policy"}
  BY <1>b
<1>e. ns.exists /\ st[t].seen = {ns.inc} => "psa" \in st[t].missing \/ ns.psa # "none"
  BY DEF ListQuotas, At, Inv, Good, CheckedOf
<1> DEFINE s == [st[t] EXCEPT !.pc = "policy", !.seen = See(t), !.missing = m]
<1>1. st' = [st EXCEPT ![t] = s] /\ st[t] \in TermState
  BY DEF ListQuotas, At, Inv, TypeOK
<1>2. s \in TermState
  <2>1. "policy" \in Pcs
    BY DEF Pcs
  <2> QED BY <1>1, <2>1, <1>b, <1>d DEF TermState
<1>3. /\ s.pc = "policy" /\ s.seen = See(t) /\ s.missing = m
      /\ s.cmd = st[t].cmd /\ s.n = st[t].n /\ s.todo = st[t].todo /\ s.failed = st[t].failed /\ s.exit = st[t].exit
  BY <1>1 DEF TermState
<1> HIDE DEF s
<1>4. UNCHANGED <<ns, jobs, role>>
  BY DEF Cluster, ListQuotas, At
<1>5. ClusterOK' /\ NsSteady /\ jobs' \subseteq jobs
  BY ClusterSteady DEF ListQuotas, At
<1>6. TypeOK' /\ OnlyAt(t) /\ st'[t] = s
  BY <1>1, <1>2, <1>3, <1>5, Moves DEF HasJob, ListQuotas, At
<1>7. PlaceOf(t)' /\ CountOf(t)'
  BY <1>3, <1>6, <1>4 DEF ListQuotas, At, Inv, Good, PlaceOf, OpAt, CountOf, RunPcs, Cmd
<1>8. CheckedOf(t)'
  BY <1>3, <1>6, <1>4, <1>a, <1>c, <1>e DEF CheckedOf, CheckPcs, Cmd
<1>9. InitOf(t)'
  BY <1>3, <1>6, <1>4 DEF ListQuotas, At, Inv, Good, PlaceOf, OpAt, InitOf, RunPcs, Cmd
<1>10. TodoOf(t)'
  BY <1>3, <1>6, <1>4, TodoKeeps
<1> QED BY <1>6, <1>5, <1>7, <1>8, <1>9, <1>10, OwnPart DEF Good

\* Whoever goes on has found all three, or said --allow-unguarded.
LEMMA ListPoliciesStep == ASSUME Inv, NEW t \in Terminals, ListPolicies(t) PROVE Inv'
<1> DEFINE m == st[t].missing \cup (IF \E o \in ns.objs : Selects(o) THEN {} ELSE {"policy"})
<1>a. st[t] \in TermState /\ ns.inc \in Nat
  BY DEF Inv, TypeOK, ClusterOK
<1>b. See(t) \in SUBSET Nat /\ st[t].missing \in SUBSET {"psa", "quota", "policy"}
  BY <1>a DEF See, TermState
<1>c. (\A i \in See(t) : i <= ns.inc) /\ See(t) # {} /\ (ns.exists /\ See(t) = {ns.inc} => st[t].seen = {ns.inc})
  BY <1>a DEF See, TermState, Inv, Good, CheckedOf, CheckPcs, At, ListPolicies
<1>d. m \in SUBSET {"psa", "quota", "policy"}
  BY <1>b
<1>1. CASE Exit(t, 2)
  BY <1>1, EndsQuietly DEF ListPolicies, Cluster
<1>2. CASE ~Exit(t, 2)
  <2>a. (m = {} \/ Cmd(t).req.unguarded) /\ st' = [st EXCEPT ![t].pc = "account", ![t].seen = See(t), ![t].missing = m]
    BY <1>2 DEF ListPolicies
  <2>b. m = {} => "psa" \notin st[t].missing /\ "quota" \notin st[t].missing /\ {"default-deny", "egress"} \cap ns.objs # {}
    BY DEF Selects
  <2>c. ns.exists /\ st[t].seen = {ns.inc} =>
          /\ "psa" \in st[t].missing \/ ns.psa # "none"
          /\ "quota" \in st[t].missing \/ "ResourceQuota" \in ns.objs
    BY DEF ListPolicies, At, Inv, Good, CheckedOf
  <2> HIDE DEF m
  <2> DEFINE s == [st[t] EXCEPT !.pc = "account", !.seen = See(t), !.missing = m]
  <2>1. st' = [st EXCEPT ![t] = s] /\ st[t] \in TermState
    BY <2>a DEF ListPolicies, At, Inv, TypeOK
  <2>2. s \in TermState
    <3>1. "account" \in Pcs
      BY <2>a DEF Pcs
    <3> QED BY <2>1, <3>1, <1>b, <1>d DEF TermState
  <2>3. /\ s.pc = "account" /\ s.seen = See(t) /\ s.missing = m
        /\ s.cmd = st[t].cmd /\ s.n = st[t].n /\ s.todo = st[t].todo /\ s.failed = st[t].failed /\ s.exit = st[t].exit
    BY <2>1 DEF TermState
  <2> HIDE DEF s
  <2>4. UNCHANGED <<ns, jobs, role>>
    BY <2>a DEF Cluster, ListPolicies, At
  <2>5. ClusterOK' /\ NsSteady /\ jobs' \subseteq jobs
    BY <2>a, ClusterSteady DEF ListPolicies, At
  <2>6. TypeOK' /\ OnlyAt(t) /\ st'[t] = s
    BY <2>a, <2>1, <2>2, <2>3, <2>5, Moves DEF HasJob, ListPolicies, At
  <2>7. PlaceOf(t)' /\ CountOf(t)'
    BY <2>a, <2>3, <2>6, <2>4 DEF ListPolicies, At, Inv, Good, PlaceOf, OpAt, CountOf, RunPcs, Cmd
  <2>8. CheckedOf(t)'
    BY <2>3, <2>6, <2>4, <1>a, <1>c, <2>a, <2>b, <2>c DEF CheckedOf, CheckPcs, HasGuards, Cmd
  <2>9. InitOf(t)'
    BY <2>a, <2>3, <2>6, <2>4 DEF ListPolicies, At, Inv, Good, PlaceOf, OpAt, InitOf, RunPcs, Cmd
  <2>10. TodoOf(t)'
    BY <2>3, <2>6, <2>4, TodoKeeps
  <2> QED BY <2>6, <2>5, <2>7, <2>8, <2>9, <2>10, OwnPart DEF Good
<1> QED BY <1>1, <1>2

\* What the checks found stays true of the incarnation they saw.
LEMMA GetServiceAccountStep == ASSUME Inv, NEW t \in Terminals, GetServiceAccount(t) PROVE Inv'
<1>a. st[t] \in TermState /\ ns.inc \in Nat
  BY DEF Inv, TypeOK, ClusterOK
<1>b. See(t) \in SUBSET Nat /\ st[t].missing \in SUBSET {"psa", "quota", "policy"}
  BY <1>a DEF See, TermState
<1>c. (\A i \in See(t) : i <= ns.inc) /\ See(t) # {} /\ (ns.exists /\ See(t) = {ns.inc} => st[t].seen = {ns.inc})
  BY <1>a DEF See, TermState, Inv, Good, CheckedOf, CheckPcs, At, GetServiceAccount
<1>1. CASE Exit(t, 2)
  BY <1>1, EndsQuietly DEF GetServiceAccount, Cluster
<1>2. CASE ~Exit(t, 2)
  <2>a. st' = [st EXCEPT ![t].pc = "gc", ![t].seen = See(t), ![t].psa = "none", ![t].missing = {}]
    BY <1>2 DEF GetServiceAccount
  <2>b. "none" \in PsaLevels
    BY DEF PsaLevels
  <2> DEFINE s == [st[t] EXCEPT !.pc = "gc", !.seen = See(t), !.psa = "none", !.missing = {}]
  <2>1. st' = [st EXCEPT ![t] = s] /\ st[t] \in TermState
    BY <2>a DEF GetServiceAccount, At, Inv, TypeOK
  <2>2. s \in TermState
    <3>1. "gc" \in Pcs
      BY <2>a DEF Pcs
    <3> QED BY <2>1, <3>1, <1>b, <2>b DEF TermState
  <2>3. /\ s.pc = "gc" /\ s.seen = See(t) /\ s.psa = "none" /\ s.missing = {}
        /\ s.cmd = st[t].cmd /\ s.n = st[t].n /\ s.todo = st[t].todo /\ s.failed = st[t].failed /\ s.exit = st[t].exit
    BY <2>1 DEF TermState
  <2> HIDE DEF s
  <2>4. UNCHANGED <<ns, jobs, role>>
    BY <2>a DEF Cluster, GetServiceAccount, At
  <2>5. ClusterOK' /\ NsSteady /\ jobs' \subseteq jobs
    BY <2>a, ClusterSteady DEF GetServiceAccount, At
  <2>6. TypeOK' /\ OnlyAt(t) /\ st'[t] = s
    BY <2>a, <2>1, <2>2, <2>3, <2>5, Moves DEF HasJob, GetServiceAccount, At
  <2>7. PlaceOf(t)' /\ CountOf(t)'
    BY <2>a, <2>3, <2>6, <2>4 DEF GetServiceAccount, At, Inv, Good, PlaceOf, OpAt, CountOf, RunPcs, Cmd
  <2>8. CheckedOf(t)'
    BY <2>a, <2>3, <2>6, <2>4, <1>c DEF GetServiceAccount, At, Inv, Good, PlaceOf, OpAt, CheckedOf, HasGuards, RunPcs, CheckPcs, Cmd
  <2>9. InitOf(t)'
    BY <2>a, <2>3, <2>6, <2>4, <1>c DEF GetServiceAccount, At, Inv, Good, PlaceOf, OpAt, InitOf, RunPcs, Cmd
  <2>10. TodoOf(t)'
    BY <2>3, <2>6, <2>4, TodoKeeps
  <2> QED BY <2>6, <2>5, <2>7, <2>8, <2>9, <2>10, OwnPart DEF Good
<1> QED BY <1>1, <1>2

\* What is listed is of the same owner and past its deadline.
LEMMA GcStep == ASSUME Inv, NEW t \in Terminals, Gc(t) PROVE Inv'
<1> DEFINE q == {j.id : j \in GcSelector(t)}
<1>a. q \in SUBSET (Terminals \cup LeftoverIds)
  BY DEF GcSelector, Inv, TypeOK, ClusterOK, Job
<1>c. \A i \in q : i \in Terminals => st[i].pc \in HasJob
  BY DEF GcSelector, Inv, NamedOnce
<1>d. \A j \in jobs : j.id \in q => MayTake(t, j)
  BY DEF Inv, NamedOnce, MayTake, GcSelector, Gc, Good, PlaceOf, OpAt, RunPcs, At, Cmd
<1>e. st' = [st EXCEPT ![t].todo = q, ![t].pc = "gcdelete"]
  BY DEF Gc
<1> HIDE DEF q
<1> DEFINE s == [st[t] EXCEPT !.todo = q, !.pc = "gcdelete"]
<1>1. st' = [st EXCEPT ![t] = s] /\ st[t] \in TermState
  BY <1>e DEF Gc, At, Inv, TypeOK
<1>2. s \in TermState
  <2>1. "gcdelete" \in Pcs
    BY <1>e DEF Pcs
  <2> QED BY <1>1, <2>1, <1>a DEF TermState
<1>3. /\ s.todo = q /\ s.pc = "gcdelete"
      /\ s.cmd = st[t].cmd /\ s.n = st[t].n /\ s.missing = st[t].missing /\ s.seen = st[t].seen /\ s.failed = st[t].failed /\ s.exit = st[t].exit
  BY <1>1 DEF TermState
<1> HIDE DEF s
<1>4. UNCHANGED <<ns, jobs, role>>
  BY <1>e DEF Cluster, Gc, At
<1>5. ClusterOK' /\ NsSteady /\ jobs' \subseteq jobs
  BY <1>e, ClusterSteady DEF Gc, At
<1>6. TypeOK' /\ OnlyAt(t) /\ st'[t] = s
  BY <1>e, <1>1, <1>2, <1>3, <1>5, Moves DEF HasJob, Gc, At
<1>7. PlaceOf(t)' /\ CountOf(t)'
  BY <1>e, <1>3, <1>6, <1>4 DEF Gc, At, Inv, Good, PlaceOf, OpAt, CountOf, RunPcs, Cmd
<1>8. CheckedOf(t)'
  BY <1>e, <1>3, <1>6, <1>4 DEF Gc, At, Inv, Good, PlaceOf, OpAt, CheckedOf, HasGuards, RunPcs, CheckPcs, Cmd
<1>9. InitOf(t)'
  BY <1>e, <1>3, <1>6, <1>4 DEF Gc, At, Inv, Good, PlaceOf, OpAt, InitOf, RunPcs, Cmd
<1>10. TodoOf(t)'
  BY <1>3, <1>6, <1>4, <1>c, <1>d DEF TodoOf, OnlyAt, MayTake, Cmd
<1> QED BY <1>6, <1>5, <1>7, <1>8, <1>9, <1>10, OwnPart DEF Good

\* One name less, and the Job that has it.
LEMMA GcDeleteStep == ASSUME Inv, NEW t \in Terminals, GcDelete(t) PROVE Inv'
<1>1. CASE st[t].todo = {}
  <2>1. OpAt(t, "cache")
    BY DEF Inv, Good, PlaceOf, OpAt, RunPcs, GcDelete, At
  <2>2. ClusterOK' /\ jobs' \subseteq jobs /\ UNCHANGED <<ns, role>>
    BY <1>1, Steady DEF Cluster, GcDelete, At
  <2> QED BY <1>1, <2>1, <2>2, GoesOn DEF Pcs, HasJob, CheckPcs, GcDelete, At
<1>2. CASE st[t].todo # {}
  <2>a. PICK id \in st[t].todo : Delete(id) /\ st' = [st EXCEPT ![t].todo = st[t].todo \ {id}]
    BY <1>2 DEF GcDelete
  <2>b. st[t].todo \ {id} \in SUBSET (Terminals \cup LeftoverIds)
    BY DEF Inv, TypeOK, TermState
  <2> DEFINE s == [st[t] EXCEPT !.todo = st[t].todo \ {id}]
  <2>1. st' = [st EXCEPT ![t] = s] /\ st[t] \in TermState
    BY <2>a DEF GcDelete, At, Inv, TypeOK
  <2>2. s \in TermState
    BY <2>1, <2>b DEF TermState
  <2>3. /\ s.todo = st[t].todo \ {id}
        /\ s.pc = st[t].pc /\ s.cmd = st[t].cmd /\ s.n = st[t].n /\ s.missing = st[t].missing /\ s.seen = st[t].seen /\ s.failed = st[t].failed /\ s.exit = st[t].exit
    BY <2>1 DEF TermState
  <2> HIDE DEF s
  <2>4. UNCHANGED <<ns, role>>
    BY <2>a DEF Cluster, GcDelete, At
  <2>5. ClusterOK' /\ NsSteady /\ jobs' \subseteq jobs
    BY <2>a, DeleteSteady DEF GcDelete, At
  <2>6. TypeOK' /\ OnlyAt(t) /\ st'[t] = s
    BY <2>a, <2>1, <2>2, <2>3, <2>5, Moves DEF HasJob, GcDelete, At
  <2>7. PlaceOf(t)' /\ CountOf(t)'
    BY <2>a, <2>3, <2>6, <2>4 DEF GcDelete, At, Inv, Good, PlaceOf, OpAt, CountOf, RunPcs, Cmd
  <2>8. CheckedOf(t)'
    BY <2>a, <2>3, <2>6, <2>4 DEF GcDelete, At, Inv, Good, PlaceOf, OpAt, CheckedOf, HasGuards, RunPcs, CheckPcs, Cmd
  <2>9. InitOf(t)'
    BY <2>a, <2>3, <2>6, <2>4 DEF GcDelete, At, Inv, Good, PlaceOf, OpAt, InitOf, RunPcs, Cmd
  <2>10. TodoOf(t)'
    BY <2>a, <2>3, <2>6, <2>4, <2>5, <2>6 DEF GcDelete, At, Inv, Good, TodoOf, PlaceOf, OpAt, RunPcs, HasJob, MayTake, Cmd, OnlyAt
  <2> QED BY <2>6, <2>5, <2>7, <2>8, <2>9, <2>10, OwnPart DEF Good
<1> QED BY <1>1, <1>2

\* One name less, and the Job that has it.
LEMMA CleanupDeleteStep == ASSUME Inv, NEW t \in Terminals, CleanupDelete(t) PROVE Inv'
<1>1. CASE st[t].todo = {}
  <2>1. OpAt(t, "volume")
    BY DEF Inv, Good, PlaceOf, OpAt, RunPcs, CleanupDelete, At
  <2>2. ClusterOK' /\ jobs' \subseteq jobs /\ UNCHANGED <<ns, role>>
    BY <1>1, Steady DEF Cluster, CleanupDelete, At
  <2> QED BY <1>1, <2>1, <2>2, GoesOn DEF Pcs, HasJob, CheckPcs, CleanupDelete, At
<1>2. CASE st[t].todo # {}
  <2>a. PICK id \in st[t].todo : Delete(id) /\ st' = [st EXCEPT ![t].todo = st[t].todo \ {id}]
    BY <1>2 DEF CleanupDelete
  <2>b. st[t].todo \ {id} \in SUBSET (Terminals \cup LeftoverIds)
    BY DEF Inv, TypeOK, TermState
  <2> DEFINE s == [st[t] EXCEPT !.todo = st[t].todo \ {id}]
  <2>1. st' = [st EXCEPT ![t] = s] /\ st[t] \in TermState
    BY <2>a DEF CleanupDelete, At, Inv, TypeOK
  <2>2. s \in TermState
    BY <2>1, <2>b DEF TermState
  <2>3. /\ s.todo = st[t].todo \ {id}
        /\ s.pc = st[t].pc /\ s.cmd = st[t].cmd /\ s.n = st[t].n /\ s.missing = st[t].missing /\ s.seen = st[t].seen /\ s.failed = st[t].failed /\ s.exit = st[t].exit
    BY <2>1 DEF TermState
  <2> HIDE DEF s
  <2>4. UNCHANGED <<ns, role>>
    BY <2>a DEF Cluster, CleanupDelete, At
  <2>5. ClusterOK' /\ NsSteady /\ jobs' \subseteq jobs
    BY <2>a, DeleteSteady DEF CleanupDelete, At
  <2>6. TypeOK' /\ OnlyAt(t) /\ st'[t] = s
    BY <2>a, <2>1, <2>2, <2>3, <2>5, Moves DEF HasJob, CleanupDelete, At
  <2>7. PlaceOf(t)' /\ CountOf(t)'
    BY <2>a, <2>3, <2>6, <2>4 DEF CleanupDelete, At, Inv, Good, PlaceOf, OpAt, CountOf, RunPcs, Cmd
  <2>8. CheckedOf(t)'
    BY <2>a, <2>3, <2>6, <2>4 DEF CleanupDelete, At, Inv, Good, PlaceOf, OpAt, CheckedOf, HasGuards, RunPcs, CheckPcs, Cmd
  <2>9. InitOf(t)'
    BY <2>a, <2>3, <2>6, <2>4 DEF CleanupDelete, At, Inv, Good, PlaceOf, OpAt, InitOf, RunPcs, Cmd
  <2>10. TodoOf(t)'
    BY <2>a, <2>3, <2>6, <2>4, <2>5, <2>6 DEF CleanupDelete, At, Inv, Good, TodoOf, PlaceOf, OpAt, RunPcs, HasJob, MayTake, Cmd, OnlyAt
  <2> QED BY <2>6, <2>5, <2>7, <2>8, <2>9, <2>10, OwnPart DEF Good
<1> QED BY <1>1, <1>2

\* A claim is made in a namespace that exists.
LEMMA MakeCacheStep == ASSUME Inv, NEW t \in Terminals, MakeCache(t) PROVE Inv'
<1>a. (~ns.exists => ~cache) /\ cache \in BOOLEAN /\ ns.exists \in BOOLEAN
  BY DEF Inv, TypeOK, ClusterOK
<1>1. CASE Exit(t, 3) /\ Cmd(t).req.cache /\ ~ns.exists
  <2>1. UNCHANGED Cluster
    BY <1>1, <1>a DEF MakeCache, Cluster
  <2> QED BY <1>1, <2>1, EndsQuietly
<1>2. CASE Goto(t, "job")
  <2>a. ClusterOK'
    BY <1>a DEF MakeCache, Inv, TypeOK, ClusterOK
  <2>1. OpAt(t, "job")
    BY DEF Inv, Good, PlaceOf, OpAt, RunPcs, MakeCache, At
  <2>2. ClusterOK' /\ jobs' \subseteq jobs /\ UNCHANGED <<ns, role>>
    BY <1>2, <2>a DEF Cluster, MakeCache, At
  <2> QED BY <1>2, <2>1, <2>2, GoesOn DEF Pcs, HasJob, CheckPcs, MakeCache, At
<1> QED BY <1>1, <1>2 DEF MakeCache

\* The new Job: its name is free, its request went through prepare, and what its checks saw holds.
LEMMA ApplyJobStep == ASSUME Inv, NEW t \in Terminals, ApplyJob(t) PROVE Inv'
<1>1. CASE ~ns.exists
  BY <1>1, EndsQuietly DEF ApplyJob, Cluster
<1>2. CASE ns.exists
  <2>a. jobs' = jobs \cup {RunJob(t)} /\ Goto(t, "running") /\ UNCHANGED <<ns, cache, role>>
    BY <1>2 DEF ApplyJob
  <2>b. Cmd(t).op = "run" /\ Prepare(Cmd(t).req) /\ st[t] \in TermState
    BY DEF ApplyJob, At, Inv, TypeOK, Good, PlaceOf, OpAt, RunPcs
  <2>c. Cmd(t) \in Cmds /\ st[t].seen \in SUBSET Nat
    BY <2>b DEF TermState, Cmd
  <2>d. /\ Cmd(t).req.vars \subseteq EnvVars
        /\ Cmd(t).req.unguarded \in BOOLEAN /\ Cmd(t).req.cache \in BOOLEAN /\ Cmd(t).req.allow_secret \in BOOLEAN
    BY <2>b, <2>c, NamespaceAssumption DEF Cmds
  <2>g. RunJob(t) \in Job
    BY <2>b, <2>c, <2>d DEF Job, RunJob, Owners, SecretKeys
  <2>1. /\ st' \in [Terminals -> TermState] /\ \A u \in Terminals : u # t => st'[u] = st[u]
        /\ st'[t].pc = "running" /\ st'[t].cmd = st[t].cmd /\ st'[t].n = st[t].n /\ st'[t].missing = st[t].missing
        /\ st'[t].seen = st[t].seen /\ st'[t].todo = st[t].todo /\ st'[t].failed = st[t].failed
    BY <2>a, Gotos DEF Inv, Pcs
  <2>2. ClusterOK' /\ NsSteady
    BY <1>2, <2>a, <2>g DEF Inv, TypeOK, ClusterOK, NsSteady
  <2>3. TypeOK' /\ OnlyAt(t) /\ st[t].pc \notin HasJob /\ st'[t].pc \in HasJob
    BY <2>1, <2>2 DEF TypeOK, OnlyAt, HasJob, ApplyJob, At
  <2>4. NamedOnce' /\ GuardedJobs' /\ JobsAsAllowed' /\ FreshOrOld
    <3>1. Permitted(RunJob(t)) /\ RunJob(t).id = t
      BY <2>b, <2>c, <2>d DEF Permitted, RunJob, Prepare, CheckRefRules, CheckEnvVars, SecretKeys
    <3>2. ~RunJob(t).probe /\ ~RunJob(t).unguarded /\ RunJob(t).checked = {ns.inc} => HasGuards
      BY <1>2 DEF RunJob, Inv, Good, CheckedOf, ApplyJob, At, Cmd
    <3> QED BY <2>a, <2>3, <3>1, <3>2, NewJob
  <2>5. PlaceOf(t)' /\ CountOf(t)'
    BY <2>a, <2>1, <2>3 DEF ApplyJob, At, Inv, Good, PlaceOf, OpAt, CountOf, RunPcs, Cmd
  <2>6. CheckedOf(t)'
    BY <2>a, <2>1, <2>3 DEF ApplyJob, At, Inv, Good, PlaceOf, OpAt, CheckedOf, HasGuards, RunPcs, CheckPcs, Cmd
  <2>7. InitOf(t)'
    BY <2>a, <2>1, <2>3 DEF ApplyJob, At, Inv, Good, PlaceOf, OpAt, InitOf, RunPcs, Cmd
  <2>8. TodoOf(t)'
    BY <2>a, <2>1, <2>3, <2>4 DEF ApplyJob, At, Inv, Good, TodoOf, PlaceOf, OpAt, RunPcs, HasJob, MayTake, Cmd, OnlyAt, FreshOrOld
  <2> QED BY <2>4, <2>3, <2>5, <2>6, <2>7, <2>8, <2>2, OwnPartAndJob DEF Good
<1> QED BY <1>1, <1>2

\* The probe's Job claims nothing.
LEMMA ApplyProbeStep == ASSUME Inv, NEW t \in Terminals, ApplyProbe(t) PROVE Inv'
<1>1. CASE ~ns.exists
  BY <1>1, EndsQuietly DEF ApplyProbe, Cluster
<1>2. CASE ns.exists
  <2>a. jobs' = jobs \cup {ProbeJob(t)} /\ Goto(t, "wait") /\ UNCHANGED <<ns, cache, role>>
    BY <1>2 DEF ApplyProbe
  <2>g. ProbeJob(t) \in Job
    BY TRUE DEF Job, ProbeJob, Owners, SecretKeys
  <2>1. /\ st' \in [Terminals -> TermState] /\ \A u \in Terminals : u # t => st'[u] = st[u]
        /\ st'[t].pc = "wait" /\ st'[t].cmd = st[t].cmd /\ st'[t].n = st[t].n /\ st'[t].missing = st[t].missing
        /\ st'[t].seen = st[t].seen /\ st'[t].todo = st[t].todo /\ st'[t].failed = st[t].failed
    BY <2>a, Gotos DEF Inv, Pcs
  <2>2. ClusterOK' /\ NsSteady
    BY <1>2, <2>a, <2>g DEF Inv, TypeOK, ClusterOK, NsSteady
  <2>3. TypeOK' /\ OnlyAt(t) /\ st[t].pc \notin HasJob /\ st'[t].pc \in HasJob
    BY <2>1, <2>2 DEF TypeOK, OnlyAt, HasJob, ApplyProbe, At
  <2>4. NamedOnce' /\ GuardedJobs' /\ JobsAsAllowed' /\ FreshOrOld
    <3>1. Permitted(ProbeJob(t)) /\ ProbeJob(t).id = t
      BY TRUE DEF Permitted, ProbeJob, Prepare, CheckRefRules, CheckEnvVars, SecretKeys
    <3>2. ~ProbeJob(t).probe /\ ~ProbeJob(t).unguarded /\ ProbeJob(t).checked = {ns.inc} => HasGuards
      BY <1>2 DEF ProbeJob, Inv, Good, CheckedOf, ApplyProbe, At, Cmd
    <3> QED BY <2>a, <2>3, <3>1, <3>2, NewJob
  <2>5. PlaceOf(t)' /\ CountOf(t)'
    BY <2>a, <2>1, <2>3 DEF ApplyProbe, At, Inv, Good, PlaceOf, OpAt, CountOf, RunPcs, Cmd
  <2>6. CheckedOf(t)'
    BY <2>a, <2>1, <2>3 DEF ApplyProbe, At, Inv, Good, PlaceOf, OpAt, CheckedOf, HasGuards, RunPcs, CheckPcs, Cmd
  <2>7. InitOf(t)'
    BY <2>a, <2>1, <2>3 DEF ApplyProbe, At, Inv, Good, PlaceOf, OpAt, InitOf, RunPcs, Cmd
  <2>8. TodoOf(t)'
    BY <2>a, <2>1, <2>3, <2>4 DEF ApplyProbe, At, Inv, Good, TodoOf, PlaceOf, OpAt, RunPcs, HasJob, MayTake, Cmd, OnlyAt, FreshOrOld
  <2> QED BY <2>4, <2>3, <2>5, <2>6, <2>7, <2>8, <2>2, OwnPartAndJob DEF Good
<1> QED BY <1>1, <1>2

\* The end of a run, with or without its Job.
LEMMA RunEndsStep == ASSUME Inv, NEW t \in Terminals, RunEnds(t) PROVE Inv'
<1>a. Cmd(t).op = "run"
  BY DEF RunEnds, At, Inv, Good, PlaceOf, OpAt, RunPcs
<1>1. ClusterOK' /\ NsSteady /\ jobs' \subseteq jobs
  BY Steady, DeleteSteady DEF RunEnds
<1> QED BY <1>1, <1>a, Exits DEF RunEnds

\* The end of a verify whose pod never came.
LEMMA PodIsLateStep == ASSUME Inv, NEW t \in Terminals, PodIsLate(t) PROVE Inv'
<1>1. ClusterOK' /\ NsSteady /\ jobs' \subseteq jobs
  BY DeleteSteady DEF PodIsLate
<1> QED BY <1>1, Exits DEF PodIsLate

LEMMA LogBreaksStep == ASSUME Inv, NEW t \in Terminals, LogBreaks(t) PROVE Inv'
<1>1. ClusterOK' /\ NsSteady /\ jobs' \subseteq jobs
  BY DeleteSteady DEF LogBreaks
<1> QED BY <1>1, Exits DEF LogBreaks

\* Exit 0 only when the end marker was read, which is the last line.
LEMMA JudgeStep == ASSUME Inv, NEW t \in Terminals, Judge(t) PROVE Inv'
<1>b. Len(PROBE(Cmd(t).req.rdma)) \in 8..9 /\ st[t].n \in 0..9 /\ Cmd(t).op = "verify" /\ Cmd(t).req.rdma \in BOOLEAN
  <2>1. Cmd(t).op = "verify" /\ st[t] \in TermState
    BY DEF Judge, At, Inv, TypeOK, Good, PlaceOf, OpAt
  <2>2. st[t].n \in 0..9
    BY <2>1 DEF TermState
  <2> QED BY <2>1, <2>2, ProbeLen DEF Inv
<1> DEFINE code == IF st[t].failed # "none" \/ Incomplete(t) THEN 1 ELSE 0
<1>1. ClusterOK' /\ NsSteady /\ jobs' \subseteq jobs
  BY DeleteSteady DEF Judge
<1>2. st[t].n <= Len(PROBE(Cmd(t).req.rdma))
  BY DEF Judge, At, Inv, Good, CountOf
<1>3. ~Incomplete(t) => st[t].n = Len(PROBE(Cmd(t).req.rdma))
  <2>1. SUFFICES ASSUME ~Incomplete(t) PROVE st[t].n = Len(PROBE(Cmd(t).req.rdma))
    OBVIOUS
  <2>2. PICK i \in 1..st[t].n : PROBE(Cmd(t).req.rdma)[i] = "done"
    BY <2>1 DEF Incomplete, Reported
  <2>3. i \in 1..Len(PROBE(Cmd(t).req.rdma))
    BY <1>b, <1>2
  <2>4. i = Len(PROBE(Cmd(t).req.rdma))
    BY <1>b, <2>2, <2>3, ProbeEnds
  <2> QED BY <2>4, <1>b, <1>2
<1>4. code = 0 => st[t].n = Len(PROBE(Cmd(t).req.rdma)) /\ st[t].failed = "none"
  BY <1>3
<1>5. code \in {0, 1, 2, 3, 4, 130} /\ Exit(t, code)
  BY DEF Judge
<1> HIDE DEF code
<1> QED BY <1>1, <1>4, <1>5, Exits

\* Ctrl-C, wherever it comes.
LEMMA StopsStep == ASSUME Inv, NEW t \in Terminals, Stops(t) PROVE Inv'
<1>1. ClusterOK' /\ NsSteady /\ jobs' \subseteq jobs
  BY Steady, DeleteSteady DEF Stops
<1>2. PICK code \in {1, 3, 130} : Exit(t, code)
  BY DEF Stops
<1> QED BY <1>1, <1>2, Exits

\* What is listed is what the scope names.
LEMMA ConfirmAllStep == ASSUME Inv, NEW t \in Terminals, ConfirmAll(t) PROVE Inv'
<1>1. CASE Exit(t, 2)
  BY <1>1, EndsQuietly DEF ConfirmAll, Cluster
<1>2. ASSUME NEW p \in {"askall", "select"}, Goto(t, p) PROVE Inv'
  <2>1. OpAt(t, p)
    BY <1>2 DEF Inv, Good, PlaceOf, OpAt, RunPcs, ConfirmAll, At
  <2>2. ClusterOK' /\ jobs' \subseteq jobs /\ UNCHANGED <<ns, role>>
    BY ClusterSteady DEF Cluster, ConfirmAll
  <2> QED BY <1>2, <2>1, <2>2, GoesOn DEF Pcs, HasJob, CheckPcs, ConfirmAll, At
<1> QED BY <1>1, <1>2 DEF ConfirmAll, Confirm

LEMMA SelectStep == ASSUME Inv, NEW t \in Terminals, Select(t) PROVE Inv'
<1> DEFINE q == {j.id : j \in Selector(t)}
<1>a. q \in SUBSET (Terminals \cup LeftoverIds)
  BY DEF Selector, Inv, TypeOK, ClusterOK, Job
<1>c. \A i \in q : i \in Terminals => st[i].pc \in HasJob
  BY DEF Selector, Inv, NamedOnce
<1>d. \A j \in jobs : j.id \in q => MayTake(t, j)
  BY DEF Inv, NamedOnce, MayTake, Selector, Select, Good, PlaceOf, OpAt, RunPcs, At, Cmd
<1>e. st' = [st EXCEPT ![t].todo = q, ![t].pc = "delete"]
  BY DEF Select
<1> HIDE DEF q
<1> DEFINE s == [st[t] EXCEPT !.todo = q, !.pc = "delete"]
<1>1. st' = [st EXCEPT ![t] = s] /\ st[t] \in TermState
  BY <1>e DEF Select, At, Inv, TypeOK
<1>2. s \in TermState
  <2>1. "delete" \in Pcs
    BY <1>e DEF Pcs
  <2> QED BY <1>1, <2>1, <1>a DEF TermState
<1>3. /\ s.todo = q /\ s.pc = "delete"
      /\ s.cmd = st[t].cmd /\ s.n = st[t].n /\ s.missing = st[t].missing /\ s.seen = st[t].seen /\ s.failed = st[t].failed /\ s.exit = st[t].exit
  BY <1>1 DEF TermState
<1> HIDE DEF s
<1>4. UNCHANGED <<ns, jobs, role>>
  BY <1>e DEF Cluster, Select, At
<1>5. ClusterOK' /\ NsSteady /\ jobs' \subseteq jobs
  BY <1>e, ClusterSteady DEF Select, At
<1>6. TypeOK' /\ OnlyAt(t) /\ st'[t] = s
  BY <1>e, <1>1, <1>2, <1>3, <1>5, Moves DEF HasJob, Select, At
<1>7. PlaceOf(t)' /\ CountOf(t)'
  BY <1>e, <1>3, <1>6, <1>4 DEF Select, At, Inv, Good, PlaceOf, OpAt, CountOf, RunPcs, Cmd
<1>8. CheckedOf(t)'
  BY <1>e, <1>3, <1>6, <1>4 DEF Select, At, Inv, Good, PlaceOf, OpAt, CheckedOf, HasGuards, RunPcs, CheckPcs, Cmd
<1>9. InitOf(t)'
  BY <1>e, <1>3, <1>6, <1>4 DEF Select, At, Inv, Good, PlaceOf, OpAt, InitOf, RunPcs, Cmd
<1>10. TodoOf(t)'
  BY <1>3, <1>6, <1>4, <1>c, <1>d DEF TodoOf, OnlyAt, MayTake, Cmd
<1> QED BY <1>6, <1>5, <1>7, <1>8, <1>9, <1>10, OwnPart DEF Good

\* The volume goes, or stays.
LEMMA DeleteCacheStep == ASSUME Inv, NEW t \in Terminals, DeleteCache(t) PROVE Inv'
<1>a. ClusterOK' /\ NsSteady /\ jobs' \subseteq jobs
  BY DEF DeleteCache, Inv, TypeOK, ClusterOK, NsSteady
<1>b. Cmd(t).op = "cleanup"
  BY DEF DeleteCache, At, Inv, Good, PlaceOf, OpAt
<1>1. CASE Exit(t, 0)
  BY <1>1, <1>a, <1>b, Exits
<1>2. CASE Goto(t, "label")
  <2>1. OpAt(t, "label")
    BY DEF Inv, Good, PlaceOf, OpAt, RunPcs, DeleteCache, At
  <2>2. ClusterOK' /\ jobs' \subseteq jobs /\ UNCHANGED <<ns, role>>
    BY <1>2, <1>a DEF Cluster, DeleteCache, At
  <2> QED BY <1>2, <2>1, <2>2, GoesOn DEF Pcs, HasJob, CheckPcs, DeleteCache, At
<1> QED BY <1>1, <1>2 DEF DeleteCache

\* The label decides whether the namespace goes.
LEMMA ReadManagedStep == ASSUME Inv, NEW t \in Terminals, ReadManaged(t) PROVE Inv'
<1>b. Cmd(t).op = "cleanup"
  BY DEF ReadManaged, At, Inv, Good, PlaceOf, OpAt
<1>1. CASE Exit(t, 0) \/ Exit(t, 2)
  BY <1>1, <1>b, Exits, ClusterSteady DEF ReadManaged, Cluster
<1>2. ASSUME NEW p \in {"asknamespace", "remove"}, Goto(t, p) PROVE Inv'
  <2>1. OpAt(t, p)
    BY <1>2, <1>b DEF OpAt, RunPcs
  <2>2. ClusterOK' /\ jobs' \subseteq jobs /\ UNCHANGED <<ns, role>>
    BY ClusterSteady DEF Cluster, ReadManaged
  <2> QED BY <1>2, <2>1, <2>2, GoesOn DEF Pcs, HasJob, CheckPcs, ReadManaged, At
<1> QED BY <1>1, <1>2 DEF ReadManaged, Confirm

\* With the namespace everything in it goes; its number stays used.
LEMMA DeleteNamespaceStep == ASSUME Inv, NEW t \in Terminals, DeleteNamespace(t) PROVE Inv'
<1>1. ClusterOK' /\ NsSteady /\ jobs' \subseteq jobs
  <2>1. ns.inc \in Nat /\ role \in BOOLEAN /\ "none" \in PsaLevels
    BY DEF Inv, TypeOK, ClusterOK, PsaLevels
  <2>2. ns' = Absent(ns.inc) /\ jobs' = {} /\ cache' = FALSE /\ role' = role
    BY DEF DeleteNamespace
  <2>3. ~ns'.exists /\ ns'.inc = ns.inc /\ {} \subseteq Objects
    BY <2>2 DEF Absent
  <2>4. ns' \in [exists : BOOLEAN, inc : Nat, managed : BOOLEAN, psa : PsaLevels, objs : SUBSET Objects]
    BY <2>1, <2>2, <2>3 DEF Absent
  <2>5. ClusterOK'
    BY <2>1, <2>2, <2>4 DEF ClusterOK
  <2>6. NsSteady
    BY <2>1, <2>2, <2>3 DEF NsSteady
  <2> QED BY <2>2, <2>5, <2>6
<1>2. Cmd(t).op = "cleanup"
  BY DEF DeleteNamespace, At, Inv, Good, PlaceOf, OpAt
<1> QED BY <1>1, <1>2, Exits DEF DeleteNamespace

\* A command is refused, or begins with nothing known.
LEMMA BeginStep == ASSUME Inv, NEW t \in Terminals, Begin(t) PROVE Inv'
<1>a. PICK c \in Commands[t] :
        st' = [st EXCEPT ![t].cmd = c, ![t].pc = IF Accepted(c, config[Owner[t]]) THEN First(c.op) ELSE "done",
                         ![t].exit = IF Accepted(c, config[Owner[t]]) THEN @ ELSE 2]
  BY DEF Begin
<1> DEFINE p == IF Accepted(c, config[Owner[t]]) THEN First(c.op) ELSE "done"
<1>b. st[t] = Idle /\ st[t] \in TermState
  BY DEF Begin, At, Inv, TypeOK, Good, PlaceOf, OpAt
<1> DEFINE e == IF Accepted(c, config[Owner[t]]) THEN st[t].exit ELSE 2
<1>c. c \in Cmds /\ e \in {-1, 0, 1, 2, 3, 4, 130}
  BY <1>b DEF Cmds, TermState
<1>d. c.op \in {"run", "init", "verify", "cleanup"}
  BY NamespaceAssumption
<1>e. /\ p = "done" \/ (p = "get" /\ c.op = "run" /\ Prepare(c.req)) \/ (p = "look" /\ c.op = "init")
         \/ (p = "probe" /\ c.op = "verify") \/ (p = "confirm" /\ c.op = "cleanup")
      /\ p = "done" => e = 2
  BY <1>d DEF First, Accepted
<1>f. st[t].pc = "start" /\ st[t].n = 0 /\ st[t].missing = {} /\ st[t].seen = {} /\ st[t].todo = {} /\ st[t].failed = "none"
  BY <1>b DEF Idle
<1>g. st' = [st EXCEPT ![t].cmd = c, ![t].pc = p, ![t].exit = e]
  BY <1>a
<1> HIDE DEF p, e
<1> DEFINE s == [st[t] EXCEPT !.cmd = c, !.pc = p, !.exit = e]
<1>1. st' = [st EXCEPT ![t] = s] /\ st[t] \in TermState
  BY <1>g, <1>e DEF Begin, At, Inv, TypeOK
<1>2. s \in TermState
  <2>1. p \in Pcs
    BY <1>g, <1>e DEF Pcs
  <2> QED BY <1>1, <2>1, <1>c DEF TermState
<1>3. /\ s.cmd = c /\ s.pc = p /\ s.exit = e
      /\ s.n = st[t].n /\ s.missing = st[t].missing /\ s.seen = st[t].seen /\ s.todo = st[t].todo /\ s.failed = st[t].failed
  BY <1>1 DEF TermState
<1> HIDE DEF s
<1>4. UNCHANGED <<ns, jobs, role>>
  BY <1>g, <1>e DEF Cluster, Begin, At
<1>5. ClusterOK' /\ NsSteady /\ jobs' \subseteq jobs
  BY <1>g, <1>e, ClusterSteady DEF Begin, At
<1>6. TypeOK' /\ OnlyAt(t) /\ st'[t] = s
  BY <1>g, <1>e, <1>1, <1>2, <1>3, <1>5, Moves, <1>f DEF HasJob, Begin, At
<1>7. PlaceOf(t)' /\ CountOf(t)'
  BY <1>e, <1>f, <1>3, <1>6 DEF PlaceOf, OpAt, CountOf, RunPcs, Cmd
<1>8. CheckedOf(t)'
  BY <1>g, <1>e, <1>3, <1>6, <1>4, <1>f DEF Begin, At, Inv, Good, PlaceOf, OpAt, CheckedOf, HasGuards, RunPcs, CheckPcs, Cmd
<1>9. InitOf(t)'
  BY <1>e, <1>f, <1>3, <1>6 DEF InitOf, Cmd
<1>10. TodoOf(t)'
  BY <1>e, <1>f, <1>3, <1>6 DEF TodoOf
<1> QED BY <1>6, <1>5, <1>7, <1>8, <1>9, <1>10, OwnPart DEF Good

\* One line more, and only the marker is the last one.
LEMMA ReadLineStep == ASSUME Inv, NEW t \in Terminals, ReadLine(t) PROVE Inv'
<1>b. Len(PROBE(Cmd(t).req.rdma)) \in 8..9 /\ st[t].n \in 0..9 /\ Cmd(t).op = "verify" /\ Cmd(t).req.rdma \in BOOLEAN
  <2>1. Cmd(t).op = "verify" /\ st[t] \in TermState
    BY DEF ReadLine, At, Inv, TypeOK, Good, PlaceOf, OpAt
  <2>2. st[t].n \in 0..9
    BY <2>1 DEF TermState
  <2> QED BY <2>1, <2>2, ProbeLen DEF Inv
<1> DEFINE len == Len(PROBE(Cmd(t).req.rdma))
<1>c. st[t].n < len
  BY DEF ReadLine, At, Inv, Good, CountOf
<1>d. st[t].n + 1 \in 1..len /\ st[t].n + 1 \in 0..9
  <2>1. len \in 8..9
    BY <1>b
  <2> HIDE DEF len
  <2> QED BY <1>b, <1>c, <2>1
<1>e. Line(t) \in Failures \cup {"done"} /\ (Line(t) = "done" <=> st[t].n + 1 = len)
  BY <1>b, <1>d, ProbeEnds DEF Line
<1>f. st[t] \in TermState /\ st[t].failed \in Failures
  BY DEF Inv, TypeOK, TermState
<1>g. "judge" \in Pcs /\ "log" \in Pcs
  BY DEF Pcs
<1>1. PICK s \in TermState :
        /\ st' = [st EXCEPT ![t] = s]
        /\ s.n = st[t].n + 1 /\ s.cmd = st[t].cmd /\ s.seen = st[t].seen /\ s.todo = st[t].todo
        /\ s.pc \in {"judge", "log"}
        /\ s.pc = "log" => st[t].n + 1 < len
  <2>1. CASE Line(t) = "done"
    <3> DEFINE s == [st[t] EXCEPT !.n = st[t].n + 1, !.pc = "judge"]
    <3>1. st' = [st EXCEPT ![t] = s]
      BY <2>1 DEF ReadLine
    <3>2. s \in TermState
      BY <1>d, <1>f, <1>g DEF TermState
    <3>3. s.n = st[t].n + 1 /\ s.cmd = st[t].cmd /\ s.seen = st[t].seen /\ s.todo = st[t].todo /\ s.pc = "judge"
      BY <1>f DEF TermState
    <3> HIDE DEF s
    <3> QED BY <3>1, <3>2, <3>3
  <2>2. CASE Line(t) # "done"
    <3>1. PICK ok \in BOOLEAN :
            st' = [st EXCEPT ![t].n = @ + 1, ![t].failed = IF ok \/ @ # "none" THEN @ ELSE Line(t),
                             ![t].pc = IF ~ok /\ Line(t) = "curl" THEN "judge" ELSE "log"]
      BY <2>2 DEF ReadLine
    <3> DEFINE f == IF ok \/ st[t].failed # "none" THEN st[t].failed ELSE Line(t)
    <3> DEFINE p == IF ~ok /\ Line(t) = "curl" THEN "judge" ELSE "log"
    <3> DEFINE s == [st[t] EXCEPT !.n = st[t].n + 1, !.failed = f, !.pc = p]
    <3>2. st' = [st EXCEPT ![t] = s]
      BY <3>1
    <3>3. f \in Failures /\ p \in {"judge", "log"}
      BY <1>e, <1>f, <2>2
    <3> HIDE DEF f, p
    <3>4. s \in TermState
      <4>1. p \in Pcs
        BY <1>g, <3>3
      <4> QED BY <1>d, <1>f, <4>1, <3>3 DEF TermState
    <3>5. s.n = st[t].n + 1 /\ s.cmd = st[t].cmd /\ s.seen = st[t].seen /\ s.todo = st[t].todo /\ s.pc = p
      BY <1>f DEF TermState
    <3> HIDE DEF s
    <3>6. st[t].n + 1 < len
      <4>1. st[t].n + 1 # len /\ len \in 8..9
        BY <1>b, <1>e, <2>2
      <4> HIDE DEF len
      <4> QED BY <1>b, <1>d, <4>1
    <3> QED BY <3>2, <3>3, <3>4, <3>5, <3>6
  <2> QED BY <2>1, <2>2
<1>2. ClusterOK' /\ NsSteady /\ jobs' \subseteq jobs /\ UNCHANGED <<ns, jobs>>
  BY ClusterSteady DEF ReadLine, Cluster
<1>3. TypeOK' /\ OnlyAt(t) /\ st'[t] = s
  BY <1>1, <1>2, Moves DEF HasJob, ReadLine, At
<1>4. st[t].n + 1 <= len
  <2>1. len \in 8..9
    BY <1>b
  <2> HIDE DEF len
  <2> QED BY <1>d, <2>1
<1>5. PlaceOf(t)' /\ CountOf(t)'
  BY <1>1, <1>3, <1>4, <1>b DEF PlaceOf, OpAt, CountOf, RunPcs, Cmd
<1>6. CheckedOf(t)'
  BY <1>1, <1>2, <1>3 DEF Inv, Good, CheckedOf, CheckPcs
<1>7. InitOf(t)'
  BY <1>1, <1>3, <1>b DEF InitOf, Cmd
<1>8. TodoOf(t)'
  BY <1>1, <1>3, TodoKeeps
<1> QED BY <1>2, <1>3, <1>5, <1>6, <1>7, <1>8, OwnPart DEF Good

\* One guardrail more; what an init applied before it is still there if no other incarnation came between.
LEMMA ApplyStep == ASSUME Inv, NEW t \in Terminals, Apply(t) PROVE Inv'
<1> DEFINE init == Cmd(t).op = "init"
<1> DEFINE N == st[t].n
<1>a. N \in 1..8 /\ st[t] \in TermState /\ Cmd(t).op \in {"run", "init"} /\ ns.inc \in Nat /\ ns.exists \in BOOLEAN /\ role \in BOOLEAN
  BY DEF Apply, At, Inv, TypeOK, ClusterOK, Good, PlaceOf, OpAt, CountOf
<1>b. \/ N = 1 /\ ApplyNamespace(t)
      \/ N \in 2..7 /\ GUARDRAILS[N] \in Inside /\ ns.exists /\ ns' = [ns EXCEPT !.objs = @ \cup {GUARDRAILS[N]}] /\ role' = role
      \/ N = 8 /\ ns' = ns /\ role'
  <2>1. CASE N = 1
    BY <1>a, <2>1, GuardNames DEF Apply
  <2>2. CASE N \in 2..7
    <3>1. GUARDRAILS[N] \in Inside /\ GUARDRAILS[N] # "Namespace" /\ GUARDRAILS[N] # "ClusterRole"
      BY <2>2, GuardNames
    <3> QED BY <1>a, <2>2, <3>1 DEF Apply, ApplyObject
  <2>3. CASE N = 8
    <3>1. GUARDRAILS[N] = "ClusterRole" /\ "ClusterRole" \notin Inside
      BY <2>3, GuardNames
    <3> QED BY <1>a, <2>3, <3>1 DEF Apply, ApplyObject
  <2> QED BY <1>a, <2>1, <2>2, <2>3
<1>c. ClusterOK' /\ NsSteady /\ jobs' \subseteq jobs
  <2>1. CASE N = 1 /\ ApplyNamespace(t)
    <3>1. Level(Cmd(t)) \in PsaLevels /\ Level(Cmd(t)) # "none"
      BY DEF Level, PsaLevels
    <3>2. st[t].existing \in BOOLEAN
      BY <1>a DEF TermState
    <3>3. ns \in [exists : BOOLEAN, inc : Nat, managed : BOOLEAN, psa : PsaLevels, objs : SUBSET Objects]
      BY DEF Inv, TypeOK, ClusterOK
    <3> DEFINE inc == IF ns.exists THEN ns.inc ELSE ns.inc + 1
    <3>4. inc \in Nat /\ inc >= ns.inc /\ (ns.exists => inc = ns.inc) /\ (inc = ns.inc => ns.exists)
      BY <1>a
    <3>5. ns' = [ns EXCEPT !.exists = TRUE, !.inc = inc, !.managed = ~st[t].existing, !.psa = Level(Cmd(t))]
          /\ UNCHANGED <<jobs, cache, role>>
      BY <2>1 DEF ApplyNamespace, Apply
    <3> HIDE DEF inc
    <3>6. ns' \in [exists : BOOLEAN, inc : Nat, managed : BOOLEAN, psa : PsaLevels, objs : SUBSET Objects]
      BY <3>1, <3>2, <3>3, <3>4, <3>5
    <3>7. ns'.exists /\ ns'.inc = inc /\ ns'.psa = Level(Cmd(t)) /\ ns'.objs = ns.objs
      BY <3>3, <3>5
    <3>8. ClusterOK'
      BY <3>5, <3>6, <3>7 DEF Inv, TypeOK, ClusterOK
    <3>9. NsSteady
      BY <3>1, <3>4, <3>5, <3>7 DEF NsSteady
    <3> QED BY <3>5, <3>8, <3>9
  <2>2. CASE N \in 2..7 /\ GUARDRAILS[N] \in Inside /\ ns.exists /\ ns' = [ns EXCEPT !.objs = @ \cup {GUARDRAILS[N]}] /\ role' = role
    BY <1>a, <2>2 DEF Apply, Inv, TypeOK, ClusterOK, NsSteady, Objects
  <2>3. CASE N = 8 /\ ns' = ns /\ role'
    BY <1>a, <2>3 DEF Apply, Inv, TypeOK, ClusterOK, NsSteady
  <2> QED BY <1>b, <2>1, <2>2, <2>3
<1> DEFINE p == IF N # 8 THEN "apply" ELSE IF init THEN "done" ELSE "reread"
<1> DEFINE m == IF N = 8 THEN 0 ELSE N + 1
<1> DEFINE v == IF init THEN st[t].seen \cup {ns'.inc} ELSE st[t].seen
<1> DEFINE e == IF N = 8 /\ init THEN 0 ELSE st[t].exit
<1>d. st' = [st EXCEPT ![t].n = m, ![t].existing = FALSE, ![t].pc = p, ![t].seen = v, ![t].exit = e]
  BY GuardNames DEF Apply, Applied
<1>e. /\ m \in 0..9 /\ v \in SUBSET Nat /\ e \in {-1, 0, 1, 2, 3, 4, 130} /\ FALSE \in BOOLEAN
      /\ p \in {"apply", "done", "reread"}
  BY <1>a, <1>c DEF TermState, ClusterOK
<1>f. \A i \in v : i <= ns'.inc
  <2>1. ns'.inc \in Nat /\ ns'.inc >= ns.inc
    BY <1>c DEF ClusterOK, NsSteady
  <2>2. \A i \in st[t].seen : i <= ns.inc /\ i \in Nat
    BY <1>a DEF Inv, Good, CheckedOf, TermState
  <2> QED BY <1>a, <2>1, <2>2
<1>g. p # "apply" => N = 8
  OBVIOUS
<1>i. p = "apply" => m = N + 1 /\ N # 8 /\ m \in 1..8
  BY <1>a
<1>j. p = "done" => init
  OBVIOUS
<1>k. p = "reread" => ~init
  OBVIOUS
<1>l. init /\ (p = "apply" \/ p = "done") /\ ns'.exists /\ v = {ns'.inc} =>
          ns'.psa # "none" /\ Before(N + 1) \subseteq ns'.objs /\ (N = 8 => role')
  <2>1. SUFFICES ASSUME init, ns'.exists, v = {ns'.inc}
                 PROVE  ns'.psa # "none" /\ Before(N + 1) \subseteq ns'.objs /\ (N = 8 => role')
    OBVIOUS
  <2>2. Before(N + 1) = Before(N) \cup ({GUARDRAILS[N]} \cap Inside)
    BY <1>a DEF Before
  <2>3. CASE N = 1 /\ ApplyNamespace(t)
    <3>1. Before(N + 1) = {}
      BY <2>3, GuardNames DEF Before
    <3>2. ns'.psa # "none"
      BY <2>3 DEF ApplyNamespace, Level, Inv, TypeOK, ClusterOK
    <3> QED BY <2>3, <3>1, <3>2
  <2>4. CASE N # 1 /\ ns'.exists = ns.exists /\ ns'.inc = ns.inc /\ ns'.psa = ns.psa
             /\ ns'.objs = ns.objs \cup ({GUARDRAILS[N]} \cap Inside)
    <3>1. st[t].seen # {}
      BY <1>a, <2>1, <2>4 DEF Inv, Good, InitOf, Apply, At
    <3>2. st[t].seen = {ns.inc}
      BY <2>1, <2>4, <3>1
    <3>3. ns.psa # "none" /\ Before(N) \subseteq ns.objs
      BY <2>1, <2>4, <3>2 DEF Inv, Good, InitOf, Apply, At
    <3> QED BY <1>b, <2>2, <2>4, <3>3
  <2>5. CASE N \in 2..7 /\ GUARDRAILS[N] \in Inside /\ ns.exists /\ ns' = [ns EXCEPT !.objs = @ \cup {GUARDRAILS[N]}]
    <3>1. ns'.exists = ns.exists /\ ns'.inc = ns.inc /\ ns'.psa = ns.psa /\ ns'.objs = ns.objs \cup {GUARDRAILS[N]}
      BY <2>5 DEF Inv, TypeOK, ClusterOK
    <3>2. N # 1 /\ {GUARDRAILS[N]} \cap Inside = {GUARDRAILS[N]}
      BY <2>5
    <3> QED BY <2>4, <3>1, <3>2
  <2>6. CASE N = 8 /\ ns' = ns /\ role'
    BY <2>4, <2>6, GuardNames
  <2> QED BY <1>b, <2>3, <2>5, <2>6
<1>m. Before(9) = Inside
  BY DEF Before, Inside, GUARDRAILS, Range
<1>n. N = 8 => Before(N + 1) = Inside
  BY <1>m
<1>o. init => v # {}
  OBVIOUS
<1>q. st[t].pc = "apply"
  BY DEF Apply, At
<1> HIDE DEF p, m, v, e
<1> DEFINE s == [st[t] EXCEPT !.n = m, !.existing = FALSE, !.pc = p, !.seen = v, !.exit = e]
<1>1. st' = [st EXCEPT ![t] = s]
  BY <1>d
<1>2. s \in TermState
  <2>1. p \in Pcs
    BY <1>e DEF Pcs
  <2> QED BY <1>a, <1>e, <2>1 DEF TermState
<1>3. /\ s.n = m /\ s.pc = p /\ s.seen = v /\ s.exit = e
      /\ s.cmd = st[t].cmd /\ s.todo = st[t].todo /\ s.failed = st[t].failed
  BY <1>a DEF TermState
<1> HIDE DEF s
<1>4. TypeOK' /\ OnlyAt(t) /\ st'[t] = s
  BY <1>1, <1>2, <1>c, <1>q, Moves DEF HasJob
<1>5. PlaceOf(t)' /\ CountOf(t)'
  BY <1>3, <1>4, <1>a, <1>e, <1>i, <1>j, <1>k, <1>q DEF Inv, Good, PlaceOf, OpAt, CountOf, RunPcs, Cmd
<1>6. CheckedOf(t)'
  BY <1>3, <1>4, <1>e, <1>f DEF CheckedOf, CheckPcs
<1>7. InitOf(t)'
  <2>1. SUFFICES ASSUME init PROVE InitOf(t)'
    BY <1>3, <1>4 DEF InitOf, Cmd
  <2>2. p = "apply" => m # 1 /\ v # {} /\ m = N + 1
    BY <1>a, <1>i, <1>o, <2>1
  <2> QED BY <2>1, <2>2, <1>3, <1>4, <1>e, <1>g, <1>l, <1>n DEF InitOf
<1>8. TodoOf(t)'
  BY <1>3, <1>4, <1>e, TodoKeeps
<1> QED BY <1>c, <1>4, <1>5, <1>6, <1>7, <1>8, OwnPart DEF Good

-----------------------------------------------------------------------------
(* What happens around the commands. *)

\* A step that no terminal takes keeps what is known of each of them.
LEMMA AroundKeeps ==
    ASSUME Inv, UNCHANGED st, ClusterOK', NsSteady, FreshOrOld
    PROVE  TypeOK' /\ \A t \in Terminals : Good(t)'
<1>1. TypeOK'
  BY DEF Inv, TypeOK
<1>2. \A t \in Terminals : OnlyAt(t)
  BY DEF OnlyAt
<1> QED BY <1>1, <1>2, OthersKeep

\* Somebody else's namespace is a new incarnation, with no Job in it.
LEMMA ForeignCreatesStep == ASSUME Inv, ForeignCreates PROVE Inv'
<1>1. ns.inc \in Nat /\ ~ns.exists /\ jobs = {} /\ ~cache
  BY DEF ForeignCreates, Inv, TypeOK, ClusterOK
<1>2. PICK f \in Foreign :
        ns' = [exists |-> TRUE, inc |-> ns.inc + 1, managed |-> FALSE, psa |-> f.psa, objs |-> f.objs]
  BY DEF ForeignCreates
<1>3. f.psa \in PsaLevels /\ f.objs \subseteq Objects
  BY NamespaceAssumption
<1>4. ns' \in [exists : BOOLEAN, inc : Nat, managed : BOOLEAN, psa : PsaLevels, objs : SUBSET Objects]
  BY <1>1, <1>2, <1>3
<1>5. ns'.inc = ns.inc + 1 /\ ns'.exists /\ UNCHANGED <<jobs, cache, role, st>>
  BY <1>2 DEF ForeignCreates
<1>6. ClusterOK' /\ NsSteady
  BY <1>1, <1>4, <1>5 DEF Inv, TypeOK, ClusterOK, NsSteady
<1>7. NamedOnce' /\ GuardedJobs' /\ JobsAsAllowed' /\ FreshOrOld
  BY <1>1, <1>5 DEF NamedOnce, GuardedJobs, JobsAsAllowed, FreshOrOld
<1> QED BY <1>5, <1>6, <1>7, AroundKeeps DEF Inv

\* A Job past its deadline is the same Job otherwise.
LEMMA ExpireStep == ASSUME Inv, Expire(jobs) PROVE Inv'
<1>1. PICK j \in jobs : jobs' = (jobs \ {j}) \cup {[j EXCEPT !.expired = TRUE]}
  BY DEF Expire
<1> DEFINE k == [j EXCEPT !.expired = TRUE]
<1>2. j \in Job /\ jobs \subseteq Job /\ UNCHANGED <<ns, cache, role, st>>
  BY DEF Inv, TypeOK, ClusterOK, Expire
<1>3. /\ k \in Job /\ k.id = j.id /\ k.owner = j.owner /\ k.expired = TRUE
      /\ k.probe = j.probe /\ k.unguarded = j.unguarded /\ k.checked = j.checked
      /\ k.pr = j.pr /\ k.cache = j.cache /\ k.inSpec = j.inSpec /\ k.inSecret = j.inSecret
      /\ k.allowed = j.allowed
  BY <1>2 DEF Job
<1>4. jobs' = (jobs \ {j}) \cup {k}
  BY <1>1
<1> HIDE DEF k
<1>5. ClusterOK' /\ NsSteady
  BY <1>2, <1>3, <1>4 DEF Inv, TypeOK, ClusterOK, NsSteady
<1>6. NamedOnce'
  BY <1>2, <1>3, <1>4 DEF Inv, NamedOnce
<1>7. GuardedJobs'
  BY <1>2, <1>3, <1>4 DEF Inv, GuardedJobs
<1>8. JobsAsAllowed'
  BY <1>3, <1>4 DEF Inv, JobsAsAllowed, Permitted
<1>9. FreshOrOld
  BY <1>3, <1>4 DEF FreshOrOld
<1> QED BY <1>2, <1>5, <1>6, <1>7, <1>8, <1>9, AroundKeeps DEF Inv

\* A Job that is reaped only goes.
LEMMA ReapStep == ASSUME Inv, Reap PROVE Inv'
<1>1. PICK j \in jobs : Delete(j.id)
  BY DEF Reap
<1>2. jobs' \subseteq jobs /\ UNCHANGED <<ns, cache, role, st>>
  BY <1>1 DEF Delete, Reap
<1>3. ClusterOK' /\ NsSteady
  BY <1>2, Steady
<1>4. NamedOnce' /\ GuardedJobs' /\ JobsAsAllowed' /\ FreshOrOld
  BY <1>2 DEF Inv, NamedOnce, GuardedJobs, JobsAsAllowed, FreshOrOld
<1> QED BY <1>2, <1>3, <1>4, AroundKeeps DEF Inv

-----------------------------------------------------------------------------
(* The invariant holds at first and at every step. *)

\* The namespace does not exist, or it is a guarded one with what is left over.
LEMMA InitInv == Init => Inv
<1> SUFFICES ASSUME Init PROVE Inv
  OBVIOUS
<1>1. ns = Absent(0) \/ ns = Guarded
  BY DEF Init
<1>2. /\ ns \in [exists : BOOLEAN, inc : Nat, managed : BOOLEAN, psa : PsaLevels, objs : SUBSET Objects]
      /\ ns.exists \in BOOLEAN
  <2>1. "none" \in PsaLevels /\ "restricted" \in PsaLevels /\ {} \in SUBSET Objects /\ Inside \in SUBSET Objects
    BY DEF PsaLevels, Objects
  <2>2. CASE ns = Absent(0)
    BY <2>1, <2>2 DEF Absent
  <2>3. CASE ns = Guarded
    BY <2>1, <2>3 DEF Guarded
  <2> QED BY <1>1, <2>2, <2>3
<1>3. ns.exists => ns.psa # "none" /\ ns.objs = Inside
  BY <1>1 DEF Absent, Guarded
<1>4. jobs \subseteq Leftovers /\ (~ns.exists => jobs = {})
  BY DEF Init
<1>5. ClusterOK
  BY <1>2, <1>4, NamespaceAssumption DEF ClusterOK, Init
<1>6. Idle \in TermState
  <2>1. /\ "start" \in Pcs /\ [op |-> "none"] \in Cmds /\ "none" \in PsaLevels /\ "none" \in Failures
        /\ 0 \in 0..9 /\ -1 \in {-1, 0, 1, 2, 3, 4, 130}
    BY DEF Pcs, Cmds, PsaLevels, Failures
  <2> QED BY <2>1 DEF Idle, TermState
<1>7. st \in [Terminals -> TermState] /\ \A t \in Terminals : st[t] = Idle
  BY <1>6 DEF Init
<1>8. /\ Idle.pc = "start" /\ Idle.seen = {} /\ Idle.todo = {} /\ Idle.cmd.op = "none" /\ Idle.exit = -1
  BY DEF Idle
<1>9. \A t \in Terminals : Good(t)
  <2> SUFFICES ASSUME NEW t \in Terminals PROVE Good(t)
    OBVIOUS
  <2>1. st[t] = Idle
    BY <1>7
  <2>2. PlaceOf(t) /\ CountOf(t)
    BY <1>8, <2>1 DEF PlaceOf, OpAt, CountOf, RunPcs
  <2>3. CheckedOf(t) /\ InitOf(t) /\ TodoOf(t)
    BY <1>8, <2>1 DEF CheckedOf, CheckPcs, InitOf, TodoOf, Cmd
  <2> QED BY <2>2, <2>3 DEF Good
<1>10. NamedOnce
  BY <1>4, NamespaceAssumption DEF NamedOnce, LeftoverIds
<1>11. JobsAsAllowed
  BY <1>4, NamespaceAssumption DEF JobsAsAllowed
<1>12. GuardedJobs
  <2>1. "ResourceQuota" \in Inside /\ "egress" \in Inside
    BY GuardNames
  <2> QED BY <1>3, <1>4, <2>1 DEF GuardedJobs
<1> QED BY <1>5, <1>7, <1>9, <1>10, <1>11, <1>12 DEF Inv, TypeOK

\* Nothing happens.
LEMMA StutterStep == ASSUME Inv, UNCHANGED vars PROVE Inv'
<1>1. ClusterOK' /\ NsSteady
  BY Steady DEF vars
<1>2. NamedOnce' /\ GuardedJobs' /\ JobsAsAllowed' /\ FreshOrOld
  BY DEF Inv, NamedOnce, GuardedJobs, JobsAsAllowed, FreshOrOld, vars
<1> QED BY <1>1, <1>2, AroundKeeps DEF Inv, vars

\* One step per operation of Next.
LEMMA StepInv == ASSUME Inv, [Next]_vars PROVE Inv'
<1>1. ASSUME NEW t \in Terminals, Begin(t) \/ Answer(t) \/ Stops(t) PROVE Inv'
  BY <1>1, BeginStep, AnswerStep, StopsStep
<1>2. ASSUME NEW t \in Terminals, Proceeds(t) PROVE Inv'
  BY <1>2, LookStep, ApplyStep, ApplyFailsStep, EnsureNamespaceStep, RereadStep, ListQuotasStep,
     ListPoliciesStep, GetServiceAccountStep, GcStep, GcDeleteStep, MakeCacheStep, ApplyJobStep, RunEndsStep,
     ApplyProbeStep, PodIsLateStep, JudgeStep, ConfirmAllStep, SelectStep, CleanupDeleteStep,
     DeleteCacheStep, ReadManagedStep, DeleteNamespaceStep
  DEF Proceeds
<1>3. ASSUME NEW t \in Terminals, Probes(t) PROVE Inv'
  BY <1>3, PodStartsStep, ReadLineStep, LogEndsStep, LogBreaksStep DEF Probes
<1>4. CASE UNCHANGED vars
  BY <1>4, StutterStep
<1> QED BY <1>1, <1>2, <1>3, <1>4, ForeignCreatesStep, ExpireStep, ReapStep DEF Next, AllDone

\* The invariant behind every theorem below.
THEOREM Invariant == Spec => []Inv
<1> QED BY InitInv, StepInv, PTL DEF Spec

\* TypeOK: the cluster and every command stay what they are declared to be, and
\* a namespace that does not exist has no Job and no cache volume in it.
THEOREM TypeCorrect == Spec => []TypeOK
<1>1. Inv => TypeOK
  BY DEF Inv
<1> QED BY <1>1, Invariant, PTL

\* GuardedJobs: preflight.check's four calls are enough, for any number of
\* commands and incarnations: a Job whose checks all saw its own incarnation has
\* the label, the quota and a policy that selects it around it.
THEOREM JobsAreGuarded == Spec => []GuardedJobs
<1>1. Inv => GuardedJobs
  BY DEF Inv
<1> QED BY <1>1, Invariant, PTL

\* InitLeavesAll: apply_guardrails that ended well leaves every object.
THEOREM InitIsWhole == Spec => []InitLeavesAll
<1>1. Inv => InitLeavesAll
  BY DEF Inv, Good, InitOf, InitLeavesAll, At
<1> QED BY <1>1, Invariant, PTL

\* VerifyIsComplete: admin.verify's exit 0 stands for every line of its probe.
THEOREM VerifySaysAll == Spec => []VerifyIsComplete
<1>1. Inv => VerifyIsComplete
  BY DEF Inv, Good, CountOf, VerifyIsComplete, At
<1> QED BY <1>1, Invariant, PTL

\* JobsAsAllowed: no Job carries what its request may not ask for.
THEOREM JobsCarryNoMore == Spec => []JobsAsAllowed
<1>1. Inv => JobsAsAllowed
  BY DEF Inv
<1> QED BY <1>1, Invariant, PTL

-----------------------------------------------------------------------------
(* Who takes a Job away. *)

\* What one step of OnlyItsOwn says.
TakenFairly ==
    \A j \in jobs : (\A k \in jobs' : k.id # j.id) /\ ns'.exists /\ st' # st =>
        \E t \in Terminals : st'[t] # st[t] /\ MayTake(t, j)

\* A command that moves on and takes away only what it may.
LEMMA Takes ==
    ASSUME NEW t \in Terminals, st'[t] # st[t],
           \A j \in jobs : j \in jobs' \/ MayTake(t, j)
    PROVE  TakenFairly
  BY DEF TakenFairly

\* The exit of a command is a step of it.
LEMMA ExitMoves ==
    ASSUME Inv, NEW t \in Terminals, NEW code, Exit(t, code), st[t].pc # "done"
    PROVE  st'[t] # st[t]
<1>1. st'[t].pc = "done"
  BY DEF Exit, Inv, TypeOK
<1> QED BY <1>1

\* So is a name that is struck off what is left to delete.
LEMMA StrikesOff ==
    ASSUME Inv, NEW t \in Terminals, NEW id \in st[t].todo, st' = [st EXCEPT ![t].todo = @ \ {id}]
    PROVE  st'[t] # st[t]
<1>1. st[t] \in TermState
  BY DEF Inv, TypeOK
<1>2. st'[t] = [st[t] EXCEPT !.todo = st[t].todo \ {id}]
  BY DEF Inv, TypeOK
<1>3. st'[t].todo = st[t].todo \ {id}
  BY <1>1, <1>2 DEF TermState
<1> QED BY <1>3

\* The operations that delete a Job.
LEMMA DeletesFairly ==
    ASSUME Inv, NEW t \in Terminals,
           RunEnds(t) \/ PodIsLate(t) \/ LogBreaks(t) \/ Judge(t) \/ Stops(t) \/ GcDelete(t) \/ CleanupDelete(t) \/ DeleteNamespace(t)
    PROVE  TakenFairly
<1>1. CASE RunEnds(t) \/ PodIsLate(t) \/ LogBreaks(t) \/ Judge(t) \/ Stops(t)
  <2>1. st'[t] # st[t]
    BY <1>1, ExitMoves DEF RunEnds, PodIsLate, LogBreaks, Judge, Stops, At
  <2>2. \A j \in jobs : j \in jobs' \/ j.id = t
    BY <1>1 DEF RunEnds, PodIsLate, LogBreaks, Judge, Stops, Delete
  <2> QED BY <2>1, <2>2, Takes DEF MayTake
<1>2. CASE GcDelete(t) \/ CleanupDelete(t)
  <2>1. CASE UNCHANGED jobs
    BY <2>1 DEF TakenFairly
  <2>2. CASE ~UNCHANGED jobs
    <3>1. PICK id \in st[t].todo : Delete(id) /\ st' = [st EXCEPT ![t].todo = @ \ {id}]
      BY <1>2, <2>2 DEF GcDelete, CleanupDelete
    <3>2. st'[t] # st[t]
      BY <3>1, StrikesOff
    <3>3. \A j \in jobs : j \in jobs' \/ j.id = id
      BY <3>1 DEF Delete
    <3>4. \A j \in jobs : j.id = id => MayTake(t, j)
      BY <1>2 DEF Inv, Good, TodoOf, GcDelete, CleanupDelete, At
    <3> QED BY <3>2, <3>3, <3>4, Takes
  <2> QED BY <2>1, <2>2
<1>3. CASE DeleteNamespace(t)
  BY <1>3 DEF DeleteNamespace, Absent, TakenFairly
<1> QED BY <1>1, <1>2, <1>3

\* Every other step keeps the name of every Job.
LEMMA NextIsFair == ASSUME Inv, [Next]_vars PROVE TakenFairly
<1>1. ASSUME NEW t \in Terminals, Begin(t) \/ Answer(t) PROVE TakenFairly
  BY <1>1 DEF Begin, Answer, Cluster, TakenFairly
<1>2. ASSUME NEW t \in Terminals,
             Look(t) \/ Apply(t) \/ ApplyFails(t) \/ EnsureNamespace(t) \/ Reread(t) \/ ListQuotas(t)
             \/ ListPolicies(t) \/ GetServiceAccount(t) \/ Gc(t) \/ MakeCache(t)
      PROVE  TakenFairly
  <2>1. jobs' = jobs
    BY <1>2 DEF Look, Apply, ApplyFails, EnsureNamespace, Reread, ListQuotas, ListPolicies, GetServiceAccount,
                Gc, MakeCache, Cluster
  <2> QED BY <2>1 DEF TakenFairly
<1>3. ASSUME NEW t \in Terminals,
             ApplyJob(t) \/ ApplyProbe(t) \/ PodStarts(t) \/ ReadLine(t) \/ LogEnds(t) \/ ConfirmAll(t) \/ Select(t)
             \/ DeleteCache(t) \/ ReadManaged(t)
      PROVE  TakenFairly
  <2>1. jobs \subseteq jobs'
    BY <1>3 DEF ApplyJob, ApplyProbe, PodStarts, ReadLine, LogEnds, ConfirmAll, Select, DeleteCache, ReadManaged,
                Cluster
  <2> QED BY <2>1 DEF TakenFairly
<1>4. CASE UNCHANGED st
  BY <1>4 DEF TakenFairly
<1> QED BY <1>1, <1>2, <1>3, <1>4, DeletesFairly
    DEF Next, Proceeds, Probes, ForeignCreates, Expire, Reap, AllDone, vars

\* OnlyItsOwn: gc and cleanup delete by name what they listed earlier, and still
\* never take a Job that their command may not take, because a Job's name is
\* taken once.
THEOREM TakesOnlyItsOwn == Spec => OnlyItsOwn
<1>1. Inv /\ [Next]_vars => [TakenFairly]_vars
  BY NextIsFair
<1> QED BY <1>1, Invariant, PTL DEF Spec, OnlyItsOwn, TakenFairly
====
