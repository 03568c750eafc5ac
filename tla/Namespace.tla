----------------------------- MODULE Namespace -----------------------------
(***************************************************************************)
(* The namespace that developers and admins share: `remote k8s run` up to   *)
(* its Job and after it, `init`, `verify` and `cleanup` (remote/cli.py,     *)
(* remote/k8s/preflight.py, admin.py, manifests.py, backend.py), each one   *)
(* kubectl call at a time, any of them stopped at any call, while somebody  *)
(* else may create the namespace.  A namespace that is deleted and created  *)
(* again is another incarnation of it.                                      *)
(*                                                                          *)
(* A command is [op, context, kubectl, named, tty, yes, req]: kubectl says  *)
(* that the pinned binary is there, req holds the flags of the operation.   *)
(***************************************************************************)
EXTENDS RunRequest, FiniteSets, SequencesExt

CONSTANTS
    Terminals,       \* each runs one command
    Owner,           \* owner_id of a terminal's user and host
    Commands,        \* the commands a terminal may run
    Nodes,           \* the node lists that the cluster may answer
    Saved,           \* per owner, the keys that the config has at first
    Foreign,         \* what somebody else creates: [psa, objs]
    Leftovers,       \* Jobs an earlier command may have left
    MaxIncarnations  \* bound: how often the namespace is created

PsaLevels == {"none", "restricted", "privileged"}

GUARDRAILS == <<"Namespace", "ServiceAccount", "ResourceQuota", "LimitRange",
                "default-deny", "egress", "Role", "ClusterRole">>
Inside == Range(GUARDRAILS) \ {"Namespace", "ClusterRole"}
Objects == Inside \cup {"app-policy"}

Owners == {Owner[t] : t \in Terminals} \cup {j.owner : j \in Leftovers}
LeftoverIds == {j.id : j \in Leftovers}

\* A Job in the cluster: whose it is, what its run's checks looked at, what it was given.
Job == [id : Terminals \cup LeftoverIds, owner : Owners, probe : BOOLEAN, checked : SUBSET Nat,
        unguarded : BOOLEAN, pr : BOOLEAN, cache : BOOLEAN, inSpec : SUBSET EnvVars,
        inSecret : SUBSET EnvVars, allowed : BOOLEAN, expired : BOOLEAN]

\* What a Job may carry: see JobsAsAllowed.
Permitted(j) ==
    /\ j.pr => ~j.cache /\ j.inSpec = {} /\ j.inSecret = {}
    /\ "secret" \notin j.inSpec
    /\ j.inSecret # {} => j.allowed

\* The Jobs that are left over were made by the same code.
ASSUME NamespaceAssumption ==
    /\ MaxIncarnations \in Nat
    /\ \A t \in Terminals : \A c \in Commands[t] :
         /\ c.op \in {"run", "init", "verify", "cleanup"}
         /\ c.op = "run" => /\ c.req.vars \subseteq EnvVars
                            /\ {c.req.unguarded, c.req.cache, c.req.allow_secret} \subseteq BOOLEAN
         /\ c.op = "verify" => c.req.rdma \in BOOLEAN
    /\ \A f \in Foreign : f.psa \in PsaLevels /\ f.objs \subseteq Objects
    /\ Leftovers \subseteq Job /\ LeftoverIds \cap Terminals = {}
    /\ \A j, k \in Leftovers : j.id = k.id => j = k
    /\ \A j \in Leftovers : Permitted(j)

VARIABLES
    ns,        \* [exists, inc, managed, psa, objs]
    jobs,      \* the Jobs in it
    cache,     \* the cache volume claim exists
    role,      \* the ClusterRole exists; it outlives the namespace
    config,    \* per owner, the keys saved for the context
    st         \* per terminal, the command it runs and how far it is

vars == <<ns, jobs, cache, role, config, st>>

\* The lines of the probe's script and the checks that verify() expects.
PROBE(rdma) == <<"curl", "metadata", "token", "apiserver", "node", "dns", "https">>
                   \o (IF rdma THEN <<"memlock">> ELSE <<>>) \o <<"done">>
CHECKS(rdma) == {"curl", "metadata", "token", "apiserver", "node", "dns", "https"}
                    \cup (IF rdma THEN {"memlock"} ELSE {})

\* n counts through GUARDRAILS and through the probe's lines; seen are the
\* incarnations that the command has looked at; failed is the first check that
\* the probe reported as failed.
Idle == [pc |-> "start", cmd |-> [op |-> "none"], n |-> 0, existing |-> FALSE, missing |-> {},
         seen |-> {}, psa |-> "none", todo |-> {}, failed |-> "none", exit |-> -1]

Absent(i) == [exists |-> FALSE, inc |-> i, managed |-> FALSE, psa |-> "none", objs |-> {}]
Guarded == [exists |-> TRUE, inc |-> 1, managed |-> TRUE, psa |-> "restricted", objs |-> Inside]

Init ==
    /\ ns \in {Absent(0), Guarded}
    /\ jobs \in IF ns.exists THEN {{}, Leftovers} ELSE {{}}
    /\ cache = FALSE
    /\ role = ns.exists
    /\ config = Saved
    /\ st = [t \in Terminals |-> Idle]

At(t, pc) == st[t].pc = pc
Goto(t, pc) == st' = [st EXCEPT ![t].pc = pc]
\* Nothing is remembered, except what verify read.
Exit(t, code) ==
    st' = [st EXCEPT ![t] =
        [pc |-> "done", cmd |-> st[t].cmd, n |-> IF st[t].cmd.op = "verify" THEN st[t].n ELSE 0,
         existing |-> FALSE, missing |-> {}, seen |-> {}, psa |-> "none", todo |-> {},
         failed |-> st[t].failed, exit |-> code]]
Cmd(t) == st[t].cmd

\* --yes is the answer; else a terminal is asked, and without one the question is refused.
Confirm(t, prompt, next) ==
    \/ Cmd(t).yes /\ Goto(t, next)
    \/ ~Cmd(t).yes /\ Cmd(t).tty /\ Goto(t, prompt)
    \/ ~Cmd(t).yes /\ ~Cmd(t).tty /\ Exit(t, 2)

See(t) == IF ns.exists THEN st[t].seen \cup {ns.inc} ELSE st[t].seen
Cluster == <<ns, jobs, cache, role>>

-----------------------------------------------------------------------------
(* The command line, the context and, for a run, prepare on the host. *)

First(op) == CASE op = "run" -> "get" [] op = "init" -> "look" [] op = "verify" -> "probe" [] OTHER -> "confirm"

Accepted(c, saved) ==
    /\ c.op = "run" => CheckFlags(c.req) /\ CheckPods(c.req)
    /\ Resolve(c, saved)
    /\ c.op = "run" => Prepare(c.req)

Begin(t) ==
    /\ At(t, "start")
    /\ \E c \in Commands[t] :
         LET saved == config[Owner[t]] IN
         /\ \E keep \in SUBSET (IF Resolve(c, saved) /\ c.tty THEN Offered(c, saved) ELSE {}) :
              config' = [config EXCEPT ![Owner[t]] = @ \cup keep]
         /\ st' = [st EXCEPT ![t].cmd = c,
                             ![t].pc = IF Accepted(c, saved) THEN First(c.op) ELSE "done",
                             ![t].exit = IF Accepted(c, saved) THEN @ ELSE 2]
    /\ UNCHANGED Cluster

-----------------------------------------------------------------------------
(* apply_guardrails, for init and for a run that may create the namespace.  *)
(* The managed label says "ostia-dev created it"; an apply without it takes *)
(* away the one that an earlier apply put there.                            *)

Look(t) ==
    /\ At(t, "look")
    /\ st' = [st EXCEPT ![t].existing = ns.exists, ![t].n = 1, ![t].pc = "apply"]
    /\ UNCHANGED <<Cluster, config>>

Level(c) == IF c.op = "init" /\ c.req.privileged THEN "privileged" ELSE "restricted"

ApplyNamespace(t) ==
    /\ ns' = [ns EXCEPT !.exists = TRUE, !.inc = IF ns.exists THEN @ ELSE @ + 1,
                        !.managed = ~st[t].existing, !.psa = Level(Cmd(t))]
    /\ UNCHANGED role

ApplyObject(obj) ==
    /\ obj \in Inside => ns.exists
    /\ ns' = IF obj \in Inside THEN [ns EXCEPT !.objs = @ \cup {obj}] ELSE ns
    /\ role' = (role \/ obj = "ClusterRole")

\* A namespace that exists is taken for a guarded one.
AppliedIfExisting(t) == st[t].n = Len(GUARDRAILS) \/ st[t].existing

Applied(t) == st[t].n = Len(GUARDRAILS)

Apply(t) ==
    /\ At(t, "apply")
    /\ LET obj == GUARDRAILS[st[t].n]
           init == Cmd(t).op = "init"
       IN  /\ IF obj = "Namespace" THEN ApplyNamespace(t) ELSE ApplyObject(obj)
           /\ st' = [st EXCEPT
                 ![t].n = IF Applied(t) THEN 0 ELSE @ + 1,
                 ![t].existing = FALSE,
                 ![t].pc = IF ~Applied(t) THEN "apply" ELSE IF init THEN "done" ELSE "reread",
                 ![t].seen = IF init THEN @ \cup {ns'.inc} ELSE @,
                 ![t].exit = IF Applied(t) /\ init THEN 0 ELSE @]
    /\ UNCHANGED <<jobs, cache, config>>

\* The namespace is gone: the server refuses what belongs inside it.
ApplyFails(t) ==
    /\ At(t, "apply") /\ ~ns.exists /\ GUARDRAILS[st[t].n] \in Inside
    /\ Exit(t, 3)
    /\ UNCHANGED <<Cluster, config>>

-----------------------------------------------------------------------------
(* preflight.check: the namespace's labels, its quotas, its policies and    *)
(* its ServiceAccount are four calls.                                       *)

ReadLabels(t) ==
    st' = [st EXCEPT ![t].pc = "quota", ![t].psa = ns.psa, ![t].seen = {ns.inc},
                     ![t].missing = IF ns.psa = "none" THEN {"psa"} ELSE {}]

EnsureNamespace(t) ==
    /\ At(t, "get")
    /\ \/ ns.exists /\ ReadLabels(t)
       \/ ~ns.exists /\ Confirm(t, "ask", "look")
    /\ UNCHANGED <<Cluster, config>>

\* The user's answer, if it comes: to run, to cleanup --all and to cleanup
\* --delete-namespace, where no only means that nothing is left to do.
Answer(t) ==
    /\ \/ At(t, "ask") /\ (Goto(t, "look") \/ Exit(t, 2))
       \/ At(t, "askall") /\ (Goto(t, "select") \/ Exit(t, 2))
       \/ At(t, "asknamespace") /\ (Goto(t, "remove") \/ Exit(t, 0))
    /\ UNCHANGED <<Cluster, config>>

\* None here is a TypeError in check (exit 1).
Reread(t) ==
    /\ At(t, "reread")
    /\ IF ns.exists THEN ReadLabels(t) ELSE Exit(t, 1)
    /\ UNCHANGED <<Cluster, config>>

ListQuotas(t) ==
    /\ At(t, "quota")
    /\ st' = [st EXCEPT ![t].pc = "policy", ![t].seen = See(t),
                        ![t].missing = IF "ResourceQuota" \in ns.objs THEN @ ELSE @ \cup {"quota"}]
    /\ UNCHANGED <<Cluster, config>>

\* Any NetworkPolicy of the namespace counts.
AnyPolicy(obj) == obj \in {"default-deny", "egress", "app-policy"}

\* The podSelector of both guardrails is empty; another application's is not.
Selects(obj) == obj \in {"default-deny", "egress"}

ListPolicies(t) ==
    /\ At(t, "policy")
    /\ LET missing == st[t].missing \cup (IF \E o \in ns.objs : Selects(o) THEN {} ELSE {"policy"})
           r == Cmd(t).req
       IN  IF \/ missing # {} /\ ~r.unguarded
              \/ Profiles[r.profile].kind = "rdma" /\ st[t].psa # "privileged"
           THEN Exit(t, 2)
           ELSE st' = [st EXCEPT ![t].pc = "account", ![t].seen = See(t), ![t].missing = missing]
    /\ UNCHANGED <<Cluster, config>>

\* The node list is the one that resolve() got, empty without access to nodes.
GetServiceAccount(t) ==
    /\ At(t, "account")
    /\ \E nodes \in Nodes :
         IF "ServiceAccount" \in ns.objs /\ FitCheck(nodes, Profiles[Cmd(t).req.profile])
         THEN st' = [st EXCEPT ![t].pc = "gc", ![t].seen = See(t), ![t].psa = "none", ![t].missing = {}]
         ELSE Exit(t, 2)
    /\ UNCHANGED <<Cluster, config>>

-----------------------------------------------------------------------------
(* backend.gc and backend.start, up to the Job; what follows it until the   *)
(* run's own teardown is RemoteRun's.                                       *)

\* Jobs that are past their deadline, whoever's they are.
GcSelectorOfAll(t) == {j \in jobs : j.expired}

GcSelector(t) == {j \in jobs : j.owner = Owner[t] /\ j.expired}

Gc(t) ==
    /\ At(t, "gc")
    /\ st' = [st EXCEPT ![t].todo = {j.id : j \in GcSelector(t)}, ![t].pc = "gcdelete"]
    /\ UNCHANGED <<Cluster, config>>

Delete(id) == jobs' = {j \in jobs : j.id # id}

GcDelete(t) ==
    /\ At(t, "gcdelete")
    /\ IF st[t].todo = {} THEN Goto(t, "cache") /\ UNCHANGED jobs
       ELSE \E id \in st[t].todo : Delete(id) /\ st' = [st EXCEPT ![t].todo = @ \ {id}]
    /\ UNCHANGED <<ns, cache, role, config>>

\* The get and the apply of the claim are one step: applying it twice is harmless.
MakeCache(t) ==
    /\ At(t, "cache")
    /\ IF Cmd(t).req.cache /\ ~ns.exists THEN Exit(t, 3) ELSE Goto(t, "job")
    /\ cache' = (cache \/ (Cmd(t).req.cache /\ ns.exists))
    /\ UNCHANGED <<ns, jobs, role, config>>

\* Variables that look like secrets reach the pod from the run's Secret.
RunJob(t) ==
    LET r == Cmd(t).req IN
    [id |-> t, owner |-> Owner[t], probe |-> FALSE, checked |-> st[t].seen, unguarded |-> r.unguarded,
     pr |-> r.ref = "pr", cache |-> r.cache, inSpec |-> r.vars \ SecretKeys(r.vars),
     inSecret |-> SecretKeys(r.vars), allowed |-> r.allow_secret, expired |-> FALSE]

ApplyJob(t) ==
    /\ At(t, "job")
    /\ IF ns.exists THEN jobs' = jobs \cup {RunJob(t)} /\ Goto(t, "running")
       ELSE Exit(t, 3) /\ UNCHANGED jobs
    /\ UNCHANGED <<ns, cache, role, config>>

\* The run ends with its teardown, which may be lost: RemoteRun's subject.
RunEnds(t) ==
    /\ At(t, "running")
    /\ \/ Delete(t) /\ Exit(t, 0)
       \/ UNCHANGED jobs /\ Exit(t, 4)
    /\ UNCHANGED <<ns, cache, role, config>>

-----------------------------------------------------------------------------
(* admin.verify: a probe Job with a run's pod spec, and its log.            *)

ProbeJob(t) ==
    [id |-> t, owner |-> Owner[t], probe |-> TRUE, checked |-> {}, unguarded |-> FALSE, pr |-> FALSE,
     cache |-> FALSE, inSpec |-> {}, inSecret |-> {}, allowed |-> FALSE, expired |-> FALSE]

ApplyProbe(t) ==
    /\ At(t, "probe")
    /\ IF ns.exists THEN jobs' = jobs \cup {ProbeJob(t)} /\ Goto(t, "wait")
       ELSE Exit(t, 3) /\ UNCHANGED jobs
    /\ UNCHANGED <<ns, cache, role, config>>

\* A pod needs the ServiceAccount that its spec names.
PodStarts(t) ==
    /\ At(t, "wait") /\ \E j \in jobs : j.id = t
    /\ "ServiceAccount" \in ns.objs
    /\ Goto(t, "log")
    /\ UNCHANGED <<Cluster, config>>

\* The loop waits for the pod of a Job that is gone.
PodIsLateIfThere(t) ==
    /\ At(t, "wait") /\ \E j \in jobs : j.id = t
    /\ Delete(t) /\ Exit(t, 1)
    /\ UNCHANGED <<ns, cache, role, config>>

PodIsLate(t) ==
    /\ At(t, "wait")
    /\ Delete(t) /\ Exit(t, 1)
    /\ UNCHANGED <<ns, cache, role, config>>

Line(t) == PROBE(Cmd(t).req.rdma)[st[t].n + 1]

\* The script stops with its end marker when it has no curl.
ReadLine(t) ==
    /\ At(t, "log")
    /\ IF Line(t) = "done" THEN st' = [st EXCEPT ![t].n = @ + 1, ![t].pc = "judge"]
       ELSE \E ok \in BOOLEAN :
              st' = [st EXCEPT ![t].n = @ + 1,
                               ![t].failed = IF ok \/ @ # "none" THEN @ ELSE Line(t),
                               ![t].pc = IF ~ok /\ Line(t) = "curl" THEN "judge" ELSE "log"]
    /\ UNCHANGED <<Cluster, config>>

\* The stream ends early, because the pod or its Job is gone: what came is judged.
LogEnds(t) ==
    /\ At(t, "log")
    /\ Goto(t, "judge")
    /\ UNCHANGED <<Cluster, config>>

\* kubectl ends with an error, a lost connection: nothing is judged.
LogBreaks(t) ==
    /\ At(t, "log")
    /\ Delete(t) /\ Exit(t, 3)
    /\ UNCHANGED <<ns, cache, role, config>>

Reported(t) == {PROBE(Cmd(t).req.rdma)[i] : i \in 1..st[t].n}

\* What came is all that was asked for.
IncompleteIfEmpty(t) == st[t].n = 0

Incomplete(t) == ~(CHECKS(Cmd(t).req.rdma) \cup {"done"} \subseteq Reported(t))

Judge(t) ==
    /\ At(t, "judge")
    /\ Delete(t)
    /\ Exit(t, IF st[t].failed # "none" \/ Incomplete(t) THEN 1 ELSE 0)
    /\ UNCHANGED <<ns, cache, role, config>>

-----------------------------------------------------------------------------
(* admin.cleanup. *)

\* req is [scope ("own", "all" or a terminal, its run's id), cache, namespace].
Selector(t) ==
    LET scope == Cmd(t).req.scope
    IN  {j \in jobs : \/ scope = "all"
                      \/ scope = j.id
                      \/ scope = "own" /\ j.owner = Owner[t]}

ConfirmAll(t) ==
    /\ At(t, "confirm")
    /\ IF Cmd(t).req.scope = "all" THEN Confirm(t, "askall", "select") ELSE Goto(t, "select")
    /\ UNCHANGED <<Cluster, config>>

Select(t) ==
    /\ At(t, "select")
    /\ st' = [st EXCEPT ![t].todo = {j.id : j \in Selector(t)}, ![t].pc = "delete"]
    /\ UNCHANGED <<Cluster, config>>

CleanupDelete(t) ==
    /\ At(t, "delete")
    /\ IF st[t].todo = {} THEN Goto(t, "volume") /\ UNCHANGED jobs
       ELSE \E id \in st[t].todo : Delete(id) /\ st' = [st EXCEPT ![t].todo = @ \ {id}]
    /\ UNCHANGED <<ns, cache, role, config>>

DeleteCache(t) ==
    /\ At(t, "volume")
    /\ cache' = (cache /\ ~Cmd(t).req.cache)
    /\ IF Cmd(t).req.namespace THEN Goto(t, "label") ELSE Exit(t, 0)
    /\ UNCHANGED <<ns, jobs, role, config>>

ReadManaged(t) ==
    /\ At(t, "label")
    /\ \/ ~ns.exists /\ Exit(t, 0)
       \/ ns.exists /\ ~ns.managed /\ Exit(t, 2)
       \/ ns.exists /\ ns.managed /\ Confirm(t, "asknamespace", "remove")
    /\ UNCHANGED <<Cluster, config>>

DeleteNamespace(t) ==
    /\ At(t, "remove")
    /\ ns' = Absent(ns.inc) /\ jobs' = {} /\ cache' = FALSE
    /\ Exit(t, 0)
    /\ UNCHANGED <<role, config>>

-----------------------------------------------------------------------------
\* Somebody else creates the namespace; a Job reaches its deadline, and its
\* time to live after that.
ForeignCreates ==
    /\ ~ns.exists /\ ns.inc < MaxIncarnations
    /\ \E f \in Foreign :
         ns' = [exists |-> TRUE, inc |-> ns.inc + 1, managed |-> FALSE, psa |-> f.psa, objs |-> f.objs]
    /\ UNCHANGED <<jobs, cache, role, config, st>>

Expire(J) ==
    /\ \E j \in J : ~j.expired /\ jobs' = (jobs \ {j}) \cup {[j EXCEPT !.expired = TRUE]}
    /\ UNCHANGED <<ns, cache, role, config, st>>

Reap ==
    /\ \E j \in jobs : j.expired /\ Delete(j.id)
    /\ UNCHANGED <<ns, cache, role, config, st>>

\* Ctrl-C (130, at a prompt 1) or a call that fails (3; the 2 of
\* refused credentials is like it): nothing more is done, except that verify tries to delete its
\* probe once it waits for it.  A run that has its Job is RemoteRun's.
Prompts == {"ask", "askall", "asknamespace"}

Stops(t) ==
    /\ st[t].pc \notin {"start", "done", "running"}
    /\ \/ st[t].pc \in {"wait", "log", "judge"} /\ Delete(t)
       \/ UNCHANGED jobs
    /\ \E code \in IF st[t].pc \in Prompts THEN {1} ELSE {3, 130} : Exit(t, code)
    /\ UNCHANGED <<ns, cache, role, config>>

Proceeds(t) ==
    \/ Look(t) \/ Apply(t) \/ ApplyFails(t)
    \/ EnsureNamespace(t) \/ Reread(t) \/ ListQuotas(t) \/ ListPolicies(t) \/ GetServiceAccount(t)
    \/ Gc(t) \/ GcDelete(t) \/ MakeCache(t) \/ ApplyJob(t) \/ RunEnds(t)
    \/ ApplyProbe(t) \/ PodIsLate(t) \/ Judge(t)
    \/ ConfirmAll(t) \/ Select(t) \/ CleanupDelete(t) \/ DeleteCache(t) \/ ReadManaged(t) \/ DeleteNamespace(t)

\* What the probe's pod does, and its log.
Probes(t) == PodStarts(t) \/ ReadLine(t) \/ LogEnds(t) \/ LogBreaks(t)

AllDone == (\A t \in Terminals : At(t, "done")) /\ UNCHANGED vars

Next ==
    \/ \E t \in Terminals : Begin(t) \/ Answer(t) \/ Stops(t) \/ Proceeds(t) \/ Probes(t)
    \/ ForeignCreates \/ Expire(jobs) \/ Reap
    \/ AllDone

\* verify reads its log without a limit of its own.  What ends it is the Job's
\* deadline: the probe is not suspended, so it counts, and kubectl's stream ends
\* with the pod.  The user's answer, a pod that starts and the next line are not fair.
PodGone(t) == \A j \in jobs : j.id = t => j.expired

Fairness ==
    /\ \A t \in Terminals : WF_vars(Proceeds(t))
    /\ \A t \in Terminals : WF_vars(PodGone(t) /\ (LogEnds(t) \/ LogBreaks(t)))
    /\ WF_vars(Expire({j \in jobs : j.probe}))

Spec == Init /\ [][Next]_vars /\ Fairness

-----------------------------------------------------------------------------
(* Properties *)

Cmds == {[op |-> "none"]} \cup UNION {Commands[t] : t \in Terminals}
Pcs == {"start", "look", "apply", "get", "ask", "askall", "asknamespace", "reread", "quota", "policy", "account", "gc", "gcdelete",
        "cache", "job", "running", "probe", "wait", "log", "judge", "confirm", "select", "delete", "volume",
        "label", "remove", "done"}

Failures == {"none"} \cup CHECKS(TRUE)

TermState ==
    [pc : Pcs, cmd : Cmds, n : 0..9, existing : BOOLEAN, missing : SUBSET {"psa", "quota", "policy"},
     seen : SUBSET Nat, psa : PsaLevels, todo : SUBSET (Terminals \cup LeftoverIds),
     failed : Failures, exit : {-1, 0, 1, 2, 3, 4, 130}]

ClusterOK ==
    /\ ns \in [exists : BOOLEAN, inc : Nat, managed : BOOLEAN, psa : PsaLevels, objs : SUBSET Objects]
    /\ jobs \subseteq Job /\ cache \in BOOLEAN /\ role \in BOOLEAN
    /\ ~ns.exists => jobs = {} /\ ~cache

TypeOK == ClusterOK /\ st \in [Terminals -> TermState]

\* preflight.check, with the namespace read in four calls while others create,
\* complete and delete it: the Job of a run that did not say --allow-unguarded,
\* whose checks all looked at the namespace the Job is in, always has a Pod
\* Security label, a quota and a policy that selects its pods around it, also
\* where an init was cut short or somebody else made the namespace.
GuardedJobs ==
    \A j \in jobs : ~j.probe /\ ~j.unguarded /\ j.checked = {ns.inc} =>
        ns.psa # "none" /\ "ResourceQuota" \in ns.objs /\ {"default-deny", "egress"} \cap ns.objs # {}

\* apply_guardrails: an init that ended well leaves every object of RFC-0005
\* 4.6, however many other commands created, completed or relabelled the
\* namespace meanwhile, unless the namespace was deleted since it began.
InitLeavesAll ==
    \A t \in Terminals :
        At(t, "done") /\ Cmd(t).op = "init" /\ st[t].exit = 0 /\ st[t].seen = {ns.inc} /\ ns.exists =>
            Inside \subseteq ns.objs /\ role /\ ns.psa # "none"

\* admin.verify: exit 0 means that the probe reported every check of its script
\* for that profile, the end marker too, and none as failed; a log that is cut,
\* a Job that a cleanup removes or a pod that never starts is not a pass.
VerifyIsComplete ==
    \A t \in Terminals :
        At(t, "done") /\ Cmd(t).op = "verify" /\ st[t].exit = 0 =>
            st[t].n = Len(PROBE(Cmd(t).req.rdma)) /\ st[t].failed = "none"

\* check_env_vars and check_ref_rules: no Job carries more than its request may
\* ask for: contributor code never gets the cache or a variable, and a secret
\* is never in a Job's spec and is in a Secret only when it was allowed.
JobsAsAllowed == \A j \in jobs : Permitted(j)

\* The Jobs that the command at terminal t may delete.
MayTake(t, j) ==
    \/ j.id = t
    \/ Cmd(t).op = "run" /\ j.owner = Owner[t] /\ j.expired
    \/ Cmd(t).op = "cleanup" /\ \/ Cmd(t).req.scope \in {"all", j.id}
                                \/ Cmd(t).req.scope = "own" /\ j.owner = Owner[t]

\* gc and cleanup delete by name what they listed earlier.  A Job that goes by
\* a command goes by the one that made it, by a run of its owner once it is past
\* its deadline, by a cleanup that names it, its owner or every run, or with the
\* namespace: nobody's gc or own cleanup takes another developer's run.
OnlyItsOwn ==
    [][\A j \in jobs :
          (\A k \in jobs' : k.id # j.id) /\ ns'.exists /\ st' # st =>
              \E t \in Terminals : st'[t] # st[t] /\ MayTake(t, j)]_vars

\* Every command ends or waits for the user's answer, whatever the others do: no
\* other wait in run's preflight, init, verify or cleanup is without a limit.
\* verify's wait for its pod has one of its own, that for the end of its log has
\* the Job's deadline, also when somebody deletes the Job or the namespace.
CommandsEnd == \A t \in Terminals : ~At(t, "start") ~> At(t, "done") \/ st[t].pc \in Prompts
=============================================================================
