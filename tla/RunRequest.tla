---------------------------- MODULE RunRequest ----------------------------
(***************************************************************************)
(* What `ostia-dev remote k8s run` decides on the host, before the cluster  *)
(* has anything of the run: the flags (remote/cli.py), the context, its     *)
(* namespace and provider (remote/k8s/preflight.py, resolve), and prepare   *)
(* (remote/core.py) with the profile (remote/profiles.py) and the step plan *)
(* (remote/suites.py).  Every refusal is exit 2, so a request is either     *)
(* refused or gives the attributes of its Job.                              *)
(*                                                                          *)
(* A request has: profile, preset, suite, command, no_build, no_test, pods, *)
(* same_node, ref ("none", "sha" or "pr"), cache, vars (a set of --env-var  *)
(* arguments, by kind), allow_secret, unguarded; durations, lock, tree and  *)
(* oneline say that the durations parse, that pixi.lock is fresh, that the  *)
(* tarball builds and that no argument of the command spans lines.          *)
(***************************************************************************)
EXTENDS Integers, Sequences

CONSTANTS
    Profiles,   \* name -> [kind, providers, selector, sized, rdmaKeys, cpu, gpus]
    Suites,     \* name -> the kinds of its steps
    Provider    \* the cluster's provider

EnvVars == {"plain", "secret", "malformed"}

-----------------------------------------------------------------------------
CheckFlags(r) ==
    /\ r.profile # ""
    /\ ~(r.preset /\ r.suite # "")
    /\ r.durations

CheckPods(r) == r.pods \in {1, 2} /\ (r.same_node => r.pods = 2)

\* SECRET_KEYS; "malformed" stands for an argument that is not KEY=VALUE.
SecretKeys(vars) == vars \cap {"secret"}

CheckEnvVars(r) ==
    /\ "malformed" \notin r.vars
    /\ SecretKeys(r.vars) # {} => r.allow_secret

\* A pull request's code gets the variables.
CheckCacheOnly(r) == r.ref = "pr" => ~r.cache

\* A pull request's code gets neither the shared cache nor passed variables.
CheckRefRules(r) == r.ref = "pr" => ~r.cache /\ r.vars = {}

ResolveProfile(name) ==
    /\ name \in DOMAIN Profiles
    /\ LET p == Profiles[name] IN
       /\ p.kind \in {"cpu", "gpu", "rdma"}
       /\ (Provider \in p.providers) \/ p.kind = "cpu"
       /\ Provider = "generic" => p.selector # {}
       /\ p.sized
       /\ p.rdmaKeys => p.kind = "rdma"

IsGpu(name) == Profiles[name].kind \in {"gpu", "rdma"}

\* The kinds of a plan's steps, in order.
BuildPlan(r) ==
    LET wanted(kind) == /\ ~(r.no_build /\ kind = "build")
                        /\ ~(r.no_test /\ kind \in {"command", "report"})
        steps == IF r.suite # "" THEN Suites[r.suite] ELSE <<"build", "build", "command">>
    IN  (IF IsGpu(r.profile) THEN <<"preflight">> ELSE <<>>)
            \o <<"install">> \o SelectSeq(steps, wanted)

PlanRefused(r) ==
    \/ r.suite # "" /\ r.command
    \/ r.suite # "" /\ r.suite \notin DOMAIN Suites

\* Only the arguments of a step that is in the plan are encoded.
Encodes(r) ==
    ~r.oneline /\ r.command => \A i \in DOMAIN BuildPlan(r) : BuildPlan(r)[i] # "command"

Prepare(r) ==
    /\ CheckEnvVars(r)
    /\ CheckRefRules(r)
    /\ ResolveProfile(r.profile)
    /\ ~PlanRefused(r)
    /\ Encodes(r)
    /\ r.ref = "none" => r.lock
    /\ r.tree

-----------------------------------------------------------------------------
\* The nodes that match the profile's selector, and whether one of them fits;
\* with no match an autoscaler may still add one.
Fits(node, p) == node.cpu >= p.cpu /\ (p.gpus > 0 => node.gpus >= p.gpus)

FitCheck(nodes, p) ==
    LET matching == {n \in nodes : p.selector \subseteq n.labels}
    IN  matching = {} \/ \E n \in matching : Fits(n, p)

-----------------------------------------------------------------------------
\* preflight.resolve: c is the command's command line, saved the keys that the
\* user's config holds for the context.  A missing key is asked for on a
\* terminal and refused without one.
Known(c, saved) == (IF c.named THEN {"namespace"} ELSE {}) \cup saved

Resolve(c, saved) ==
    /\ c.context /\ c.kubectl
    /\ c.tty \/ {"namespace", "provider"} \subseteq Known(c, saved)

\* The keys that its prompts offer to save (config.append_table).
Offered(c, saved) == {"namespace", "provider"} \ Known(c, saved)
=============================================================================
