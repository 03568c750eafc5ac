---------------------------- MODULE MCNamespace ----------------------------
(* A developer and one who is the admin too, on a cluster where somebody     *)
(* else may create the namespace and an earlier run may have left its Job.  *)
EXTENDS Namespace

P(kind, rdmaKeys, cpu) == [kind |-> kind, providers |-> {"gke"}, selector |-> {"pool"}, sized |-> TRUE,
                           rdmaKeys |-> rdmaKeys, cpu |-> cpu, gpus |-> IF kind = "cpu" THEN 0 ELSE 1]
MCProfiles == [n \in {"cpu", "rdma", "odd"} |->
    CASE n = "cpu" -> P("cpu", FALSE, 1) [] n = "rdma" -> P("rdma", TRUE, 2) [] OTHER -> P("gpu", TRUE, 1)]
MCSuites == [s \in {"gpu"} |-> <<"build", "command", "report">>]
MCNodes == {{}, {[labels |-> {"pool"}, cpu |-> 1, gpus |-> 1]}}

Plain == [profile |-> "cpu", preset |-> FALSE, suite |-> "", command |-> FALSE, no_build |-> FALSE,
          no_test |-> FALSE, pods |-> 1, same_node |-> FALSE, ref |-> "none", cache |-> FALSE, vars |-> {},
          allow_secret |-> FALSE, unguarded |-> FALSE, durations |-> TRUE, lock |-> TRUE, tree |-> TRUE,
          oneline |-> TRUE]
C(op, yes, tty, named, req) == [op |-> op, context |-> TRUE, kubectl |-> TRUE, named |-> named,
                                tty |-> tty, yes |-> yes, req |-> req]
Run(yes, tty, req) == C("run", yes, tty, TRUE, req)
Cleanup(scope, vol, namespace, yes, tty) ==
    C("cleanup", yes, tty, TRUE, [scope |-> scope, cache |-> vol, namespace |-> namespace])

MCTerminals == {"t1", "t2"}
MCOwner == [t \in MCTerminals |-> IF t = "t1" THEN "alice" ELSE "bob"]
Refused == {[Plain EXCEPT !.ref = "pr", !.vars = {"plain"}], [Plain EXCEPT !.vars = {"secret"}],
            [Plain EXCEPT !.vars = {"malformed"}], [Plain EXCEPT !.lock = FALSE], [Plain EXCEPT !.profile = "odd"],
            [Plain EXCEPT !.suite = "gpu", !.command = TRUE], [Plain EXCEPT !.command = TRUE, !.oneline = FALSE],
            [Plain EXCEPT !.same_node = TRUE], [Plain EXCEPT !.preset = TRUE, !.suite = "gpu"]}
MCCommands == [t \in MCTerminals |->
    IF t = "t1"
    THEN {Run(FALSE, FALSE, r) : r \in Refused} \cup
         {Run(FALSE, FALSE, Plain),
          Run(FALSE, TRUE, [Plain EXCEPT !.cache = TRUE, !.vars = {"plain", "secret"}, !.allow_secret = TRUE]),
          Run(TRUE, TRUE, [Plain EXCEPT !.profile = "rdma", !.suite = "gpu", !.ref = "sha", !.lock = FALSE]),
          Run(TRUE, TRUE, [Plain EXCEPT !.unguarded = TRUE, !.ref = "pr", !.command = TRUE]),
          Cleanup("own", TRUE, TRUE, TRUE, TRUE), Cleanup("t2", FALSE, FALSE, FALSE, TRUE),
          Cleanup("all", FALSE, FALSE, FALSE, FALSE)}
    ELSE {C("init", FALSE, TRUE, FALSE, [privileged |-> FALSE]), C("init", FALSE, TRUE, TRUE, [privileged |-> TRUE]),
          C("init", FALSE, FALSE, TRUE, [privileged |-> TRUE]),
          C("verify", FALSE, TRUE, TRUE, [rdma |-> TRUE]),
          Run(TRUE, TRUE, [Plain EXCEPT !.cache = TRUE]),
          Cleanup("all", FALSE, TRUE, FALSE, TRUE)}]

MCSaved == [o \in {"alice", "bob"} |-> IF o = "alice" THEN {"provider"} ELSE {}]
MCForeign == {[psa |-> "none", objs |-> {"ResourceQuota", "ServiceAccount", "app-policy"}]}
MCLeftovers == {[id |-> "old", owner |-> "alice", probe |-> FALSE, checked |-> {1}, unguarded |-> FALSE, pr |-> FALSE,
                 cache |-> FALSE, inSpec |-> {}, inSecret |-> {}, allowed |-> FALSE, expired |-> TRUE]}
=============================================================================
