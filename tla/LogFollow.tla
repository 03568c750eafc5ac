----------------------------- MODULE LogFollow -----------------------------
(***************************************************************************)
(* Following the log of a one-pod run (backend.stream over kube.logs_follow *)
(* and _lost): `kubectl logs -f --timestamps`, resumed with --since-time    *)
(* after a drop.  The server cuts --since-time down to the second, so a     *)
(* resume repeats lines, and several lines may bear the same time.          *)
(*                                                                          *)
(* Its place (pc) is connect, read or status, and returned, dead, lost or   *)
(* refused at its end.  Ages count up to LostForGood.                       *)
(***************************************************************************)
EXTENDS LogLines

VARIABLES
    log,        \* the pod's log
    marks,      \* the lines that start as the finished line does, a step's own too
    said,       \* its last line is the finished line of the supervisor
    ended,      \* the pod has ended
    up,         \* the cluster can be reached
    silence,    \* history: age of the last moment a stream or a call worked
    last_ts,    \* the time of the last line printed, None before
    at_last,    \* how many lines with that time were printed
    skip,       \* how many of them this stream still repeats
    next,       \* the line the stream delivers next
    printed     \* the lines printed

podVars == <<log, marks, said, ended>>
netVars == <<up, silence>>
lineVars == <<last_ts, at_last, printed>>
cliVars == <<pc, lineVars, skip, next, lost_since>>
vars == <<podVars, netVars, cliVars>>

Over == {"returned", "dead", "lost", "refused"}

Init ==
    /\ log = <<>> /\ marks = {} /\ said = FALSE /\ ended = FALSE
    /\ up = TRUE /\ silence = 0
    /\ pc = "connect" /\ last_ts = None /\ at_last = 0 /\ printed = <<>>
    /\ skip = 0 /\ next = 1 /\ lost_since = None

-----------------------------------------------------------------------------
(* The pod and the connection.                                              *)

LastTime == IF log = <<>> THEN 0 ELSE log[Len(log)]

\* A line of a step, which may read like the finished line, or the finished line.
PodWrites ==
    /\ ~said /\ ~ended /\ Len(log) < MaxLines
    /\ \E t \in LastTime..MaxTime : log' = Append(log, t)
    /\ marks' \in {marks, marks \cup {Len(log) + 1}}
    /\ said' \in {FALSE, marks' # marks}
    /\ UNCHANGED <<ended, netVars, cliVars>>

\* Evicted, killed, or left after its windows.
PodEnds ==
    /\ ~ended /\ ended' = TRUE
    /\ UNCHANGED <<log, marks, said, netVars, cliVars>>

NetFails ==
    /\ up /\ up' = FALSE
    /\ UNCHANGED <<podVars, silence, cliVars>>

NetHeals ==
    /\ ~up /\ up' = TRUE
    /\ UNCHANGED <<podVars, silence, cliVars>>

Older(age) == IF age < LostForGood THEN age + 1 ELSE age

Tick ==
    /\ pc \notin Over
    /\ silence' = IF pc = "read" /\ up THEN 0 ELSE Older(silence)
    /\ lost_since' = IF lost_since = None THEN None ELSE Older(lost_since)
    /\ UNCHANGED <<podVars, up, pc, lineVars, skip, next>>

-----------------------------------------------------------------------------
(* The CLI.                                                                 *)

\* Mutant: every drop starts the count again.
LostForgets == pc' = "connect" /\ lost_since' = 0

\* LostConnection: give up once lost_since is LOST_FOR_GOOD old, else nap and retry.
Lost ==
    IF lost_since # None /\ lost_since >= LostForGood
    THEN pc' = "lost" /\ lost_since' = lost_since
    ELSE pc' = "connect" /\ lost_since' = IF lost_since = None THEN 0 ELSE lost_since

\* Mutant: the stream resumes after the second of the last line.
ConnectAfterTheSecond ==
    /\ pc = "connect" /\ up
    /\ pc' = "read" /\ skip' = 0
    /\ next' \in 1..Len(log) + 1
    /\ \A i \in 1..Len(log) : (last_ts = None \/ Second(log[i]) > Second(last_ts)) <=> i >= next'
    /\ silence' = 0
    /\ UNCHANGED <<podVars, up, lineVars, lost_since>>

\* The lines of the second of last_ts and later; the server rounds down.
Connect ==
    /\ pc = "connect" /\ up
    /\ pc' = "read" /\ skip' = at_last
    /\ next' \in 1..Len(log) + 1
    /\ \A i \in 1..Len(log) : (last_ts = None \/ Second(log[i]) >= Second(last_ts)) <=> i >= next'
    /\ silence' = 0
    /\ UNCHANGED <<podVars, up, lineVars, lost_since>>

\* A line older than the last one printed, or one of those with its time.
Repeated ==
    /\ last_ts # None
    /\ \/ log[next] < last_ts
       \/ log[next] = last_ts /\ skip > 0

SkipLine ==
    /\ pc = "read" /\ up /\ next <= Len(log)
    /\ Repeated
    /\ skip' = IF log[next] = last_ts THEN skip - 1 ELSE skip
    /\ next' = next + 1
    /\ UNCHANGED <<podVars, netVars, pc, lineVars, lost_since>>

\* The first line printed that starts with FINISHED ends stream, whoever wrote it.
PrintLine ==
    /\ pc = "read" /\ up /\ next <= Len(log)
    /\ ~Repeated
    /\ last_ts' = log[next]
    /\ at_last' = IF log[next] = last_ts THEN at_last + 1 ELSE 1
    /\ printed' = Append(printed, next)
    /\ lost_since' = None
    /\ next' = next + 1
    /\ pc' = IF next \in marks THEN "returned" ELSE "read"
    /\ UNCHANGED <<podVars, netVars, skip>>

\* The stream breaks, by the network or by a timeout of the server or the kubelet.
StreamDrops ==
    /\ pc = "read"
    /\ Lost
    /\ UNCHANGED <<podVars, netVars, lineVars, skip, next>>

\* It ends without an error, at the end of the log of an ended pod or before.
StreamEnds ==
    /\ pc = "read" /\ up
    /\ pc' = "status" /\ lost_since' = None
    /\ UNCHANGED <<podVars, netVars, lineVars, skip, next>>

Status ==
    /\ pc = "status" /\ up
    /\ pc' = IF ended THEN "dead" ELSE "connect"
    /\ silence' = 0
    /\ UNCHANGED <<podVars, up, lineVars, skip, next, lost_since>>

CannotReach ==
    /\ pc \in {"connect", "status"} /\ ~up
    /\ Lost
    /\ UNCHANGED <<podVars, netVars, lineVars, skip, next>>

\* Any other error of kubectl leaves stream.
Refused ==
    /\ pc \notin Over
    /\ pc' = "refused"
    /\ UNCHANGED <<podVars, netVars, lineVars, skip, next, lost_since>>

CliMoves ==
    \/ Connect \/ SkipLine \/ PrintLine \/ StreamDrops \/ StreamEnds \/ Status \/ CannotReach
    \/ Refused

Next == PodWrites \/ PodEnds \/ NetFails \/ NetHeals \/ Tick \/ CliMoves

\* Time passes, kubectl notices a broken connection, and what could be done again
\* and again is done: reading a line, the end of the log, the status call.
Fairness ==
    /\ WF_vars(Tick)
    /\ WF_vars(Connect \/ Status \/ CannotReach)
    /\ WF_vars(~up /\ StreamDrops)
    /\ SF_vars(Status)
    /\ SF_vars(SkipLine \/ PrintLine)
    /\ SF_vars(ended /\ next > Len(log) /\ StreamEnds)

Spec == Init /\ [][Next]_vars
FairSpec == Spec /\ Fairness

-----------------------------------------------------------------------------
\* Every variable of the model holds what the code could put there.
TypeOK ==
    /\ log \in Seq(0..MaxTime) /\ Len(log) <= MaxLines
    /\ marks \subseteq 1..Len(log)
    /\ said \in BOOLEAN /\ ended \in BOOLEAN /\ up \in BOOLEAN
    /\ silence \in 0..LostForGood
    /\ pc \in {"connect", "read", "status"} \cup Over
    /\ last_ts \in 0..MaxTime \cup {None} /\ at_last \in 0..MaxLines
    /\ skip \in 0..MaxLines /\ next \in 1..MaxLines + 1
    /\ lost_since \in 0..LostForGood \cup {None}
    /\ printed \in Seq(1..MaxLines)

\* Every line is printed once, in the log's order, and none is left out before
\* one that is printed, however often the stream was resumed.
EveryLineOnce == \A i \in DOMAIN printed : printed[i] = i

\* The lines of the steps that read like the finished line.
Lookalikes == IF said THEN marks \ {Len(log)} ELSE marks

\* stream returns at the first line of the log that starts as the finished line
\* does; when no step prints such a line, that is the end of the whole log.
ReturnsAtTheEnd ==
    pc = "returned" =>
        /\ Len(printed) \in marks
        /\ \A i \in marks : Len(printed) <= i
        /\ Lookalikes = {} => said /\ Len(printed) = Len(log)

\* What the CLI prints is the log: line for line up to the first line that starts
\* with FINISHED, and so to its end unless a step prints one.
WholeLog == EveryLineOnce /\ ReturnsAtTheEnd

\* A pod that has ended does not hold the CLI, whatever the network does.
FollowEnds == ended ~> (pc \in Over)

\* RFC-0005 (docs/rfcs/0005-dev-cli-remote-runner.md:628): "Log stream drops |
\* kubectl | Nothing; the stream resumes": the CLI gives up only when nothing has
\* worked for LOST_FOR_GOOD.
GivesUpOnlyWhenLost == pc = "lost" => silence >= LostForGood
=============================================================================
