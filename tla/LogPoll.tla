------------------------------ MODULE LogPoll ------------------------------
(***************************************************************************)
(* Reading the logs of a run with several pods (backend._poll_ranks): every *)
(* POLL seconds a status call and then one `kubectl logs` for all pods,     *)
(* since the second of the oldest line any rank is at.  The status decides  *)
(* about dead ranks even when the logs cannot be read.                      *)
(*                                                                          *)
(* The place of the loop (pc) is status or logs, and returned, terminal,    *)
(* lost or refused at its end; lost_since is its age in polls.              *)
(***************************************************************************)
EXTENDS LogLines, FiniteSets, FiniteSetsExt

CONSTANT Pods   \* --pods

ASSUME PollAssumption == Pods \in Nat \ {0}

Ranks == 1..Pods

VARIABLES
    logs,       \* per rank, its log
    marked,      \* per rank, the lines that start as the finished line does
    done,       \* ranks whose log ends with the finished line
    pod,        \* per rank: up, dead or gone
    items,      \* the pods as the status call saw them
    seen,       \* per rank, the time of the last line printed and how many had it
    shown,      \* per rank, the lines printed
    finished    \* ranks of which a line that starts with FINISHED was printed

rankVars == <<logs, marked, done, pod>>
shownVars == <<seen, shown, finished>>
pollerVars == <<pc, items, shownVars, lost_since>>
pollVars == <<rankVars, pollerVars>>

PollInit ==
    /\ logs = [r \in Ranks |-> <<>>] /\ marked = [r \in Ranks |-> {}] /\ done = {}
    /\ pod = [r \in Ranks |-> "up"]
    /\ pc = "status" /\ items = pod
    /\ seen = [r \in Ranks |-> [ts |-> None, n |-> 0]]
    /\ shown = [r \in Ranks |-> <<>>] /\ finished = {}
    /\ lost_since = None

-----------------------------------------------------------------------------
(* The pods.                                                                *)

LastTimeOf(r) == IF logs[r] = <<>> THEN 0 ELSE logs[r][Len(logs[r])]

Lines == MapThenSumSet(LAMBDA r : Len(logs[r]), Ranks)

\* A line of a step, which may read like the finished line, or the finished line.
RankWrites(r) ==
    /\ pod[r] = "up" /\ r \notin done /\ Lines < MaxLines
    /\ \E t \in LastTimeOf(r)..MaxTime : logs' = [logs EXCEPT ![r] = Append(@, t)]
    /\ \/ UNCHANGED <<marked, done>>
       \/ /\ marked' = [marked EXCEPT ![r] = @ \cup {Len(logs[r]) + 1}]
          /\ done' \in {done, done \cup {r}}
    /\ UNCHANGED <<pod, pollerVars>>

RankDies(r) ==
    /\ \/ pod[r] = "up" /\ pod' = [pod EXCEPT ![r] = "dead"]
       \/ pod[r] # "gone" /\ pod' = [pod EXCEPT ![r] = "gone"]
    /\ UNCHANGED <<logs, marked, done, pollerVars>>

-----------------------------------------------------------------------------
(* The status call.                                                         *)

PollLost ==
    IF lost_since # None /\ lost_since >= LostForGood
    THEN pc' = "lost" /\ lost_since' = lost_since
    ELSE pc' = "status" /\ lost_since' = IF lost_since = None THEN 0 ELSE lost_since + 1

PollStatus ==
    /\ pc = "status"
    /\ items' = pod
    /\ pc' = "logs"
    /\ UNCHANGED <<rankVars, shownVars, lost_since>>

StatusLost ==
    /\ pc = "status"
    /\ PollLost
    /\ UNCHANGED <<rankVars, items, shownVars>>

\* Any other error of the call leaves _poll_ranks.
StatusRefused ==
    /\ pc = "status"
    /\ pc' = "refused"
    /\ UNCHANGED <<rankVars, items, shownVars, lost_since>>

-----------------------------------------------------------------------------
(* The logs call.                                                           *)

Stamps == {seen[r].ts : r \in Ranks}

\* Mutant: since the newest line any rank is at.
SinceNewest == IF None \in Stamps THEN None ELSE Max(Stamps)

\* From the start while a rank has no line, else since the oldest last line.
Since == IF None \in Stamps THEN None ELSE Min(Stamps)

\* The lines the server sends; --since-time counts in seconds.
Served(r) ==
    {i \in DOMAIN logs[r] : pod[r] # "gone" /\ (Since = None \/ Second(logs[r][i]) >= Second(Since))}

\* Not the older lines, and not the first n with the time of the last one printed.
Fresh(r) ==
    {i \in Served(r) :
        \/ seen[r].ts = None
        \/ logs[r][i] > seen[r].ts
        \/ /\ logs[r][i] = seen[r].ts
           /\ Cardinality({j \in Served(r) : j <= i /\ logs[r][j] = seen[r].ts}) > seen[r].n}

InOrder(S) == [k \in 1..Cardinality(S) |-> CHOOSE i \in S : Cardinality({j \in S : j <= i}) = k]

SeenAfter(r) ==
    IF Fresh(r) = {} THEN seen[r]
    ELSE LET ts == logs[r][Max(Fresh(r))]
             new == Cardinality({i \in Fresh(r) : logs[r][i] = ts})
         IN  [ts |-> ts, n |-> IF ts = seen[r].ts THEN seen[r].n + new ELSE new]

\* A rank counts as finished from the first line printed that starts with FINISHED,
\* whoever wrote it; the rest of its lines are printed all the same.
FinishedAfter == finished \cup {r \in Ranks : Fresh(r) \cap marked[r] # {}}

AllFinished(fin) == fin = Ranks

\* Mutant: a rank that is missing altogether is not noticed.
SomeoneIsDead == \E r \in Ranks : items[r] = "dead"

\* A rank is dead, or missing, in the status of this poll.
SomeoneDied == \E r \in Ranks : items[r] # "up"

Logs ==
    /\ pc = "logs"
    /\ shown' = [r \in Ranks |-> shown[r] \o InOrder(Fresh(r))]
    /\ seen' = [r \in Ranks |-> SeenAfter(r)]
    /\ finished' = FinishedAfter
    /\ lost_since' = None
    /\ pc' = IF AllFinished(finished') THEN "returned"
             ELSE IF SomeoneDied THEN "terminal" ELSE "status"
    /\ UNCHANGED <<rankVars, items>>

\* The logs cannot be read: what the status said of the pods comes first, but
\* for an error that is neither a lost connection nor a refusal.
LogsFail ==
    /\ pc = "logs"
    /\ \/ SomeoneDied /\ pc' = "terminal" /\ UNCHANGED lost_since
       \/ ~SomeoneDied /\ PollLost
       \/ pc' = "refused" /\ UNCHANGED lost_since
    /\ UNCHANGED <<rankVars, items, shownVars>>

PollNext ==
    \/ \E r \in Ranks : RankWrites(r) \/ RankDies(r)
    \/ PollStatus \/ StatusLost \/ StatusRefused \/ Logs \/ LogsFail

PollSpec == PollInit /\ [][PollNext]_pollVars

-----------------------------------------------------------------------------
\* Each rank's lines are printed once and in order, none left out before one
\* that is printed, although one since-time serves ranks that are far apart.
EveryLineOfEach == \A r \in Ranks : \A i \in DOMAIN shown[r] : shown[r][i] = i

\* The lines of a rank's steps that read like the finished line.
LookalikesOf(r) == IF r \in done THEN marked[r] \ {Len(logs[r])} ELSE marked[r]

\* _poll_ranks returns only when it has printed, of every rank, a line that starts
\* as the finished line does, and the whole log of each rank whose steps print none.
ReturnsAtEveryEnd ==
    pc = "returned" =>
        \A r \in Ranks :
            /\ \E i \in marked[r] : i <= Len(shown[r])
            /\ LookalikesOf(r) = {} => r \in done /\ Len(shown[r]) = Len(logs[r])

\* What the CLI prints of each rank is its log: line for line, although one
\* since-time serves all ranks, and to its end when it returns unless a step of
\* that rank prints a line that starts with FINISHED.
WholeLogs == EveryLineOfEach /\ ReturnsAtEveryEnd

\* The loop never goes round again after a status that showed a rank dead or
\* missing, whether or not the logs could still be read in that round.
NoPollPastADeath == pc = "status" => \A r \in Ranks : items[r] = "up"
=============================================================================
