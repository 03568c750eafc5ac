-------------------------- MODULE LogProofs --------------------------
(***************************************************************************)
(* Following a log prints every line once, for every length of the log,     *)
(* every grain of the clock and every sequence of drops (LogFollow); and so *)
(* does polling the logs of any number of ranks (LogPoll).                  *)
(***************************************************************************)
EXTENDS LogFollow, LogPoll, SequenceTheorems, FiniteSetTheorems, TLAPS

N == Len(printed)

\* The log only grows, and its times do not go back.
LogIsSorted ==
    /\ log \in Seq(Nat)
    /\ \A i, j \in 1..Len(log) : i <= j => log[i] <= log[j]

PrintedIsPrefix ==
    /\ printed \in Seq(Nat)
    /\ N <= Len(log)
    /\ \A i \in 1..N : printed[i] = i

\* at_last counts the printed lines with the time of the last one, exactly.
LastLine ==
    /\ at_last \in 0..N
    /\ N = 0 => last_ts = None
    /\ N > 0 => /\ last_ts = log[N] /\ at_last > 0
                /\ \A i \in 1..N : i > N - at_last => log[i] = last_ts
                /\ \A i \in 1..N : i <= N - at_last => log[i] < last_ts

\* An open stream is at most at the first line not printed yet, and skip is what
\* it still has to repeat with the time of the last line.
StreamPlace ==
    pc = "read" =>
        /\ next \in 1..N + 1
        /\ skip = IF next <= N - at_last + 1 THEN at_last ELSE N - next + 1

\* No line that reads like the finished line was passed: the first one ends stream.
FirstMark ==
    /\ marks \subseteq 1..Len(log)
    /\ IF pc = "returned" THEN N \in marks /\ \A i \in marks : N <= i
       ELSE \A i \in marks : N < i

Inv ==
    /\ LogIsSorted
    /\ PrintedIsPrefix
    /\ LastLine
    /\ StreamPlace
    /\ FirstMark

\* The mark for no time is no time.
LEMMA NoneIsNoTime == None \notin Nat
BY DEF None

\* Nothing is printed yet.
LEMMA InvInit == Init => Inv
BY DEF Init, Inv, LogIsSorted, PrintedIsPrefix, LastLine, StreamPlace, FirstMark, N

\* The pod appends to its log.
LEMMA WritesKeepInv == Inv /\ PodWrites => Inv'
<1> SUFFICES ASSUME Inv, PodWrites PROVE Inv'
  OBVIOUS
<1> USE DEF PodWrites, netVars, cliVars, lineVars
<1>1. PICK t \in LastTime..MaxTime : log' = Append(log, t)
  OBVIOUS
<1>2. log \in Seq(Nat) /\ Len(log) \in Nat
  BY DEF Inv, LogIsSorted
<1>3. t \in Nat /\ \A i \in 1..Len(log) : log[i] <= t
  <2>1. LastTime \in Nat
    BY <1>2 DEF LastTime
  <2>2. t \in Nat /\ LastTime <= t
    BY <1>1, <2>1, LogAssumption
  <2>3. ASSUME NEW i \in 1..Len(log) PROVE log[i] <= t
    <3>1. log # <<>> /\ LastTime = log[Len(log)]
      BY <1>2 DEF LastTime
    <3>2. log[i] <= log[Len(log)] /\ log[i] \in Nat
      BY <1>2 DEF Inv, LogIsSorted
    <3> QED BY <2>1, <2>2, <3>1, <3>2
  <2> QED BY <2>2, <2>3
<1>4. /\ log' \in Seq(Nat) /\ Len(log') = Len(log) + 1
      /\ \A i \in 1..Len(log) : log'[i] = log[i]
      /\ log'[Len(log) + 1] = t
  BY <1>1, <1>2, <1>3, AppendProperties
<1>5. LogIsSorted'
  <2> SUFFICES ASSUME NEW i \in 1..Len(log'), NEW j \in 1..Len(log'), i <= j
               PROVE  log'[i] <= log'[j]
    BY <1>4 DEF LogIsSorted
  <2>1. CASE j = Len(log) + 1
    BY <1>2, <1>3, <1>4, <2>1
  <2>2. CASE j # Len(log) + 1
    BY <1>2, <1>4, <2>2 DEF Inv, LogIsSorted
  <2> QED BY <2>1, <2>2
<1>6. N' = N /\ N \in Nat /\ N <= Len(log)
  BY DEF N, Inv, PrintedIsPrefix
<1>7. PrintedIsPrefix'
  BY <1>2, <1>4, <1>6 DEF Inv, PrintedIsPrefix
<1>8. LastLine'
  <2>1. \A i \in 1..N : log'[i] = log[i]
    BY <1>2, <1>4, <1>6
  <2> QED BY <1>6, <2>1 DEF Inv, LastLine
<1>9. StreamPlace'
  BY <1>6 DEF Inv, StreamPlace
<1>10. FirstMark'
  <2>1. marks' \in {marks, marks \cup {Len(log) + 1}} /\ marks \subseteq 1..Len(log)
    BY DEF Inv, FirstMark
  <2>2. marks' \subseteq 1..Len(log')
    BY <1>2, <1>4, <2>1
  <2>3. \A i \in marks' : i \in marks \/ N < i
    BY <1>2, <1>6, <2>1
  <2>4. marks \subseteq marks' /\ marks \subseteq Nat
    BY <1>2, <2>1
  <2> QED BY <1>6, <2>2, <2>3, <2>4 DEF Inv, FirstMark
<1> QED BY <1>5, <1>7, <1>8, <1>9, <1>10 DEF Inv

\* A stream begins again at the second of the last line, and skips what was printed of it.
LEMMA ConnectKeepsInv == Inv /\ Connect => Inv'
<1> SUFFICES ASSUME Inv, Connect PROVE Inv'
  OBVIOUS
<1> USE DEF Connect, podVars, lineVars
<1>1. /\ log \in Seq(Nat) /\ Len(log) \in Nat /\ printed \in Seq(Nat) /\ N \in Nat
      /\ N <= Len(log) /\ at_last \in 0..N
  BY DEF Inv, LogIsSorted, PrintedIsPrefix, LastLine, N
<1>2. N' = N /\ LogIsSorted' /\ PrintedIsPrefix' /\ LastLine'
  BY DEF Inv, LogIsSorted, PrintedIsPrefix, LastLine, N
<1>3. next' \in 1..N - at_last + 1
  <2>1. CASE N = 0
    <3>1. last_ts = None /\ at_last = 0
      BY <1>1, <2>1 DEF Inv, LastLine
    <3>2. \A i \in 1..Len(log) : i >= next'
      BY <3>1
    <3>3. next' \in 1..Len(log) + 1
      OBVIOUS
    <3>4. next' = 1
      <4>1. CASE Len(log) = 0
        BY <3>3, <4>1
      <4>2. CASE Len(log) # 0
        BY <1>1, <3>2, <3>3, <4>2
      <4> QED BY <4>1, <4>2
    <3> QED BY <2>1, <3>1, <3>4
  <2>2. CASE N # 0
    <3> DEFINE k == N - at_last + 1
    <3>1. at_last > 0
      BY <1>1, <2>2 DEF Inv, LastLine
    <3>2. k \in 1..N /\ k \in 1..Len(log)
      BY <1>1, <3>1
    <3>3. log[k] = last_ts
      BY <1>1, <2>2, <3>2 DEF Inv, LastLine
    <3>4. k >= next'
      <4>1. Second(log[k]) >= Second(last_ts)
        BY <1>1, <3>2, <3>3, LogAssumption DEF Second
      <4> QED BY <3>2, <4>1
    <3> QED BY <1>1, <3>2, <3>4
  <2> QED BY <2>1, <2>2
<1>4. StreamPlace'
  BY <1>1, <1>2, <1>3 DEF StreamPlace
<1>5. FirstMark'
  BY <1>2 DEF Inv, FirstMark
<1> QED BY <1>2, <1>4, <1>5 DEF Inv

\* What an open stream knows of the line it delivers next.
LEMMA PlaceOfNext ==
    ASSUME Inv, pc = "read", next <= Len(log)
    PROVE  /\ next \in 1..N + 1 /\ N \in Nat /\ at_last \in 0..N /\ next \in 1..Len(log)
           /\ log[next] \in Nat
           /\ N > 0 => last_ts = log[N] /\ last_ts \in Nat /\ at_last > 0
           /\ N = 0 => last_ts = None
           /\ next <= N - at_last => log[next] < last_ts /\ N > 0
           /\ next \in (N - at_last + 1)..N => log[next] = last_ts /\ skip = N - next + 1 /\ N > 0
           /\ next = N + 1 => skip = 0 /\ (N > 0 => last_ts <= log[next])
<1>1. /\ next \in 1..N + 1 /\ N \in Nat /\ at_last \in 0..N /\ next \in 1..Len(log)
      /\ log \in Seq(Nat) /\ Len(log) \in Nat /\ N <= Len(log)
  BY DEF Inv, LogIsSorted, PrintedIsPrefix, LastLine, StreamPlace, N
<1>2. log[next] \in Nat /\ (N > 0 => log[N] \in Nat)
  BY <1>1
<1>3. /\ N > 0 => last_ts = log[N] /\ last_ts \in Nat /\ at_last > 0
      /\ N = 0 => last_ts = None
  BY <1>1, <1>2 DEF Inv, LastLine
<1>4. next <= N - at_last => log[next] < last_ts /\ N > 0
  BY <1>1 DEF Inv, LastLine
<1>5. next \in (N - at_last + 1)..N => log[next] = last_ts /\ skip = N - next + 1 /\ N > 0
  BY <1>1 DEF Inv, LastLine, StreamPlace
<1>6. next = N + 1 => skip = 0 /\ (N > 0 => last_ts <= log[next])
  <2> SUFFICES ASSUME next = N + 1 PROVE skip = 0 /\ (N > 0 => last_ts <= log[next])
    OBVIOUS
  <2>1. skip = 0
    BY <1>1, <1>3 DEF Inv, StreamPlace
  <2>2. N > 0 => log[N] <= log[next]
    BY <1>1 DEF Inv, LogIsSorted
  <2> QED BY <2>1, <2>2, <1>3
<1> QED BY <1>1, <1>2, <1>3, <1>4, <1>5, <1>6

\* A line that was printed before is skipped.
LEMMA SkipKeepsInv == Inv /\ SkipLine => Inv'
<1> SUFFICES ASSUME Inv, SkipLine PROVE Inv'
  OBVIOUS
<1> USE DEF SkipLine, Repeated, podVars, lineVars
<1>1. pc = "read" /\ next <= Len(log) /\ pc' = pc /\ next' = next + 1
  OBVIOUS
<1>2. N' = N /\ LogIsSorted' /\ PrintedIsPrefix' /\ LastLine'
  BY DEF Inv, LogIsSorted, PrintedIsPrefix, LastLine, N
<1>3. /\ next \in 1..N + 1 /\ N \in Nat /\ at_last \in 0..N /\ next \in 1..Len(log)
      /\ log[next] \in Nat
      /\ N > 0 => last_ts = log[N] /\ last_ts \in Nat /\ at_last > 0
      /\ N = 0 => last_ts = None
      /\ next <= N - at_last => log[next] < last_ts /\ N > 0
      /\ next \in (N - at_last + 1)..N => log[next] = last_ts /\ skip = N - next + 1 /\ N > 0
      /\ next = N + 1 => skip = 0 /\ (N > 0 => last_ts <= log[next])
  BY <1>1, PlaceOfNext
<1>4. N > 0
  BY <1>3
<1>5. next <= N
  <2>1. SUFFICES ASSUME next = N + 1 PROVE FALSE
    BY <1>3
  <2> QED BY <1>3, <1>4, <2>1
<1>8. FirstMark'
  BY <1>1, <1>2 DEF Inv, FirstMark
<1>6. CASE next <= N - at_last
  <2>1. skip' = skip /\ skip = at_last
    BY <1>1, <1>3, <1>6 DEF Inv, StreamPlace
  <2>2. StreamPlace'
    BY <1>1, <1>2, <1>3, <1>6, <2>1 DEF StreamPlace
  <2> QED BY <1>2, <1>8, <2>2 DEF Inv
<1>7. CASE next > N - at_last
  <2>1. skip' = skip - 1 /\ skip = N - next + 1
    BY <1>3, <1>5, <1>7
  <2>2. StreamPlace'
    BY <1>1, <1>2, <1>3, <1>5, <1>7, <2>1 DEF StreamPlace
  <2> QED BY <1>2, <1>8, <2>2 DEF Inv
<1> QED BY <1>3, <1>6, <1>7

\* The next line of the log is printed.
LEMMA PrintKeepsInv == Inv /\ PrintLine => Inv'
<1> SUFFICES ASSUME Inv, PrintLine PROVE Inv'
  OBVIOUS
<1> USE DEF PrintLine, podVars
<1>1. pc = "read" /\ next <= Len(log) /\ next' = next + 1 /\ log' = log /\ skip' = skip
  OBVIOUS
<1>2. /\ next \in 1..N + 1 /\ N \in Nat /\ at_last \in 0..N /\ next \in 1..Len(log)
      /\ log[next] \in Nat
      /\ N > 0 => last_ts = log[N] /\ last_ts \in Nat /\ at_last > 0
      /\ N = 0 => last_ts = None
      /\ next <= N - at_last => log[next] < last_ts /\ N > 0
      /\ next \in (N - at_last + 1)..N => log[next] = last_ts /\ skip = N - next + 1 /\ N > 0
      /\ next = N + 1 => skip = 0 /\ (N > 0 => last_ts <= log[next])
  BY <1>1, PlaceOfNext
<1>3. next = N + 1
  <2>1. SUFFICES ASSUME next <= N PROVE FALSE
    BY <1>2
  <2>2. N > 0 /\ last_ts # None
    BY <1>2, <2>1, NoneIsNoTime
  <2>3. CASE next <= N - at_last
    BY <1>2, <2>2, <2>3 DEF Repeated
  <2>4. CASE next > N - at_last
    <3>1. log[next] = last_ts /\ skip > 0
      BY <1>2, <2>1, <2>4
    <3> QED BY <2>2, <3>1 DEF Repeated
  <2> QED BY <1>2, <2>3, <2>4
<1>4. /\ printed' \in Seq(Nat) /\ N' = N + 1
      /\ \A i \in 1..N : printed'[i] = i
      /\ printed'[N + 1] = N + 1
  <2>1. printed \in Seq(Nat) /\ next \in Nat /\ printed' = Append(printed, next)
    BY <1>2 DEF Inv, PrintedIsPrefix
  <2>2. /\ printed' \in Seq(Nat) /\ Len(printed') = Len(printed) + 1
        /\ \A i \in 1..Len(printed) : printed'[i] = printed[i]
        /\ printed'[Len(printed) + 1] = next
    BY <2>1, AppendProperties
  <2> QED BY <1>3, <2>2 DEF Inv, PrintedIsPrefix, N
<1>5. LogIsSorted'
  BY DEF Inv, LogIsSorted
<1>6. PrintedIsPrefix'
  BY <1>1, <1>2, <1>3, <1>4 DEF PrintedIsPrefix
<1>7. last_ts' = log[N + 1] /\ at_last' = IF log[N + 1] = last_ts THEN at_last + 1 ELSE 1
  BY <1>3
<1>8. /\ \A i \in 1..N : log[i] \in Nat /\ log[i] <= log[N + 1]
      /\ \A i \in 1..N : log[i] <= log[N]
  <2>1. log \in Seq(Nat) /\ \A i, j \in 1..Len(log) : i <= j => log[i] <= log[j]
    BY DEF Inv, LogIsSorted
  <2>2. N + 1 \in 1..Len(log) /\ Len(log) \in Nat
    BY <1>2, <1>3, <2>1
  <2>3. ASSUME NEW i \in 1..N
        PROVE  log[i] \in Nat /\ log[i] <= log[N + 1] /\ log[i] <= log[N]
    <3>1. i \in 1..Len(log) /\ N \in 1..Len(log) /\ i <= N + 1 /\ i <= N
      BY <1>2, <2>2
    <3> QED BY ONLY <2>1, <2>2, <3>1
  <2> QED BY <2>3
<1>9. LastLine'
  <2>1. CASE log[N + 1] = last_ts
    <3>1. N > 0
      BY <1>2, <1>3, <2>1, NoneIsNoTime
    <3>2. /\ \A i \in 1..N : i > N - at_last => log[i] = last_ts
          /\ \A i \in 1..N : i <= N - at_last => log[i] < last_ts
      BY <3>1 DEF Inv, LastLine
    <3>3. at_last' = at_last + 1 /\ last_ts' = last_ts
      BY <1>7, <2>1
    <3> QED BY <1>1, <1>2, <1>4, <1>7, <2>1, <3>1, <3>2, <3>3 DEF LastLine
  <2>2. CASE log[N + 1] # last_ts
    <3>1. at_last' = 1
      BY <1>7, <2>2
    <3>2. \A i \in 1..N : log[i] < log[N + 1]
      BY <1>2, <1>3, <1>8, <2>2
    <3> QED BY <1>1, <1>2, <1>3, <1>4, <1>7, <3>1, <3>2 DEF LastLine
  <2> QED BY <2>1, <2>2
<1>10. at_last' \in 1..N + 1
  BY <1>2, <1>7
<1>11. StreamPlace'
  BY <1>1, <1>2, <1>3, <1>4, <1>10 DEF StreamPlace
<1>12. FirstMark'
  <2>1. marks' = marks /\ marks \subseteq 1..Len(log) /\ \A i \in marks : N < i
    BY <1>1 DEF Inv, FirstMark
  <2>2. marks \subseteq Nat /\ \A i \in marks : N + 1 <= i
    BY <1>2, <2>1
  <2>3. CASE next \in marks
    BY <1>1, <1>3, <1>4, <2>1, <2>2, <2>3 DEF FirstMark
  <2>4. CASE next \notin marks
    <3>1. \A i \in marks : N + 1 < i
      BY <1>2, <1>3, <2>2, <2>4
    <3> QED BY <1>1, <1>4, <2>1, <2>4, <3>1 DEF FirstMark
  <2> QED BY <2>3, <2>4
<1> QED BY <1>5, <1>6, <1>9, <1>11, <1>12 DEF Inv

\* The other actions touch neither the lines nor an open stream's place.
LEMMA RestKeepsInv ==
    ASSUME Inv, UNCHANGED <<log, marks, lineVars>>,
           pc' = "read" => pc = "read" /\ UNCHANGED <<skip, next>>,
           pc' = "returned" <=> pc = "returned"
    PROVE  Inv'
BY DEF Inv, LogIsSorted, PrintedIsPrefix, LastLine, StreamPlace, FirstMark, N, lineVars

\* Every step keeps the invariant.
LEMMA InvStep == Inv /\ [Next]_vars => Inv'
<1> SUFFICES ASSUME Inv, [Next]_vars PROVE Inv'
  OBVIOUS
<1>1. CASE PodWrites
  BY <1>1, WritesKeepInv
<1>2. CASE Connect
  BY <1>2, ConnectKeepsInv
<1>3. CASE SkipLine
  BY <1>3, SkipKeepsInv
<1>4. CASE PrintLine
  BY <1>4, PrintKeepsInv
<1>5. CASE PodEnds \/ NetFails \/ NetHeals \/ Tick
  BY <1>5, RestKeepsInv DEF PodEnds, NetFails, NetHeals, Tick, netVars, cliVars, podVars
<1>6. CASE StreamDrops \/ CannotReach
  BY <1>6, RestKeepsInv DEF StreamDrops, CannotReach, Lost, podVars
<1>7. CASE StreamEnds \/ Status \/ Refused
  BY <1>7, RestKeepsInv DEF StreamEnds, Status, Refused, podVars, Over
<1>8. CASE UNCHANGED vars
  BY <1>8, RestKeepsInv DEF vars, podVars, cliVars
<1> QED BY <1>1, <1>2, <1>3, <1>4, <1>5, <1>6, <1>7, <1>8 DEF Next, CliMoves

\* The invariant of the followed log holds in every state (follow_logs).
THEOREM InvHolds == Spec => []Inv
BY InvInit, InvStep, PTL DEF Spec

\* Whatever is dropped, resumed and repeated, each line of the log is printed
\* once and in order (backend.stream's since-time, ts and skip together).
THEOREM NoLineLostOrRepeated == Spec => []EveryLineOnce
<1>1. Inv => EveryLineOnce
  BY DEF Inv, PrintedIsPrefix, EveryLineOnce, N
<1> QED BY <1>1, InvHolds, PTL

\* stream returns at the first line that starts with FINISHED, and therefore with
\* the whole log printed unless a step prints such a line (backend.py:357).
THEOREM ReturnMeansFinished == Spec => []ReturnsAtTheEnd
<1>1. Inv => ReturnsAtTheEnd
  <2> SUFFICES ASSUME Inv, pc = "returned"
               PROVE  /\ N \in marks
                      /\ \A i \in marks : N <= i
                      /\ Lookalikes = {} => said /\ N = Len(log)
    BY DEF ReturnsAtTheEnd, N
  <2>1. N \in marks /\ \A i \in marks : N <= i
    BY DEF Inv, FirstMark
  <2>2. Lookalikes = {} => said /\ N = Len(log)
    BY <2>1 DEF Lookalikes
  <2> QED BY <2>1, <2>2
<1> QED BY <1>1, InvHolds, PTL

\* What stream prints is the pod's log, whatever lines share a second and
\* wherever the stream breaks, up to the first line that starts with FINISHED.
THEOREM LogIsWhole == Spec => []WholeLog
<1>1. WholeLog <=> EveryLineOnce /\ ReturnsAtTheEnd
  BY DEF WholeLog
<1> QED BY <1>1, NoLineLostOrRepeated, ReturnMeansFinished, PTL

-----------------------------------------------------------------------------
(* Polling the ranks of a run with several pods (LogPoll).                  *)

Shown(r) == Len(shown[r])

LogsAreSorted ==
    \A r \in Ranks :
        /\ logs[r] \in Seq(Nat)
        /\ \A i, j \in 1..Len(logs[r]) : i <= j => logs[r][i] <= logs[r][j]

PrefixOf(r) ==
    /\ shown[r] \in Seq(Nat)
    /\ Shown(r) <= Len(logs[r])
    /\ \A i \in 1..Shown(r) : shown[r][i] = i

\* n counts the printed lines with the time of the last one, exactly.
LastOf(r) ==
    /\ seen[r].n \in 0..Shown(r)
    /\ Shown(r) = 0 => seen[r] = [ts |-> None, n |-> 0]
    /\ Shown(r) > 0 => /\ seen[r].ts = logs[r][Shown(r)] /\ seen[r].n > 0
                       /\ \A i \in 1..Shown(r) : i > Shown(r) - seen[r].n => logs[r][i] = seen[r].ts
                       /\ \A i \in 1..Shown(r) : i <= Shown(r) - seen[r].n => logs[r][i] < seen[r].ts

\* Of a rank that counts as finished, a line that starts with FINISHED is printed.
ThroughIsWhole ==
    /\ \A r \in Ranks : marked[r] \subseteq 1..Len(logs[r])
    /\ \A r \in Ranks : r \in finished => \E i \in marked[r] : i <= Shown(r)
    /\ pc = "returned" => finished = Ranks

PollFuncs ==
    /\ logs = [r \in Ranks |-> logs[r]] /\ shown = [r \in Ranks |-> shown[r]]
    /\ seen = [r \in Ranks |-> seen[r]] /\ marked = [r \in Ranks |-> marked[r]]

PollInv ==
    /\ PollFuncs
    /\ LogsAreSorted
    /\ \A r \in Ranks : PrefixOf(r) /\ LastOf(r)
    /\ ThroughIsWhole
    /\ NoPollPastADeath

\* Every set of naturals that is not empty has a least element.
LEMMA LeastNat ==
  ASSUME NEW S \in SUBSET Nat, S # {}
  PROVE  \E m \in S : \A k \in S : m <= k
<1> DEFINE R == {ss \in Nat \X Nat : ss[1] < ss[2]}
<1>0. IsWellFoundedOn(R, Nat)
  BY NatLessThanWellFounded, Zenon DEF OpToRel
<1> HIDE DEF R
<1>1. PICK m \in S : \A y \in S : <<y, m>> \notin R
  BY <1>0, WFMin
<1>2. ASSUME NEW k \in S PROVE m <= k
  <2>1. <<k, m>> \notin R
    BY <1>1
  <2>2. k \in Nat /\ m \in Nat
    OBVIOUS
  <2>3. <<k, m>> \in Nat \X Nat => <<k, m>>[1] >= <<k, m>>[2]
    BY <2>1, <2>2 DEF R
  <2> QED BY <2>2, <2>3
<1> QED BY <1>2

\* The marks for no time are no time.
LEMMA PollNone == None = -1 /\ None \notin Nat
BY DEF None

\* Nothing is printed of any rank yet.
LEMMA PollInvInit == PollInit => PollInv
BY DEF PollInit, PollInv, LogsAreSorted, PrefixOf, LastOf, ThroughIsWhole, Shown, PollFuncs, NoPollPastADeath

\* The since-time of a round is not after the last line of any rank that has one.
LEMMA SinceIsOld ==
  ASSUME PollInv
  PROVE  \/ Since = None
         \/ Since \in Nat /\ \A r \in Ranks : seen[r].ts \in Nat /\ Since <= seen[r].ts
<1>1. ASSUME NEW r \in Ranks PROVE seen[r].ts \in Nat \/ seen[r].ts = None
  <2>1. Shown(r) \in Nat /\ Shown(r) <= Len(logs[r]) /\ logs[r] \in Seq(Nat)
    BY <1>1 DEF PollInv, PrefixOf, LogsAreSorted, Shown
  <2>2. CASE Shown(r) = 0
    BY <1>1, <2>2 DEF PollInv, LastOf
  <2>3. CASE Shown(r) > 0
    <3>1. seen[r].ts = logs[r][Shown(r)]
      BY <1>1, <2>3 DEF PollInv, LastOf
    <3> QED BY <2>1, <2>3, <3>1
  <2> QED BY <2>1, <2>2, <2>3
<1>2. CASE None \in Stamps
  BY <1>2 DEF Since
<1>3. CASE None \notin Stamps
  <2>1. \A r \in Ranks : seen[r].ts \in Nat /\ seen[r].ts \in Stamps
    BY <1>1, <1>3 DEF Stamps
  <2>2. Stamps \in SUBSET Nat
    BY <2>1 DEF Stamps
  <2>3. Stamps # {}
    <3>1. 1 \in Ranks
      BY PollAssumption DEF Ranks
    <3> QED BY <2>1, <3>1
  <2>4. Since \in Stamps /\ \A k \in Stamps : Since <= k
    <3>1. \E m \in Stamps : \A k \in Stamps : m <= k
      BY <2>2, <2>3, LeastNat
    <3> QED BY <1>3, <3>1 DEF Since, Min
  <2> QED BY <2>1, <2>2, <2>4
<1> QED BY <1>2, <1>3

\* Rounding to a second keeps the order of times.
LEMMA SecondsInOrder ==
  ASSUME NEW a \in Nat, NEW b \in Nat, a <= b
  PROVE  Second(b) >= Second(a)
BY LogAssumption DEF Second

\* What the filter lets finished of a round: the lines not printed yet.
LEMMA FreshIsTheRest ==
  ASSUME PollInv, NEW r \in Ranks
  PROVE  Fresh(r) = IF pod[r] = "gone" THEN {} ELSE (Shown(r) + 1)..Len(logs[r])
<1> DEFINE M == Shown(r)
           L == Len(logs[r])
           ts == seen[r].ts
           n == seen[r].n
<1>1. /\ logs[r] \in Seq(Nat) /\ L \in Nat /\ M \in Nat /\ M <= L /\ DOMAIN logs[r] = 1..L
      /\ \A i \in 1..L : logs[r][i] \in Nat
      /\ \A i, j \in 1..L : i <= j => logs[r][i] <= logs[r][j]
  BY DEF PollInv, LogsAreSorted, PrefixOf, Shown
<1>2. LastOf(r)
  BY DEF PollInv
<1> HIDE DEF M, L
<1>3. CASE pod[r] = "gone"
  BY <1>3 DEF Fresh, Served
<1>4. CASE pod[r] # "gone" /\ M = 0
  <2>1. ts = None
    BY <1>2, <1>4 DEF LastOf, M
  <2>2. Since = None
    BY <2>1 DEF Since, Stamps
  <2>3. Served(r) = 1..L
    BY <1>1, <1>4, <2>2 DEF Served
  <2>4. Fresh(r) = 1..L
    BY <2>1, <2>3 DEF Fresh
  <2> QED BY <1>4, <2>4 DEF M, L
<1>5. CASE pod[r] # "gone" /\ M > 0
  <2>1. /\ ts = logs[r][M] /\ ts \in Nat /\ n \in 1..M
        /\ \A i \in 1..M : i > M - n => logs[r][i] = ts
        /\ \A i \in 1..M : i <= M - n => logs[r][i] < ts
    <3>1. /\ ts = logs[r][M] /\ n \in 0..M /\ n > 0
          /\ \A i \in 1..M : i > M - n => logs[r][i] = ts
          /\ \A i \in 1..M : i <= M - n => logs[r][i] < ts
      BY <1>2, <1>5 DEF LastOf, M
    <3>2. M \in 1..L /\ n \in 1..M
      BY <1>1, <1>5, <3>1
    <3> QED BY <1>1, <3>1, <3>2
  <2>2. ASSUME NEW i \in 1..L, logs[r][i] >= ts PROVE i \in Served(r)
    <3>1. Since = None \/ (Since \in Nat /\ Since <= ts)
      BY SinceIsOld
    <3>2. Since \in Nat /\ Since <= ts => Second(logs[r][i]) >= Second(Since)
      <4> SUFFICES ASSUME Since \in Nat, Since <= ts
                   PROVE  Second(logs[r][i]) >= Second(Since)
        OBVIOUS
      <4>1. logs[r][i] \in Nat /\ Since <= logs[r][i]
        BY <1>1, <2>1, <2>2
      <4> HIDE DEF Since
      <4> QED BY <4>1, SecondsInOrder
    <3> QED BY <1>1, <1>5, <3>1, <3>2 DEF Served
  <2>3. ASSUME NEW i \in 1..L PROVE i > M => logs[r][i] >= ts
    BY <1>1, <1>5, <2>1
  <2>4. Served(r) \subseteq 1..L
    BY <1>1 DEF Served
  <2>5. ASSUME NEW i \in 1..L, logs[r][i] = ts
        PROVE  /\ i > M - n
               /\ Cardinality({j \in Served(r) : j <= i /\ logs[r][j] = ts}) = i - (M - n)
    <3>1. i > M - n
      <4>1. i <= M - n => i \in 1..M
        BY <1>1, <2>1
      <4> QED BY <1>1, <2>1, <2>5, <4>1
    <3>2. ASSUME NEW j \in 1..L, j <= i, j > M - n PROVE logs[r][j] = ts
      <4>1. CASE j <= M
        BY <1>1, <2>1, <3>2, <4>1
      <4>2. CASE j > M
        <5>1. ts <= logs[r][j] /\ logs[r][j] <= logs[r][i] /\ logs[r][j] \in Nat
          BY <1>1, <2>3, <2>5, <3>2, <4>2
        <5> QED BY <2>1, <2>5, <5>1
      <4> QED BY <1>1, <4>1, <4>2
    <3>3. ASSUME NEW j \in 1..L, logs[r][j] = ts PROVE j > M - n
      BY <1>1, <2>1, <3>3
    <3>4. {j \in Served(r) : j <= i /\ logs[r][j] = ts} = (M - n + 1)..i
      <4>1. ASSUME NEW j \in (M - n + 1)..i PROVE j \in Served(r) /\ j <= i /\ logs[r][j] = ts
        <5>1. j \in 1..L /\ j <= i /\ j > M - n
          BY <1>1, <2>1, <2>5
        <5>2. logs[r][j] = ts
          BY <3>2, <5>1
        <5> QED BY <2>1, <2>2, <5>1, <5>2
      <4>2. ASSUME NEW j \in Served(r), j <= i, logs[r][j] = ts PROVE j \in (M - n + 1)..i
        <5>1. j \in 1..L /\ j > M - n
          BY <2>4, <3>3, <4>2
        <5> QED BY <1>1, <2>1, <4>2, <5>1
      <4> QED BY <4>1, <4>2
    <3>5. Cardinality((M - n + 1)..i) = i - (M - n)
      <4>1. M - n + 1 \in Int /\ i \in Int /\ M - n + 1 <= i
        BY <1>1, <2>1, <2>5, <3>1
      <4>2. Cardinality((M - n + 1)..i) = i - (M - n + 1) + 1
        BY <4>1, FS_Interval
      <4> QED BY <1>1, <2>1, <2>5, <4>2
    <3> QED BY <3>1, <3>4, <3>5
  <2>6. ASSUME NEW i \in (M + 1)..L PROVE i \in Fresh(r)
    <3>1. i \in 1..L /\ i > M
      BY <1>1
    <3>2. i \in Served(r) /\ logs[r][i] >= ts /\ logs[r][i] \in Nat
      BY <1>1, <2>2, <2>3, <3>1
    <3>3. CASE logs[r][i] > ts
      BY <3>2, <3>3 DEF Fresh
    <3>4. CASE logs[r][i] = ts
      <4>0. Cardinality({j \in Served(r) : j <= i /\ logs[r][j] = ts}) = i - (M - n)
        BY <2>5, <3>1, <3>4
      <4>a. i - (M - n) > n
        BY <1>1, <2>1, <3>1
      <4>1. Cardinality({j \in Served(r) : j <= i /\ logs[r][j] = ts}) > n
        BY <4>0, <4>a
      <4> QED BY <3>2, <3>4, <4>1, Zenon DEF Fresh
    <3> QED BY <2>1, <3>2, <3>3, <3>4
  <2>7. ASSUME NEW i \in Fresh(r) PROVE i \in (M + 1)..L
    <3>1. i \in 1..L /\ i \in Served(r)
      BY <2>4 DEF Fresh
    <3>2. ASSUME i <= M PROVE FALSE
      <4>1. logs[r][i] <= ts /\ logs[r][i] \in Nat
        BY <1>1, <1>5, <2>1, <3>1, <3>2
      <4>2. ts # None
        BY <2>1, PollNone
      <4>3. logs[r][i] = ts /\ Cardinality({j \in Served(r) : j <= i /\ logs[r][j] = ts}) > n
        <5>1. \/ ts = None
              \/ logs[r][i] > ts
              \/ /\ logs[r][i] = ts
                 /\ Cardinality({j \in Served(r) : j <= i /\ logs[r][j] = ts}) > n
          BY Zenon DEF Fresh
        <5>2. ~(logs[r][i] > ts)
          BY <2>1, <4>1
        <5> QED BY <4>2, <5>1, <5>2, Zenon
      <4> QED BY <1>1, <2>1, <2>5, <3>1, <3>2, <4>3
    <3> QED BY <1>1, <3>1, <3>2
  <2>8. Fresh(r) = (M + 1)..L
    BY <2>6, <2>7
  <2> QED BY <1>5, <2>8 DEF M, L
<1> QED BY <1>1, <1>3, <1>4, <1>5

\* The lines of an interval are printed one after the other.
LEMMA IntervalInOrder ==
  ASSUME NEW a \in Nat, NEW b \in Nat, a <= b
  PROVE  InOrder((a + 1)..b) = [k \in 1..(b - a) |-> a + k]
<1> DEFINE S == (a + 1)..b
<1>1. Cardinality(S) = b - a
  <2>1. CASE a = b
    BY <2>1, FS_Interval
  <2>2. CASE a < b
    <3>1. Cardinality((a + 1)..b) = b - (a + 1) + 1
      BY <2>2, FS_Interval
    <3> QED BY <3>1
  <2> QED BY <2>1, <2>2
<1>2. ASSUME NEW i \in S PROVE Cardinality({j \in S : j <= i}) = i - a
  <2>1. {j \in S : j <= i} = (a + 1)..i
    OBVIOUS
  <2>2. Cardinality((a + 1)..i) = i - (a + 1) + 1
    BY FS_Interval
  <2>3. i - (a + 1) + 1 = i - a
    OBVIOUS
  <2>4. Cardinality((a + 1)..i) = i - a
    BY <2>2, <2>3
  <2> QED BY <2>1, <2>4
<1>3. ASSUME NEW k \in 1..(b - a)
      PROVE  (CHOOSE i \in S : Cardinality({j \in S : j <= i}) = k) = a + k
  <2>1. a + k \in S /\ Cardinality({j \in S : j <= a + k}) = k
    <3>1. a + k \in S
      OBVIOUS
    <3>2. Cardinality({j \in S : j <= a + k}) = (a + k) - a
      BY <1>2, <3>1
    <3> QED BY <3>1, <3>2
  <2>2. ASSUME NEW i \in S, Cardinality({j \in S : j <= i}) = k PROVE i = a + k
    BY <1>2, <2>2
  <2> DEFINE P(i) == Cardinality({j \in S : j <= i}) = k
  <2>3. a + k \in S /\ P(a + k) /\ \A i \in S : P(i) => i = a + k
    BY <2>1, <2>2
  <2> HIDE DEF P, S
  <2>4. (CHOOSE i \in S : P(i)) = a + k
    BY <2>3
  <2> QED BY <2>4 DEF P
<1> HIDE DEF S
<1>4. InOrder(S) = [k \in 1..(b - a) |-> CHOOSE i \in S : Cardinality({j \in S : j <= i}) = k]
  BY <1>1 DEF InOrder
<1>5. InOrder(S) = [k \in 1..(b - a) |-> a + k]
  BY <1>3, <1>4
<1> QED BY <1>5 DEF S

\* What the tail of a sorted log ends with is one block of lines with the last time.
LEMMA LastBlock ==
  ASSUME NEW log1 \in Seq(Nat), NEW M \in Nat, M < Len(log1),
         \A i, j \in 1..Len(log1) : i <= j => log1[i] <= log1[j]
  PROVE  \E k \in (M + 1)..Len(log1) :
            /\ \A i \in (M + 1)..Len(log1) : i >= k => log1[i] = log1[Len(log1)]
            /\ \A i \in (M + 1)..Len(log1) : i < k => log1[i] < log1[Len(log1)]
            /\ Cardinality({i \in (M + 1)..Len(log1) : log1[i] = log1[Len(log1)]}) = Len(log1) - k + 1
<1> DEFINE L == Len(log1)
           B == {i \in (M + 1)..L : log1[i] = log1[L]}
<1>1. L \in Nat /\ L > M /\ \A i \in 1..L : log1[i] \in Nat
  OBVIOUS
<1>2. B \in SUBSET Nat /\ L \in B
  BY <1>1
<1>3. PICK k \in B : \A j \in B : k <= j
  <2> HIDE DEF B
  <2> QED BY <1>2, LeastNat
<1>4. k \in (M + 1)..L /\ k \in Nat /\ log1[k] = log1[L]
  BY <1>1, <1>3
<1>5. ASSUME NEW i \in (M + 1)..L, i >= k PROVE log1[i] = log1[L]
  <2>1. i \in 1..L /\ k \in 1..L /\ L \in 1..L
    BY <1>1, <1>4
  <2>2. log1[k] <= log1[i] /\ log1[i] <= log1[L] /\ log1[i] \in Nat /\ log1[L] \in Nat
    BY <1>1, <1>5, <2>1
  <2> QED BY <1>4, <2>2
<1>6. ASSUME NEW i \in (M + 1)..L, i < k PROVE log1[i] < log1[L]
  <2>1. i \in 1..L /\ L \in 1..L
    BY <1>1
  <2>2. i \notin B
    BY <1>3, <1>4, <1>6
  <2>3. log1[i] <= log1[L] /\ log1[i] \in Nat /\ log1[L] \in Nat /\ log1[i] # log1[L]
    BY <1>1, <2>1, <2>2
  <2> QED BY <2>3
<1>7. B = k..L
  <2>1. ASSUME NEW i \in B PROVE i \in k..L
    BY <1>1, <1>3, <1>4
  <2>2. ASSUME NEW i \in k..L PROVE i \in B
    BY <1>1, <1>4, <1>5
  <2> QED BY <2>1, <2>2
<1>8. Cardinality(B) = L - k + 1
  <2>1. Cardinality(k..L) = L - k + 1
    BY <1>1, <1>4, FS_Interval
  <2> QED BY <1>7, <2>1
<1> QED BY <1>4, <1>5, <1>6, <1>8

\* The greatest line of an interval.
LEMMA MaxOfInterval ==
  ASSUME NEW a \in Nat, NEW b \in Nat, a < b
  PROVE  Max((a + 1)..b) = b
<1>1. b \in (a + 1)..b /\ \A y \in (a + 1)..b : b >= y
  OBVIOUS
<1>2. ASSUME NEW x \in (a + 1)..b, \A y \in (a + 1)..b : x >= y PROVE x = b
  BY <1>1, <1>2
<1> QED BY <1>1, <1>2 DEF Max

\* A round of the logs call keeps what is printed a prefix of each log.
LEMMA LogsKeepRank ==
  ASSUME PollInv, Logs, NEW r \in Ranks
  PROVE  /\ PrefixOf(r)' /\ LastOf(r)'
         /\ Shown(r)' = IF pod[r] = "gone" THEN Shown(r) ELSE Len(logs[r])
<1> DEFINE M == Shown(r)
           L == Len(logs[r])
<1>1. /\ logs[r] \in Seq(Nat) /\ L \in Nat /\ M \in Nat /\ M <= L /\ shown[r] \in Seq(Nat)
      /\ \A i \in 1..L : logs[r][i] \in Nat
      /\ \A i, j \in 1..L : i <= j => logs[r][i] <= logs[r][j]
      /\ \A i \in 1..M : shown[r][i] = i
  BY DEF PollInv, LogsAreSorted, PrefixOf, Shown
<1>a. M \in Nat /\ L \in Nat /\ M <= L
  BY <1>1
<1>2. LastOf(r) /\ PrefixOf(r)
  BY DEF PollInv
<1>3. /\ logs' = logs /\ shown'[r] = shown[r] \o InOrder(Fresh(r)) /\ seen'[r] = SeenAfter(r)
  BY DEF Logs, rankVars
<1>4. CASE Fresh(r) = {} /\ (pod[r] = "gone" \/ M = L)
  <2>1. InOrder({}) = <<>>
    <3>1. Cardinality({}) = 0
      BY FS_EmptySet
    <3> QED BY <3>1 DEF InOrder
  <2>2. shown'[r] = shown[r] /\ seen'[r] = seen[r]
    BY <1>1, <1>3, <1>4, <2>1 DEF SeenAfter
  <2> QED BY <1>2, <1>3, <1>4, <2>2 DEF PrefixOf, LastOf, Shown
<1>5. CASE pod[r] # "gone" /\ M < L /\ Fresh(r) = (M + 1)..L
  <2>1. InOrder(Fresh(r)) = [k \in 1..(L - M) |-> M + k]
    <3> HIDE DEF M, L
    <3>1. M \in Nat /\ L \in Nat /\ M <= L /\ Fresh(r) = (M + 1)..L
      BY <1>1, <1>5
    <3>2. InOrder((M + 1)..L) = [k \in 1..(L - M) |-> M + k]
      BY <3>1, IntervalInOrder
    <3> QED BY <3>1, <3>2, Zenon
  <2> DEFINE new == [k \in 1..(L - M) |-> M + k]
  <2>2. new \in Seq(Nat) /\ Len(new) = L - M /\ \A k \in 1..(L - M) : new[k] = M + k
    <3> DEFINE d == L - M
    <3>1. M \in Nat /\ d \in Nat
      BY <1>1, <1>5
    <3> HIDE DEF M, L, d
    <3>2. /\ [k \in 1..d |-> M + k] \in [1..d -> Nat]
      BY <3>1
    <3>3. [k \in 1..d |-> M + k] \in Seq(Nat) /\ Len([k \in 1..d |-> M + k]) = d
      BY <3>1, <3>2
    <3> QED BY <3>1, <3>3 DEF d
  <2>3. /\ shown'[r] \in Seq(Nat) /\ Len(shown'[r]) = L
        /\ \A i \in 1..M : shown'[r][i] = i
        /\ \A i \in (M + 1)..L : shown'[r][i] = i
    <3> HIDE DEF new
    <3>1. shown'[r] = shown[r] \o new /\ Len(shown[r]) = M
      BY <1>3, <2>1 DEF new, Shown
    <3> HIDE DEF M, L
    <3>2. shown'[r] \in Seq(Nat) /\ Len(shown'[r]) = Len(shown[r]) + Len(new)
      <4>1. /\ shown[r] \o new \in Seq(Nat) /\ Len(shown[r] \o new) = Len(shown[r]) + Len(new)
        BY <1>1, <2>2, ConcatProperties
      <4> QED BY <3>1, <4>1
    <3>3. \A i \in 1..M : shown'[r][i] = shown[r][i]
      BY <1>1, <2>2, <3>1, ConcatProperties
    <3>4. ASSUME NEW i \in (M + 1)..L PROVE shown'[r][i] = i
      <4>1. i - M \in 1..(L - M) /\ i \in (M + 1)..(M + (L - M)) /\ M + (i - M) = i
        BY <1>1
      <4>2. shown'[r][i] = new[i - M]
        <5>1. Len(shown[r]) = M /\ Len(new) = L - M
          BY <2>2, <3>1
        <5>2. \A j \in Len(shown[r]) + 1 .. Len(shown[r]) + Len(new) : (shown[r] \o new)[j] = new[j - Len(shown[r])]
          BY <1>1, <2>2, ConcatProperties
        <5> QED BY <3>1, <4>1, <5>1, <5>2
      <4>3. new[i - M] = M + (i - M)
        BY <2>2, <4>1
      <4> QED BY <4>1, <4>2, <4>3
    <3>5. Len(shown'[r]) = L
      BY <1>1, <2>2, <3>1, <3>2
    <3> QED BY <1>1, <3>2, <3>3, <3>4, <3>5
  <2>4. Shown(r)' = L /\ PrefixOf(r)'
    <3>1. Shown(r)' = L
      BY <2>3 DEF Shown
    <3>2. \A i \in 1..L : shown'[r][i] = i
      <4> HIDE DEF M, L
      <4> QED BY <1>1, <2>3
    <3>3. Len(logs'[r]) = L
      BY <1>3
    <3> HIDE DEF L
    <3> QED BY <1>1, <2>3, <3>1, <3>2, <3>3 DEF PrefixOf
  <2>5. PICK k \in (M + 1)..L :
            /\ \A i \in (M + 1)..L : i >= k => logs[r][i] = logs[r][L]
            /\ \A i \in (M + 1)..L : i < k => logs[r][i] < logs[r][L]
            /\ Cardinality({i \in (M + 1)..L : logs[r][i] = logs[r][L]}) = L - k + 1
    BY <1>1, <1>5, LastBlock
  <2> DEFINE ts == logs[r][L]
  <2>6. Fresh(r) # {} /\ Max(Fresh(r)) = L
    BY <1>1, <1>5, MaxOfInterval
  <2>7. seen'[r] = [ts |-> ts, n |-> IF ts = seen[r].ts THEN seen[r].n + (L - k + 1) ELSE L - k + 1]
    <3> HIDE DEF M, L
    <3> QED BY <1>3, <1>5, <2>5, <2>6 DEF SeenAfter
  <2>8. LastOf(r)'
    <3> SUFFICES /\ seen'[r].n \in 1..L /\ seen'[r].ts = ts
                 /\ \A i \in 1..L : i > L - seen'[r].n => logs[r][i] = ts
                 /\ \A i \in 1..L : i <= L - seen'[r].n => logs[r][i] < ts
      BY <1>1, <1>3, <1>5, <2>4 DEF LastOf
    <3> HIDE DEF M, L
    <3>1. CASE M > 0 /\ ts = seen[r].ts
      <4>1. /\ seen[r].ts = logs[r][M] /\ seen[r].n \in 1..M
            /\ \A i \in 1..M : i > M - seen[r].n => logs[r][i] = ts
            /\ \A i \in 1..M : i <= M - seen[r].n => logs[r][i] < ts
        BY <1>1, <1>2, <3>1 DEF LastOf, M
      <4>2. k = M + 1
        <5>1. M \in 1..L /\ M + 1 \in 1..L /\ M + 1 \in (M + 1)..L
          BY <1>1, <1>5, <3>1
        <5>2. logs[r][M] <= logs[r][M + 1]
          BY <1>1, <5>1
        <5>3. M + 1 < k => logs[r][M + 1] < ts
          BY <2>5, <5>1
        <5>4. logs[r][M] = ts /\ logs[r][M] \in Nat /\ logs[r][M + 1] \in Nat
          BY <1>1, <3>1, <4>1, <5>1
        <5>5. ~(M + 1 < k)
          BY <5>2, <5>3, <5>4
        <5>6. k \in Int /\ k >= M + 1
          BY <1>a
        <5> QED BY <1>a, <5>5, <5>6
      <4>3. seen'[r].n = seen[r].n + (L - M) /\ seen'[r].ts = ts
        <5>1. seen'[r].n = seen[r].n + (L - k + 1) /\ seen'[r].ts = ts
          BY <2>7, <3>1
        <5>2. L - k + 1 = L - M
          BY <1>a, <4>2
        <5> QED BY <5>1, <5>2
      <4>4. L - seen'[r].n = M - seen[r].n /\ seen'[r].n \in 1..L
        <5>1. seen[r].n \in Nat /\ seen[r].n >= 1 /\ seen[r].n <= M
          BY <1>a, <4>1
        <5> QED BY <1>a, <4>3, <5>1
      <4>5. ASSUME NEW i \in 1..L, i > M - seen[r].n PROVE logs[r][i] = ts
        <5>1. CASE i <= M
          <6>1. i \in 1..M
            BY <1>a, <5>1
          <6> QED BY <4>1, <4>5, <6>1
        <5>2. CASE i > M
          <6>1. i \in (M + 1)..L /\ i >= k
            BY <1>a, <4>2, <5>2
          <6> QED BY <2>5, <6>1
        <5> QED BY <1>a, <5>1, <5>2
      <4>6. ASSUME NEW i \in 1..L, i <= M - seen[r].n PROVE logs[r][i] < ts
        <5>1. seen[r].n \in Nat /\ i \in 1..M
          BY <1>a, <4>1, <4>6
        <5> QED BY <4>1, <4>6, <5>1
      <4> QED BY <4>3, <4>4, <4>5, <4>6
    <3>2. CASE M = 0 \/ ts # seen[r].ts
      <4>1. seen'[r].n = L - k + 1 /\ seen'[r].ts = ts
        <5>1. M = 0 => seen[r].ts = None
          BY <1>2 DEF LastOf, M
        <5>2. ts \in Nat
          BY <1>1, <1>5
        <5>3. ts # seen[r].ts
          BY <3>2, <5>1, <5>2, PollNone
        <5> QED BY <2>7, <5>3
      <4>2. L - seen'[r].n = k - 1 /\ seen'[r].n \in 1..L
        <5>1. k \in Nat /\ k >= 1 /\ k <= L
          BY <1>a
        <5> QED BY <1>a, <4>1, <5>1
      <4>3. ASSUME NEW i \in 1..L, i > k - 1 PROVE logs[r][i] = ts
        <5>1. i \in (M + 1)..L /\ i >= k
          BY <1>a, <4>3
        <5> QED BY <2>5, <5>1
      <4>4. ASSUME NEW i \in 1..L, i <= k - 1 PROVE logs[r][i] < ts
        <5>1. CASE i > M
          <6>1. i \in (M + 1)..L /\ i < k
            BY <1>a, <4>4, <5>1
          <6> QED BY <2>5, <6>1
        <5>2. CASE i <= M
          <6>1. M > 0 /\ i \in 1..M /\ M \in 1..L /\ L \in 1..L
            BY <1>1, <1>5, <5>2
          <6>2. seen[r].ts = logs[r][M]
            BY <1>2, <6>1 DEF LastOf, M
          <6>3. logs[r][i] <= logs[r][M] /\ logs[r][M] <= ts
            BY <1>1, <5>2, <6>1
          <6>4. logs[r][i] \in Nat /\ logs[r][M] \in Nat /\ ts \in Nat /\ logs[r][M] # ts
            BY <1>1, <3>2, <6>1, <6>2
          <6> QED BY <6>3, <6>4
        <5> QED BY <1>a, <5>1, <5>2
      <4> QED BY <4>1, <4>2, <4>3, <4>4
    <3> QED BY <1>1, <3>1, <3>2
  <2> QED BY <1>5, <2>4, <2>8
<1>6. Fresh(r) = IF pod[r] = "gone" THEN {} ELSE (M + 1)..L
  BY FreshIsTheRest
<1> QED BY <1>1, <1>4, <1>5, <1>6

\* A round of the logs call.
LEMMA LogsKeepPoll ==
  ASSUME PollInv, Logs PROVE PollInv'
<1> USE DEF Logs, rankVars
<1>1. \A r \in Ranks : PrefixOf(r)' /\ LastOf(r)' /\ Shown(r)' = IF pod[r] = "gone" THEN Shown(r) ELSE Len(logs[r])
  BY LogsKeepRank
<1>2. PollFuncs' /\ LogsAreSorted'
  BY DEF PollInv, PollFuncs, LogsAreSorted
<1>3. NoPollPastADeath'
  BY DEF NoPollPastADeath, SomeoneDied
<1>4. ASSUME NEW r \in Ranks, r \in finished' PROVE \E i \in marked'[r] : i <= Shown(r)'
  <2>1. Shown(r) \in Nat /\ Shown(r) <= Len(logs[r]) /\ Len(logs[r]) \in Nat
    BY DEF PollInv, PrefixOf, LogsAreSorted, Shown
  <2>2. marked' = marked /\ marked[r] \subseteq 1..Len(logs[r])
    BY DEF PollInv, ThroughIsWhole
  <2>3. Shown(r) <= Shown(r)' /\ Shown(r)' \in Nat
    BY <1>1, <2>1
  <2>4. CASE r \in finished
    <3>1. PICK i \in marked[r] : i <= Shown(r)
      BY <2>4 DEF PollInv, ThroughIsWhole
    <3>2. i \in Nat
      BY <2>1, <2>2
    <3> QED BY <2>1, <2>2, <2>3, <3>1, <3>2
  <2>5. CASE r \notin finished
    <3>1. PICK i \in marked[r] : i \in Fresh(r)
      BY <1>4, <2>5 DEF FinishedAfter
    <3>2. pod[r] # "gone"
      BY <3>1 DEF Fresh, Served
    <3>3. Shown(r)' = Len(logs[r]) /\ i <= Len(logs[r])
      BY <1>1, <2>1, <2>2, <3>1, <3>2
    <3> QED BY <2>2, <3>1, <3>3
  <2> QED BY <2>4, <2>5
<1>5. ThroughIsWhole'
  <2>1. \A r \in Ranks : marked'[r] \subseteq 1..Len(logs'[r])
    BY DEF PollInv, ThroughIsWhole
  <2>2. pc' = "returned" => finished' = Ranks
    BY DEF AllFinished
  <2> QED BY <1>4, <2>1, <2>2 DEF ThroughIsWhole
<1> QED BY <1>1, <1>2, <1>3, <1>5 DEF PollInv

\* A pod appends to its log.
LEMMA PodWritesKeepsPoll ==
  ASSUME PollInv, NEW r \in Ranks, RankWrites(r) PROVE PollInv'
<1> USE DEF RankWrites, pollerVars, shownVars
<1>0. /\ marked' = [q \in Ranks |-> marked'[q]]
      /\ marked'[r] \in {marked[r], marked[r] \cup {Len(logs[r]) + 1}}
      /\ \A q \in Ranks : q # r => marked'[q] = marked[q]
  <2>1. marked = [q \in Ranks |-> marked[q]]
    BY DEF PollInv, PollFuncs
  <2>2. DOMAIN marked = Ranks
    BY <2>1
  <2>3. CASE marked' = marked
    BY <2>1, <2>3
  <2>4. CASE marked' = [marked EXCEPT ![r] = @ \cup {Len(logs[r]) + 1}]
    BY <2>2, <2>4
  <2> QED BY <2>3, <2>4
<1>1. PICK t \in LastTimeOf(r)..MaxTime : logs' = [logs EXCEPT ![r] = Append(@, t)]
  OBVIOUS
<1>2. logs[r] \in Seq(Nat) /\ Len(logs[r]) \in Nat
  BY DEF PollInv, LogsAreSorted
<1>3. t \in Nat /\ \A i \in 1..Len(logs[r]) : logs[r][i] <= t
  <2>1. LastTimeOf(r) \in Nat
    BY <1>2 DEF LastTimeOf
  <2>2. t \in Nat /\ LastTimeOf(r) <= t
    BY <2>1, LogAssumption
  <2>3. ASSUME NEW i \in 1..Len(logs[r]) PROVE logs[r][i] <= t
    <3>1. logs[r] # <<>> /\ LastTimeOf(r) = logs[r][Len(logs[r])]
      BY <1>2 DEF LastTimeOf
    <3>2. logs[r][i] <= logs[r][Len(logs[r])] /\ logs[r][i] \in Nat
      BY <1>2 DEF PollInv, LogsAreSorted
    <3> QED BY <2>1, <2>2, <3>1, <3>2
  <2> QED BY <2>2, <2>3
<1>4. /\ logs'[r] = Append(logs[r], t)
      /\ \A q \in Ranks : q # r => logs'[q] = logs[q]
      /\ logs' = [q \in Ranks |-> logs'[q]]
  <2>1. logs = [q \in Ranks |-> logs[q]]
    BY DEF PollInv, PollFuncs
  <2>2. DOMAIN logs = Ranks
    BY <2>1
  <2> QED BY <1>1, <2>2
<1>5. /\ logs'[r] \in Seq(Nat) /\ Len(logs'[r]) = Len(logs[r]) + 1
      /\ \A i \in 1..Len(logs[r]) : logs'[r][i] = logs[r][i]
      /\ logs'[r][Len(logs[r]) + 1] = t
  BY <1>2, <1>3, <1>4, AppendProperties
<1>6. LogsAreSorted'
  <2>1. ASSUME NEW i \in 1..Len(logs'[r]), NEW j \in 1..Len(logs'[r]), i <= j
        PROVE  logs'[r][i] <= logs'[r][j]
    <3>1. CASE j = Len(logs[r]) + 1
      <4>1. CASE i = j
        BY <1>3, <1>5, <3>1, <4>1
      <4>2. CASE i # j
        BY <1>2, <1>3, <1>5, <2>1, <3>1, <4>2
      <4> QED BY <4>1, <4>2
    <3>2. CASE j # Len(logs[r]) + 1
      <4>1. i \in 1..Len(logs[r]) /\ j \in 1..Len(logs[r])
        BY <1>2, <1>5, <2>1, <3>2
      <4> QED BY <1>5, <2>1, <4>1 DEF PollInv, LogsAreSorted
    <3> QED BY <3>1, <3>2
  <2> QED BY <1>4, <1>5, <2>1 DEF PollInv, LogsAreSorted
<1>7. ASSUME NEW q \in Ranks PROVE PrefixOf(q)' /\ LastOf(q)'
  <2>1. PrefixOf(q) /\ LastOf(q) /\ Shown(q)' = Shown(q)
    BY DEF PollInv, Shown
  <2>2. CASE q # r
    BY <1>4, <2>1, <2>2 DEF PrefixOf, LastOf
  <2>3. CASE q = r
    <3>1. Shown(r) \in Nat /\ Shown(r) <= Len(logs[r])
      BY <2>1, <2>3 DEF PrefixOf, Shown
    <3>2. \A i \in 1..Shown(r) : logs'[r][i] = logs[r][i]
      BY <1>2, <1>5, <3>1
    <3>3. PrefixOf(r)'
      BY <1>2, <1>5, <2>1, <2>3, <3>1 DEF PrefixOf
    <3>4. LastOf(r)'
      BY <2>1, <2>3, <3>1, <3>2 DEF LastOf
    <3> QED BY <2>3, <3>3, <3>4
  <2> QED BY <2>2, <2>3
<1>8. ThroughIsWhole'
  <2>1. \A q \in Ranks : marked[q] \subseteq 1..Len(logs[q])
    BY DEF PollInv, ThroughIsWhole
  <2>2. ASSUME NEW q \in Ranks PROVE marked'[q] \subseteq 1..Len(logs'[q]) /\ marked[q] \subseteq marked'[q]
    <3>1. CASE q # r
      BY <1>0, <1>4, <2>1, <3>1
    <3>2. CASE q = r
      <4>1. marked[r] \subseteq 1..Len(logs[r]) /\ Len(logs'[r]) = Len(logs[r]) + 1
        BY <1>5, <2>1
      <4>2. marked[r] \cup {Len(logs[r]) + 1} \subseteq 1..Len(logs[r]) + 1
        BY ONLY <1>2, <4>1
      <4>3. marked'[r] \subseteq 1..Len(logs[r]) + 1 /\ marked[r] \subseteq marked'[r]
        BY ONLY <1>0, <4>2
      <4>4. 1..Len(logs[r]) + 1 = 1..Len(logs'[r])
        BY ONLY <4>1
      <4> QED BY ONLY <3>2, <4>3, <4>4
    <3> QED BY <3>1, <3>2
  <2>3. ASSUME NEW q \in Ranks, q \in finished' PROVE \E i \in marked'[q] : i <= Shown(q)'
    <3>1. Shown(q)' = Shown(q) /\ \E i \in marked[q] : i <= Shown(q)
      BY <2>3 DEF PollInv, ThroughIsWhole, Shown
    <3> QED BY <2>2, <3>1
  <2> QED BY <2>2, <2>3 DEF PollInv, ThroughIsWhole
<1>9. PollFuncs'
  BY <1>0, <1>4 DEF PollInv, PollFuncs
<1> QED BY <1>6, <1>7, <1>8, <1>9 DEF PollInv, NoPollPastADeath

\* The other steps: pods that die, the status call, and a logs call that fails.
LEMMA OtherStepsKeepPoll ==
  ASSUME PollInv,
         \/ \E r \in Ranks : RankDies(r)
         \/ PollStatus \/ StatusLost \/ StatusRefused \/ LogsFail \/ UNCHANGED pollVars
  PROVE  PollInv'
<1>1. logs' = logs /\ marked' = marked /\ seen' = seen /\ shown' = shown /\ finished' = finished
  BY DEF RankDies, PollStatus, StatusLost, StatusRefused, LogsFail, pollVars,
         rankVars, shownVars, pollerVars
<1>2. PollFuncs' /\ LogsAreSorted' /\ \A r \in Ranks : PrefixOf(r)' /\ LastOf(r)'
  BY <1>1 DEF PollInv, PollFuncs, LogsAreSorted, PrefixOf, LastOf, Shown
<1>3. pc' = "returned" => pc = "returned"
  BY DEF RankDies, PollStatus, StatusLost, StatusRefused, LogsFail, pollVars,
         rankVars, shownVars, pollerVars, PollLost
<1>4. ThroughIsWhole'
  BY <1>1, <1>3 DEF PollInv, ThroughIsWhole, Shown
<1>5. NoPollPastADeath'
  <2>1. pc' = "status" => items' = items /\ \A r \in Ranks : items[r] = "up"
    BY DEF PollInv, NoPollPastADeath, RankDies, PollStatus, StatusLost, StatusRefused,
           LogsFail, pollVars, rankVars, shownVars, pollerVars, PollLost, SomeoneDied
  <2> QED BY <2>1 DEF NoPollPastADeath
<1> QED BY <1>2, <1>4, <1>5 DEF PollInv

\* The invariant of polling.
LEMMA PollInvariant == PollSpec => []PollInv
<1>1. PollInv /\ [PollNext]_pollVars => PollInv'
  <2> SUFFICES ASSUME PollInv, [PollNext]_pollVars PROVE PollInv'
    OBVIOUS
  <2>1. CASE \E r \in Ranks : RankWrites(r)
    BY <2>1, PodWritesKeepsPoll
  <2>2. CASE Logs
    BY <2>2, LogsKeepPoll
  <2>3. CASE \/ \E r \in Ranks : RankDies(r)
             \/ PollStatus \/ StatusLost \/ StatusRefused \/ LogsFail \/ UNCHANGED pollVars
    BY <2>3, OtherStepsKeepPoll
  <2> QED BY <2>1, <2>2, <2>3 DEF PollNext
<1> QED BY <1>1, PollInvInit, PTL DEF PollSpec

\* Every rank's log is printed line for line, although one since-time serves all
\* ranks, and to its end when _poll_ranks returns, unless a step of the rank prints
\* a line that starts with FINISHED (backend._poll_ranks).
THEOREM LogsAreWhole == PollSpec => []WholeLogs
<1>1. PollInv => WholeLogs
  <2> SUFFICES ASSUME PollInv PROVE WholeLogs
    OBVIOUS
  <2>1. EveryLineOfEach
    BY DEF PollInv, PrefixOf, Shown, EveryLineOfEach
  <2>2. ReturnsAtEveryEnd
    <3> SUFFICES ASSUME pc = "returned", NEW r \in Ranks
                 PROVE  /\ \E i \in marked[r] : i <= Shown(r)
                        /\ LookalikesOf(r) = {} => r \in done /\ Shown(r) = Len(logs[r])
      BY DEF ReturnsAtEveryEnd, Shown
    <3>1. PICK i \in marked[r] : i <= Shown(r)
      BY DEF PollInv, ThroughIsWhole
    <3>2. Shown(r) \in Nat /\ Shown(r) <= Len(logs[r]) /\ Len(logs[r]) \in Nat
      BY DEF PollInv, PrefixOf, LogsAreSorted, Shown
    <3>3. LookalikesOf(r) = {} => r \in done /\ i = Len(logs[r])
      BY <3>1 DEF LookalikesOf
    <3> QED BY <3>1, <3>2, <3>3
  <2> QED BY <2>1, <2>2 DEF WholeLogs
<1> QED BY <1>1, PollInvariant, PTL

\* The loop does not go round again after a status that showed a rank dead or missing.
THEOREM DeathEndsThePolls == PollSpec => []NoPollPastADeath
<1>1. PollInv => NoPollPastADeath
  BY DEF PollInv
<1> QED BY <1>1, PollInvariant, PTL
=============================================================================
