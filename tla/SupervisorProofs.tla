------------------------- MODULE SupervisorProofs -------------------------
(***************************************************************************)
(* Proofs about Supervisor, for every plan and every set of exit codes.     *)
(***************************************************************************)
EXTENDS Supervisor, TLAPS

Busy == {"fork", "live", "rest"}
Looping == {"loop", "fork", "wait", "check"}

\* Before the code is there nothing has started and no marker of the watchdog exists.
BeforeTheCode ==
    pc \in {"code_wait", "code_time"} =>
       /\ wd = "off" /\ "timed-out" \notin files
       /\ \A k \in Steps : grp[k] = "none" /\ sig[k] = "none"
       /\ cur = 1 /\ running = None /\ sh.steps = <<>> /\ disk.steps = <<>>
       /\ sh.exit = 0

\* Who signals leaves a trace first: the marker, or the shell being in the trap.
MarkerBeforeSignal ==
    /\ wd \in {"fired", "grace", "kill"} => "timed-out" \in files
    /\ \A k \in Steps : sig[k] # "none" => "timed-out" \in files \/ InTrap \/ pc = "exited"

\* A scored step's group is gone, and nobody ever signalled it.
ScoredIsOver ==
    \A j \in DOMAIN sh.steps :
       sh.steps[j].result \in {"ok", "failed"} =>
          grp[sh.steps[j].name] = "over" /\ sig[sh.steps[j].name] = "none"

\* steps.json is never ahead of the shell.
DiskIsPrefix ==
    /\ Len(disk.steps) <= Len(sh.steps)
    /\ \A j \in DOMAIN disk.steps : disk.steps[j] = sh.steps[j]

\* Only the step the loop waits for has processes.
OnlyTheCurrent ==
    \A k \in Steps :
       grp[k] \in Busy => k = cur /\ (pc = "wait" \/ InTrap \/ pc = "exited")

InLoop ==
    /\ pc \in {"fork", "wait", "check"} => cur \in Steps
    /\ pc = "check" => grp[cur] = "over" /\ rc \in Codes
    /\ pc \in Looping => sh.state = "running" /\ sh.exit = 0 /\ Len(sh.steps) = cur - 1
    /\ pc \in Looping => \A j \in DOMAIN sh.steps : sh.steps[j].name = j /\ ~Failing(sh.steps[j])
    /\ pc = "wait" /\ grp[cur] \in {"rest", "over"} => rc \in Codes
    /\ pc \in {"term_stop", "term_grace", "term_kill", "term_entry"} => running # None

\* Past the loop, an exit code of 0 was earned.
AfterLoop ==
    pc \in {"finish", "say", "collect", "join"} /\ sh.exit = 0 =>
       /\ Names(sh.steps) = Planned
       /\ \A j \in DOMAIN sh.steps : ~Failing(sh.steps[j])

IndInv ==
    /\ TypeOK
    /\ BeforeTheCode
    /\ MarkerBeforeSignal
    /\ ScoredIsOver
    /\ DiskIsPrefix
    /\ OnlyTheCurrent
    /\ InLoop
    /\ AfterLoop
    /\ DoneIsEarned





\* Records of the shell's variables, and what appending an entry does to them.
LEMMA DocumentType ==
    ASSUME NEW a \in States, NEW b \in CodeWaits, NEW c \in Codes \cup {3}, NEW d \in Seq(Entries)
    PROVE  [state |-> a, code_wait |-> b, exit |-> c, steps |-> d] \in Documents
  BY DEF Documents

\* The fields of what write_steps prints.
LEMMA DocumentFields ==
    ASSUME NEW s \in Documents
    PROVE  /\ s.state \in States /\ s.code_wait \in CodeWaits /\ s.exit \in Codes \cup {3}
           /\ s.steps \in Seq(Entries)
           /\ s = [state |-> s.state, code_wait |-> s.code_wait, exit |-> s.exit, steps |-> s.steps]
           /\ Document(s) = s
  BY DEF Documents, Document

\* One step of the steps.json.
LEMMA EntryType ==
    ASSUME NEW k \in Steps, NEW c \in Codes, NEW r \in Results
    PROVE  /\ Entry(k, Plan[k], c, r) \in Entries
           /\ Entry(k, Plan[k], c, r).name = k
           /\ Entry(k, Plan[k], c, r).kind = Plan[k]
           /\ Entry(k, Plan[k], c, r).code = c
           /\ Entry(k, Plan[k], c, r).result = r
  BY PlanAssumption DEF Entry, Entries, Steps

\* What a sequence has after one more entry.
LEMMA AppendFacts ==
    ASSUME NEW q \in Seq(Entries), NEW e \in Entries
    PROVE  /\ Append(q, e) \in Seq(Entries)
           /\ Len(Append(q, e)) = Len(q) + 1
           /\ \A j \in DOMAIN q : Append(q, e)[j] = q[j]
           /\ Append(q, e)[Len(q) + 1] = e
           /\ DOMAIN Append(q, e) = 1..(Len(q) + 1)
           /\ DOMAIN q = 1..Len(q)
  OBVIOUS

\* The first state satisfies the inductive invariant.
LEMMA InitInv == Init => IndInv
  <1> SUFFICES ASSUME Init PROVE IndInv
    OBVIOUS
  <1> USE PlanAssumption, CodesAssumption
  <1>0. 0 \in Codes \cup {3} /\ "waiting" \in States /\ "pending" \in CodeWaits
    BY DEF States, CodeWaits
  <1>1. sh \in Documents /\ disk \in Documents
    BY <1>0 DEF Init, Document, Documents
  <1>2. cur \in 1..(Len(Plan) + 1) /\ grp \in [Steps -> GroupStates]
    BY DEF Init, GroupStates
  <1>3. sig \in [Steps -> {"none", "TERM", "KILL"}]
    BY DEF Init
  <1>4. TypeOK
    BY <1>1, <1>2, <1>3 DEF Init, TypeOK, MainPcs, Steps, GroupStates, None, NoCode
  <1>5. BeforeTheCode /\ MarkerBeforeSignal /\ ScoredIsOver /\ DiskIsPrefix /\ OnlyTheCurrent
    BY DEF Init, BeforeTheCode, MarkerBeforeSignal, ScoredIsOver, DiskIsPrefix, OnlyTheCurrent,
           Document, InTrap, Busy, None
  <1>6. InLoop /\ AfterLoop /\ DoneIsEarned
    BY DEF Init, InLoop, AfterLoop, DoneIsEarned, Document, Looping
  <1> QED
    BY <1>4, <1>5, <1>6 DEF IndInv

\* The steps of the markers the CLI touches keep the invariant.
LEMMA CliSteps == IndInv /\ Cli => IndInv'
  <1> SUFFICES ASSUME IndInv, Cli PROVE IndInv'
    OBVIOUS
  <1> USE PlanAssumption, CodesAssumption
  <1> USE DEF IndInv, TypeOK, BeforeTheCode, MarkerBeforeSignal, ScoredIsOver, DiskIsPrefix, OnlyTheCurrent,
          InLoop, AfterLoop, DoneIsEarned, vars, main, step, Up, InTrap, None, NoCode, Steps, Busy, Looping, MainPcs, Markers, GroupStates
  <1>1. CASE MarkReady
    BY <1>1, SMT DEF MarkReady
  <1>2. CASE MarkCollected
    BY <1>2, SMT DEF MarkCollected
  <1> QED
    BY <1>1, <1>2 DEF Cli

\* The steps of the watchdog keep the invariant.
LEMMA WatchdogSteps == IndInv /\ Watchdog => IndInv'
  <1> SUFFICES ASSUME IndInv, Watchdog PROVE IndInv'
    OBVIOUS
  <1> USE PlanAssumption, CodesAssumption
  <1> USE DEF IndInv, TypeOK, BeforeTheCode, MarkerBeforeSignal, ScoredIsOver, DiskIsPrefix, OnlyTheCurrent,
          InLoop, AfterLoop, DoneIsEarned, vars, main, step, Up, InTrap, None, NoCode, Steps, Busy, Looping, MainPcs, Markers, GroupStates
  <1>1. CASE WatchdogStops
    BY <1>1, SMT DEF WatchdogStops
  <1>2. CASE WatchdogFires
    BY <1>2, SMT DEF WatchdogFires
  <1>3. CASE WatchdogTerm
    BY <1>3, SMT DEF WatchdogTerm, KillGroup, GroupAlive, KillAllDone
  <1>4. CASE WatchdogGraceOver
    BY <1>4, SMT DEF WatchdogGraceOver
  <1>5. CASE WatchdogKill
    BY <1>5, SMT DEF WatchdogKill, KillGroup, GroupAlive, KillAllDone
  <1>6. CASE WatchdogGone
    BY <1>6, SMT DEF WatchdogGone
  <1> QED
    BY <1>1, <1>2, <1>3, <1>4, <1>5, <1>6 DEF Watchdog

\* The steps of the step's processes keep the invariant.
LEMMA ProcessSteps == IndInv /\ Process => IndInv'
  <1> SUFFICES ASSUME IndInv, Process PROVE IndInv'
    OBVIOUS
  <1> USE PlanAssumption, CodesAssumption
  <1> USE DEF IndInv, TypeOK, BeforeTheCode, MarkerBeforeSignal, ScoredIsOver, DiskIsPrefix, OnlyTheCurrent,
          InLoop, AfterLoop, DoneIsEarned, vars, main, step, Up, InTrap, None, NoCode, Steps, Busy, Looping, MainPcs, Markers, GroupStates
  <1>1. CASE StepCdFails
    BY <1>1, SMT DEF StepCdFails
  <1>2. CASE StepStarts
    BY <1>2, SMT DEF StepStarts
  <1>3. CASE StepEnds
    BY <1>3, SMT DEF StepEnds
  <1>4. CASE StepKilled
    BY <1>4, SMT DEF StepKilled
  <1>5. CASE StepReaped
    BY <1>5, SMT DEF StepReaped
  <1> QED
    BY <1>1, <1>2, <1>3, <1>4, <1>5 DEF Process

\* The shell's and the trap's steps that leave sh and disk alone.
Control ==
    \/ CodeNotThere \/ CodeNap \/ StepBegin \/ PlanRead \/ StepFork \/ WaitReturns
    \/ SayFinished \/ Collected \/ CollectWindowEnds \/ Exit
    \/ OnTerm \/ TermSignal \/ TermGraceOver \/ TermKill \/ TermKilled

\* The steps of the shell that only move its control keep the invariant.
LEMMA ControlSteps == IndInv /\ Control => IndInv'
  <1> SUFFICES ASSUME IndInv, Control PROVE IndInv'
    OBVIOUS
  <1> USE PlanAssumption, CodesAssumption
  <1> USE DEF IndInv, TypeOK, BeforeTheCode, MarkerBeforeSignal, ScoredIsOver, DiskIsPrefix, OnlyTheCurrent,
          InLoop, AfterLoop, DoneIsEarned, vars, main, step, Up, InTrap, None, NoCode, Steps, Busy, Looping, MainPcs, Markers, GroupStates
  <1>1. CASE CodeNotThere
    BY <1>1, SMT DEF CodeNotThere
  <1>2. CASE CodeNap
    BY <1>2, SMT DEF CodeNap
  <1>3. CASE StepBegin
    BY <1>3, SMT DEF StepBegin
  <1>4. CASE PlanRead
    BY <1>4, SMT DEF PlanRead, Names, Planned
  <1>5. CASE StepFork
    BY <1>5, SMT DEF StepFork
  <1>6. CASE WaitReturns
    BY <1>6, SMT DEF WaitReturns
  <1>7. CASE SayFinished
    BY <1>7, SMT DEF SayFinished
  <1>8. CASE Collected
    BY <1>8, SMT DEF Collected
  <1>9. CASE CollectWindowEnds
    BY <1>9, SMT DEF CollectWindowEnds
  <1>10. CASE Exit
    BY <1>10, SMT DEF Exit
  <1>11. CASE OnTerm
    BY <1>11, SMT DEF OnTerm
  <1>12. CASE TermSignal
    BY <1>12, SMT DEF TermSignal, KillGroup, GroupAlive, KillAllDone
  <1>13. CASE TermGraceOver
    BY <1>13, SMT DEF TermGraceOver
  <1>14. CASE TermKill
    BY <1>14, SMT DEF TermKill, KillGroup, GroupAlive, KillAllDone
  <1>15. CASE TermKilled
    BY <1>15, SMT DEF TermKilled
  <1> QED
    BY <1>1, <1>2, <1>3, <1>4, <1>5, <1>6, <1>7, <1>8, <1>9, <1>10, <1>11, <1>12, <1>13, <1>14, <1>15 DEF Control

\* The steps that change the shell's variables or steps.json keep the invariant:
\* for each, first the new records, then the conjuncts they can disturb.
LEMMA RecordSteps ==
    ASSUME IndInv,
           CodeArrived \/ CodeWaitTimeout \/ UnknownKind \/ StepTimedOut \/ StepRecorded
             \/ Finish \/ TermEntry \/ TermWrite
    PROVE  IndInv'
  <1> USE PlanAssumption, CodesAssumption
  <1> USE DEF IndInv, vars, main, step, Up, InTrap, None, NoCode, Steps, Busy, Looping
  <1>0. /\ disk \in Documents /\ sh.state \in States /\ sh.code_wait \in CodeWaits /\ sh.exit \in Codes \cup {3}
        /\ sh.steps \in Seq(Entries) /\ disk.steps \in Seq(Entries)
        /\ sh = [state |-> sh.state, code_wait |-> sh.code_wait, exit |-> sh.exit, steps |-> sh.steps]
    BY DocumentFields DEF TypeOK
  <1>1. CASE CodeArrived
    <2>1. sh' = [state |-> "running", code_wait |-> "ok",
                 exit |-> sh.exit, steps |-> sh.steps]
      BY <1>1, <1>0 DEF CodeArrived
    <2>2. disk' = sh'
      BY <1>1, <1>0, <2>1 DEF CodeArrived, Document
    <2>3. /\ sh'.state = "running" /\ sh'.exit = sh.exit /\ sh'.steps = sh.steps
          /\ disk'.steps = sh.steps /\ disk'.exit = sh.exit /\ disk'.state = "running"
      BY ONLY <2>1, <2>2
    <2>4. "running" \in States /\ "ok" \in CodeWaits /\ sh.exit \in Codes \cup {3}
          /\ sh.steps \in Seq(Entries)
      BY <1>1, <1>0 DEF CodeArrived, States, CodeWaits, StopCode, InLoop
    <2>5. sh' \in Documents /\ disk' \in Documents
      BY ONLY <1>0, <2>1, <2>2, <2>4, DocumentType
    <2>6. TypeOK'
      BY <1>1, <2>5 DEF CodeArrived, TypeOK, MainPcs, Markers, InLoop
    <2>7. BeforeTheCode' /\ MarkerBeforeSignal' /\ OnlyTheCurrent'
      BY <1>1 DEF CodeArrived, TypeOK, BeforeTheCode, MarkerBeforeSignal, OnlyTheCurrent, InLoop
    <2>8. ScoredIsOver'
      BY <1>1, <1>0, <2>3 DEF CodeArrived, TypeOK, ScoredIsOver, InLoop, MarkerBeforeSignal, BeforeTheCode
    <2>9. DiskIsPrefix'
      BY <1>1, <1>0, <2>2, <2>3 DEF CodeArrived, DiskIsPrefix, BeforeTheCode
    <2>10. InLoop'
      BY <1>1, <1>0, <2>3 DEF CodeArrived, TypeOK, InLoop, BeforeTheCode, Failing, GoesOn
    <2>11. AfterLoop'
      BY <1>1, <1>0, <2>3 DEF CodeArrived, TypeOK, AfterLoop, InLoop, Names, Planned, StopCode, GoesOn, Failing
    <2>12. DoneIsEarned'
      BY <1>1, <1>0, <2>2, <2>3 DEF CodeArrived, TypeOK, AfterLoop, DoneIsEarned, InLoop
    <2> QED
      BY <2>6, <2>7, <2>8, <2>9, <2>10, <2>11, <2>12
  <1>2. CASE CodeWaitTimeout
    <2>1. sh' = [state |-> "code_wait_timeout", code_wait |-> "timeout",
                 exit |-> 3, steps |-> sh.steps]
      BY <1>2, <1>0 DEF CodeWaitTimeout
    <2>2. disk' = sh'
      BY <1>2, <1>0, <2>1 DEF CodeWaitTimeout, Document
    <2>3. /\ sh'.state = "code_wait_timeout" /\ sh'.exit = 3 /\ sh'.steps = sh.steps
          /\ disk'.steps = sh.steps /\ disk'.exit = 3 /\ disk'.state = "code_wait_timeout"
      BY ONLY <2>1, <2>2
    <2>4. "code_wait_timeout" \in States /\ "timeout" \in CodeWaits /\ 3 \in Codes \cup {3}
          /\ sh.steps \in Seq(Entries)
      BY <1>2, <1>0 DEF CodeWaitTimeout, States, CodeWaits, StopCode, InLoop
    <2>5. sh' \in Documents /\ disk' \in Documents
      BY ONLY <1>0, <2>1, <2>2, <2>4, DocumentType
    <2>6. TypeOK'
      BY <1>2, <2>5 DEF CodeWaitTimeout, TypeOK, MainPcs, Markers, InLoop
    <2>7. BeforeTheCode' /\ MarkerBeforeSignal' /\ OnlyTheCurrent'
      BY <1>2 DEF CodeWaitTimeout, TypeOK, BeforeTheCode, MarkerBeforeSignal, OnlyTheCurrent, InLoop
    <2>8. ScoredIsOver'
      BY <1>2, <1>0, <2>3 DEF CodeWaitTimeout, TypeOK, ScoredIsOver, InLoop, MarkerBeforeSignal, BeforeTheCode
    <2>9. DiskIsPrefix'
      BY <1>2, <1>0, <2>2, <2>3 DEF CodeWaitTimeout, DiskIsPrefix, BeforeTheCode
    <2>10. InLoop'
      BY <1>2, <1>0, <2>3 DEF CodeWaitTimeout, TypeOK, InLoop, BeforeTheCode, Failing, GoesOn
    <2>11. AfterLoop'
      BY <1>2, <1>0, <2>3 DEF CodeWaitTimeout, TypeOK, AfterLoop, InLoop, Names, Planned, StopCode, GoesOn, Failing
    <2>12. DoneIsEarned'
      BY <1>2, <1>0, <2>2, <2>3 DEF CodeWaitTimeout, TypeOK, AfterLoop, DoneIsEarned, InLoop
    <2> QED
      BY <2>6, <2>7, <2>8, <2>9, <2>10, <2>11, <2>12
  <1>3. CASE UnknownKind
    <2>1. sh' = [state |-> sh.state, code_wait |-> sh.code_wait,
                 exit |-> 3, steps |-> sh.steps]
      BY <1>3, <1>0 DEF UnknownKind
    <2>2. disk' = disk
      BY <1>3, <1>0, <2>1 DEF UnknownKind, Document
    <2>3. /\ sh'.state = sh.state /\ sh'.exit = 3 /\ sh'.steps = sh.steps
      BY ONLY <2>1, <2>2
    <2>4. sh.state \in States /\ sh.code_wait \in CodeWaits /\ 3 \in Codes \cup {3}
          /\ sh.steps \in Seq(Entries)
      BY <1>3, <1>0 DEF UnknownKind, States, CodeWaits, StopCode, InLoop
    <2>5. sh' \in Documents /\ disk' \in Documents
      BY ONLY <1>0, <2>1, <2>2, <2>4, DocumentType
    <2>6. TypeOK'
      BY <1>3, <2>5 DEF UnknownKind, TypeOK, MainPcs, Markers, InLoop
    <2>7. BeforeTheCode' /\ MarkerBeforeSignal' /\ OnlyTheCurrent'
      BY <1>3 DEF UnknownKind, TypeOK, BeforeTheCode, MarkerBeforeSignal, OnlyTheCurrent, InLoop
    <2>8. ScoredIsOver'
      BY <1>3, <1>0, <2>3 DEF UnknownKind, TypeOK, ScoredIsOver, InLoop, MarkerBeforeSignal, BeforeTheCode
    <2>9. DiskIsPrefix'
      BY <1>3, <1>0, <2>2, <2>3 DEF UnknownKind, DiskIsPrefix, BeforeTheCode
    <2>10. InLoop'
      BY <1>3, <1>0, <2>3 DEF UnknownKind, TypeOK, InLoop, BeforeTheCode, Failing, GoesOn
    <2>11. AfterLoop'
      BY <1>3, <1>0, <2>3 DEF UnknownKind, TypeOK, AfterLoop, InLoop, Names, Planned, StopCode, GoesOn, Failing
    <2>12. DoneIsEarned'
      BY <1>3, <1>0, <2>2, <2>3 DEF UnknownKind, TypeOK, AfterLoop, DoneIsEarned, InLoop
    <2> QED
      BY <2>6, <2>7, <2>8, <2>9, <2>10, <2>11, <2>12
  <1>4. CASE StepTimedOut
    <2>t. cur \in Steps /\ rc \in Codes /\ "timeout" \in Results
      BY <1>4, <1>0 DEF StepTimedOut, TypeOK, InLoop, Results
    <2> DEFINE e == Entry(cur, Plan[cur], rc, "timeout")
    <2>e. e \in Entries /\ e.name = cur /\ e.kind = Plan[cur] /\ e.code = rc /\ e.result = "timeout"
      BY <2>t, EntryType
    <2> HIDE DEF e
    <2>0. /\ e \in Entries /\ e.name = cur /\ e.kind = Plan[cur] /\ e.code = rc /\ e.result = "timeout"
          /\ Append(sh.steps, e) \in Seq(Entries)
          /\ Len(Append(sh.steps, e)) = Len(sh.steps) + 1
          /\ \A j \in DOMAIN sh.steps : Append(sh.steps, e)[j] = sh.steps[j]
          /\ Append(sh.steps, e)[Len(sh.steps) + 1] = e
          /\ DOMAIN Append(sh.steps, e) = 1..(Len(sh.steps) + 1)
          /\ DOMAIN sh.steps = 1..Len(sh.steps)
      BY <1>4, <1>0, <2>e, AppendFacts
    <2>1. sh' = [state |-> "timeout", code_wait |-> sh.code_wait,
                 exit |-> 3, steps |-> Append(sh.steps, e)]
      BY <1>4, <1>0 DEF StepTimedOut, e
    <2>2. disk' = disk
      BY <1>4, <1>0, <2>1 DEF StepTimedOut, Document, e
    <2>3. /\ sh'.state = "timeout" /\ sh'.exit = 3 /\ sh'.steps = Append(sh.steps, e)
      BY ONLY <2>1, <2>2
    <2>4. "timeout" \in States /\ sh.code_wait \in CodeWaits /\ 3 \in Codes \cup {3}
          /\ Append(sh.steps, e) \in Seq(Entries)
      BY <1>4, <1>0, <2>0 DEF StepTimedOut, States, CodeWaits, StopCode, InLoop
    <2>5. sh' \in Documents /\ disk' \in Documents
      BY ONLY <1>0, <2>1, <2>2, <2>4, DocumentType
    <2>6. TypeOK'
      BY <1>4, <2>5 DEF StepTimedOut, TypeOK, MainPcs, Markers, InLoop
    <2>7. BeforeTheCode' /\ MarkerBeforeSignal' /\ OnlyTheCurrent'
      BY <1>4 DEF StepTimedOut, TypeOK, BeforeTheCode, MarkerBeforeSignal, OnlyTheCurrent, InLoop
    <2>8. ScoredIsOver'
      <3>1. grp' = grp /\ sig' = sig
        BY <1>4 DEF StepTimedOut
      <3> QED
        BY <1>0, <2>0, <2>3, <3>1 DEF ScoredIsOver
    <2>9. DiskIsPrefix'
      BY <1>4, <1>0, <2>2, <2>3, <2>0 DEF StepTimedOut, DiskIsPrefix, BeforeTheCode
    <2>10. InLoop'
      BY <1>4, <1>0, <2>3, <2>0 DEF StepTimedOut, TypeOK, InLoop, BeforeTheCode, Failing, GoesOn
    <2>11. AfterLoop'
      BY <1>4, <1>0, <2>3, <2>0 DEF StepTimedOut, TypeOK, AfterLoop, InLoop, Names, Planned, StopCode, GoesOn, Failing
    <2>12. DoneIsEarned'
      BY <1>4, <1>0, <2>2, <2>3, <2>0 DEF StepTimedOut, TypeOK, AfterLoop, DoneIsEarned, InLoop
    <2> QED
      BY <2>6, <2>7, <2>8, <2>9, <2>10, <2>11, <2>12
  <1>5. CASE StepRecorded
    <2> DEFINE r == IF rc = 0 THEN "ok" ELSE "failed"
    <2>s. r = "ok" \/ r = "failed"
      BY DEF r
    <2> HIDE DEF r
    <2>t. cur \in Steps /\ rc \in Codes /\ r \in Results
      BY <1>5, <1>0, <2>s DEF StepRecorded, TypeOK, InLoop, Results
    <2> DEFINE e == Entry(cur, Plan[cur], rc, r)
    <2>e. e \in Entries /\ e.name = cur /\ e.kind = Plan[cur] /\ e.code = rc /\ e.result = r
      BY <2>t, EntryType
    <2> HIDE DEF e
    <2>0. /\ e \in Entries /\ e.name = cur /\ e.kind = Plan[cur] /\ e.code = rc /\ e.result = r
          /\ Append(sh.steps, e) \in Seq(Entries)
          /\ Len(Append(sh.steps, e)) = Len(sh.steps) + 1
          /\ \A j \in DOMAIN sh.steps : Append(sh.steps, e)[j] = sh.steps[j]
          /\ Append(sh.steps, e)[Len(sh.steps) + 1] = e
          /\ DOMAIN Append(sh.steps, e) = 1..(Len(sh.steps) + 1)
          /\ DOMAIN sh.steps = 1..Len(sh.steps)
      BY <1>5, <1>0, <2>e, AppendFacts
    <2>1. sh' = [state |-> sh.state, code_wait |-> sh.code_wait,
                 exit |-> IF GoesOn(Plan[cur], rc) THEN sh.exit ELSE StopCode(Plan[cur], rc), steps |-> Append(sh.steps, e)]
      BY <1>5, <1>0 DEF StepRecorded, e, r
    <2>2. disk' = [state |-> sh.state, code_wait |-> sh.code_wait, exit |-> sh.exit, steps |-> Append(sh.steps, e)]
      BY <1>5, <1>0, <2>1 DEF StepRecorded, Document, e, r
    <2>3. /\ sh'.state = sh.state /\ sh'.exit = (IF GoesOn(Plan[cur], rc) THEN sh.exit ELSE StopCode(Plan[cur], rc)) /\ sh'.steps = Append(sh.steps, e)
          /\ disk'.steps = Append(sh.steps, e) /\ disk'.exit = sh.exit /\ disk'.state = sh.state
      BY ONLY <2>1, <2>2
    <2>4. sh.state \in States /\ sh.code_wait \in CodeWaits /\ (IF GoesOn(Plan[cur], rc) THEN sh.exit ELSE StopCode(Plan[cur], rc)) \in Codes \cup {3}
          /\ Append(sh.steps, e) \in Seq(Entries)
      BY <1>5, <1>0, <2>0, <2>s DEF StepRecorded, States, CodeWaits, StopCode, InLoop
    <2>5. sh' \in Documents /\ disk' \in Documents
      BY ONLY <1>0, <2>1, <2>2, <2>4, DocumentType
    <2>6. TypeOK'
      BY <1>5, <2>5 DEF StepRecorded, TypeOK, MainPcs, Markers, InLoop
    <2>7. BeforeTheCode' /\ MarkerBeforeSignal' /\ OnlyTheCurrent'
      BY <1>5 DEF StepRecorded, TypeOK, BeforeTheCode, MarkerBeforeSignal, OnlyTheCurrent, InLoop
    <2>8. ScoredIsOver'
      <3>1. grp' = grp /\ sig' = sig
        BY <1>5 DEF StepRecorded
      <3>2. grp[cur] = "over" /\ sig[cur] = "none"
        BY <1>5 DEF StepRecorded, TypeOK, InLoop, MarkerBeforeSignal
      <3> QED
        BY <1>0, <2>0, <2>3, <3>1, <3>2 DEF ScoredIsOver
    <2>9. DiskIsPrefix'
      BY <1>0, <2>3, <2>0, <2>s DEF DiskIsPrefix
    <2>10. InLoop'
      BY <1>5, <1>0, <2>3, <2>0, <2>s DEF StepRecorded, TypeOK, InLoop, BeforeTheCode, Failing, GoesOn
    <2>11. AfterLoop'
      BY <1>5, <1>0, <2>3, <2>0, <2>s DEF StepRecorded, TypeOK, AfterLoop, InLoop, Names, Planned, StopCode, GoesOn, Failing
    <2>12. DoneIsEarned'
      BY <1>5, <1>0, <2>2, <2>3, <2>0, <2>s DEF StepRecorded, TypeOK, AfterLoop, DoneIsEarned, InLoop
    <2> QED
      BY <2>6, <2>7, <2>8, <2>9, <2>10, <2>11, <2>12
  <1>6. CASE Finish
    <2>1. sh' = [state |-> IF sh.state = "running" THEN "done" ELSE sh.state, code_wait |-> sh.code_wait,
                 exit |-> sh.exit, steps |-> sh.steps]
      BY <1>6, <1>0 DEF Finish
    <2>2. disk' = sh'
      BY <1>6, <1>0, <2>1 DEF Finish, Document
    <2>3. /\ sh'.state = (IF sh.state = "running" THEN "done" ELSE sh.state) /\ sh'.exit = sh.exit /\ sh'.steps = sh.steps
          /\ disk'.steps = sh.steps /\ disk'.exit = sh.exit /\ disk'.state = IF sh.state = "running" THEN "done" ELSE sh.state
      BY ONLY <2>1, <2>2
    <2>4. (IF sh.state = "running" THEN "done" ELSE sh.state) \in States /\ sh.code_wait \in CodeWaits /\ sh.exit \in Codes \cup {3}
          /\ sh.steps \in Seq(Entries)
      BY <1>6, <1>0 DEF Finish, States, CodeWaits, StopCode, InLoop
    <2>5. sh' \in Documents /\ disk' \in Documents
      BY ONLY <1>0, <2>1, <2>2, <2>4, DocumentType
    <2>6. TypeOK'
      BY <1>6, <2>5 DEF Finish, TypeOK, MainPcs, Markers, InLoop
    <2>7. BeforeTheCode' /\ MarkerBeforeSignal' /\ OnlyTheCurrent'
      BY <1>6 DEF Finish, TypeOK, BeforeTheCode, MarkerBeforeSignal, OnlyTheCurrent, InLoop
    <2>8. ScoredIsOver'
      BY <1>6, <1>0, <2>3 DEF Finish, TypeOK, ScoredIsOver, InLoop, MarkerBeforeSignal, BeforeTheCode
    <2>9. DiskIsPrefix'
      BY <1>6, <1>0, <2>2, <2>3 DEF Finish, DiskIsPrefix, BeforeTheCode
    <2>10. InLoop'
      BY <1>6, <1>0, <2>3 DEF Finish, TypeOK, InLoop, BeforeTheCode, Failing, GoesOn
    <2>11. AfterLoop'
      BY <1>6, <1>0, <2>3 DEF Finish, TypeOK, AfterLoop, InLoop, Names, Planned, StopCode, GoesOn, Failing
    <2>12. DoneIsEarned'
      BY <1>6, <1>0, <2>2, <2>3 DEF Finish, TypeOK, AfterLoop, DoneIsEarned, InLoop
    <2> QED
      BY <2>6, <2>7, <2>8, <2>9, <2>10, <2>11, <2>12
  <1>7. CASE TermEntry
    <2>t. running \in Steps /\ 143 \in Codes /\ "terminated" \in Results
      BY <1>7, <1>0 DEF TermEntry, TypeOK, InLoop, Results
    <2> DEFINE e == Entry(running, Plan[running], 143, "terminated")
    <2>e. e \in Entries /\ e.name = running /\ e.kind = Plan[running] /\ e.code = 143 /\ e.result = "terminated"
      BY <2>t, EntryType
    <2> HIDE DEF e
    <2>0. /\ e \in Entries /\ e.name = running /\ e.kind = Plan[running] /\ e.code = 143 /\ e.result = "terminated"
          /\ Append(sh.steps, e) \in Seq(Entries)
          /\ Len(Append(sh.steps, e)) = Len(sh.steps) + 1
          /\ \A j \in DOMAIN sh.steps : Append(sh.steps, e)[j] = sh.steps[j]
          /\ Append(sh.steps, e)[Len(sh.steps) + 1] = e
          /\ DOMAIN Append(sh.steps, e) = 1..(Len(sh.steps) + 1)
          /\ DOMAIN sh.steps = 1..Len(sh.steps)
      BY <1>7, <1>0, <2>e, AppendFacts
    <2>1. sh' = [state |-> sh.state, code_wait |-> sh.code_wait,
                 exit |-> sh.exit, steps |-> Append(sh.steps, e)]
      BY <1>7, <1>0 DEF TermEntry, e
    <2>2. disk' = disk
      BY <1>7, <1>0, <2>1 DEF TermEntry, Document, e
    <2>3. /\ sh'.state = sh.state /\ sh'.exit = sh.exit /\ sh'.steps = Append(sh.steps, e)
      BY ONLY <2>1, <2>2
    <2>4. sh.state \in States /\ sh.code_wait \in CodeWaits /\ sh.exit \in Codes \cup {3}
          /\ Append(sh.steps, e) \in Seq(Entries)
      BY <1>7, <1>0, <2>0 DEF TermEntry, States, CodeWaits, StopCode, InLoop
    <2>5. sh' \in Documents /\ disk' \in Documents
      BY ONLY <1>0, <2>1, <2>2, <2>4, DocumentType
    <2>6. TypeOK'
      BY <1>7, <2>5 DEF TermEntry, TypeOK, MainPcs, Markers, InLoop
    <2>7. BeforeTheCode' /\ MarkerBeforeSignal' /\ OnlyTheCurrent'
      BY <1>7 DEF TermEntry, TypeOK, BeforeTheCode, MarkerBeforeSignal, OnlyTheCurrent, InLoop
    <2>8. ScoredIsOver'
      <3>1. grp' = grp /\ sig' = sig
        BY <1>7 DEF TermEntry
      <3> QED
        BY <1>0, <2>0, <2>3, <3>1 DEF ScoredIsOver
    <2>9. DiskIsPrefix'
      BY <1>7, <1>0, <2>2, <2>3, <2>0 DEF TermEntry, DiskIsPrefix, BeforeTheCode
    <2>10. InLoop'
      BY <1>7, <1>0, <2>3, <2>0 DEF TermEntry, TypeOK, InLoop, BeforeTheCode, Failing, GoesOn
    <2>11. AfterLoop'
      BY <1>7, <1>0, <2>3, <2>0 DEF TermEntry, TypeOK, AfterLoop, InLoop, Names, Planned, StopCode, GoesOn, Failing
    <2>12. DoneIsEarned'
      BY <1>7, <1>0, <2>2, <2>3, <2>0 DEF TermEntry, TypeOK, AfterLoop, DoneIsEarned, InLoop
    <2> QED
      BY <2>6, <2>7, <2>8, <2>9, <2>10, <2>11, <2>12
  <1>8. CASE TermWrite
    <2>1. sh' = [state |-> "terminated", code_wait |-> sh.code_wait,
                 exit |-> 3, steps |-> sh.steps]
      BY <1>8, <1>0 DEF TermWrite
    <2>2. disk' = sh'
      BY <1>8, <1>0, <2>1 DEF TermWrite, Document
    <2>3. /\ sh'.state = "terminated" /\ sh'.exit = 3 /\ sh'.steps = sh.steps
          /\ disk'.steps = sh.steps /\ disk'.exit = 3 /\ disk'.state = "terminated"
      BY ONLY <2>1, <2>2
    <2>4. "terminated" \in States /\ sh.code_wait \in CodeWaits /\ 3 \in Codes \cup {3}
          /\ sh.steps \in Seq(Entries)
      BY <1>8, <1>0 DEF TermWrite, States, CodeWaits, StopCode, InLoop
    <2>5. sh' \in Documents /\ disk' \in Documents
      BY ONLY <1>0, <2>1, <2>2, <2>4, DocumentType
    <2>6. TypeOK'
      BY <1>8, <2>5 DEF TermWrite, TypeOK, MainPcs, Markers, InLoop
    <2>7. BeforeTheCode' /\ MarkerBeforeSignal' /\ OnlyTheCurrent'
      BY <1>8 DEF TermWrite, TypeOK, BeforeTheCode, MarkerBeforeSignal, OnlyTheCurrent, InLoop
    <2>8. ScoredIsOver'
      BY <1>8, <1>0, <2>3 DEF TermWrite, TypeOK, ScoredIsOver, InLoop, MarkerBeforeSignal, BeforeTheCode
    <2>9. DiskIsPrefix'
      BY <1>8, <1>0, <2>2, <2>3 DEF TermWrite, DiskIsPrefix, BeforeTheCode
    <2>10. InLoop'
      BY <1>8, <1>0, <2>3 DEF TermWrite, TypeOK, InLoop, BeforeTheCode, Failing, GoesOn
    <2>11. AfterLoop'
      BY <1>8, <1>0, <2>3 DEF TermWrite, TypeOK, AfterLoop, InLoop, Names, Planned, StopCode, GoesOn, Failing
    <2>12. DoneIsEarned'
      BY <1>8, <1>0, <2>2, <2>3 DEF TermWrite, TypeOK, AfterLoop, DoneIsEarned, InLoop
    <2> QED
      BY <2>6, <2>7, <2>8, <2>9, <2>10, <2>11, <2>12
  <1> QED
    BY <1>1, <1>2, <1>3, <1>4, <1>5, <1>6, <1>7, <1>8

\* Every step keeps the invariant.
LEMMA StepInv == IndInv /\ [Next]_vars => IndInv'
  <1> SUFFICES ASSUME IndInv, [Next]_vars PROVE IndInv'
    OBVIOUS
  <1>1. CASE UNCHANGED vars
    BY <1>1 DEF IndInv, TypeOK, BeforeTheCode, MarkerBeforeSignal, ScoredIsOver, DiskIsPrefix,
                OnlyTheCurrent, InLoop, AfterLoop, DoneIsEarned, vars, main, step, InTrap, Busy
  <1>2. CASE Next
    BY <1>1, <1>2, CliSteps, WatchdogSteps, ProcessSteps, ControlSteps, RecordSteps
       DEF Next, Shell, ShellMoves, Trap, TrapMoves, Control, Ended
  <1> QED
    BY <1>1, <1>2

\* The inductive invariant holds in every state.
THEOREM InvHolds == Spec => []IndInv
  <1>1. Init => IndInv
    BY InitInv
  <1>2. IndInv /\ [Next]_vars => IndInv'
    BY StepInv
  <1> QED
    BY <1>1, <1>2, PTL DEF Spec

\* Every variable keeps its type, for every plan (supervisor.sh).
THEOREM TypeCorrect == Spec => []TypeOK
  <1>1. IndInv => TypeOK
    BY DEF IndInv
  <1> QED
    BY <1>1, InvHolds, PTL

\* A signalled step is never scored: the watchdog leaves its marker before it
\* signals, the loop looks for the marker after the step has ended, and the
\* trap never returns to the loop (supervisor.sh:133, 159, 104).
THEOREM SignalledNeverScored == Spec => []SignalledIsNotScored
  <1>1. IndInv => SignalledIsNotScored
    <2> SUFFICES ASSUME IndInv, NEW j \in DOMAIN disk.steps, sig[disk.steps[j].name] # "none"
                 PROVE  disk.steps[j].result \in {"timeout", "terminated"}
      BY DEF SignalledIsNotScored
    <2>1. disk.steps \in Seq(Entries) /\ sh.steps \in Seq(Entries)
      BY DocumentFields DEF IndInv, TypeOK
    <2>2. j \in DOMAIN sh.steps /\ disk.steps[j] = sh.steps[j]
      BY <2>1 DEF IndInv, DiskIsPrefix
    <2>3. disk.steps[j].result \in Results
      <3>1. disk.steps[j] \in Entries
        BY <2>1
      <3> QED
        BY <3>1 DEF Entries
    <2> QED
      BY <2>2, <2>3 DEF IndInv, ScoredIsOver, Results
  <1> QED
    BY <1>1, InvHolds, PTL

\* Two steps never have processes at the same time (supervisor.sh:153-155).
THEOREM GroupsAreExclusive == Spec => []OneGroupAtATime
  <1>1. IndInv => OneGroupAtATime
    BY DEF IndInv, OnlyTheCurrent, OneGroupAtATime, Busy
  <1> QED
    BY <1>1, InvHolds, PTL

\* A steps.json with state done and exit 0 lists the whole plan, nothing of it
\* failed but reports (supervisor.sh:166-182).
THEOREM DoneWasEarned == Spec => []DoneIsEarned
  <1>1. IndInv => DoneIsEarned
    BY DEF IndInv
  <1> QED
    BY <1>1, InvHolds, PTL

-----------------------------------------------------------------------------
(* What the CLI concludes from a steps.json, and that the exit code agrees. *)

Class(d) == VerdictClass(Evaluate(d, <<>>, FALSE, Planned, FALSE, TRUE))

Agrees(d) == (Class(d) = "pass" <=> d.exit = 0) /\ (Class(d) = "infra" => d.exit = 3)

\* The supervisor gave up or was stopped.
Stopped(d) == d.state \in {"code_wait_timeout", "timeout", "terminated"} \/ d.code_wait = "timeout"

NoneFailing(q) == \A j \in DOMAIN q : ~Failing(q[j])

\* No step before the last one failed, and that one did.
LastFails(q) ==
    /\ q # <<>> /\ Failing(q[Len(q)])
    /\ \A j \in DOMAIN q : j < Len(q) => ~Failing(q[j])

\* What Finish writes.
Final(s) == [s EXCEPT !.state = IF @ = "running" THEN "done" ELSE @]

VerdictInv ==
    /\ said => pc \in {"collect", "join", "exited"} \/ InTrap
    /\ pc \in {"collect", "join"} => said
    /\ pc \in {"code_wait", "code_time"} => sh.state = "waiting"
    /\ pc \in Looping =>
          disk.state = "running" /\ disk.code_wait = "ok" /\ sh.code_wait = "ok" /\ disk.steps = sh.steps
    /\ pc = "finish" =>
          /\ Agrees(Final(sh)) /\ disk.state = "running" /\ disk.code_wait = "ok" /\ sh.code_wait = "ok"
          /\ \/ sh.state = "running" /\ disk.steps = sh.steps
             \/ sh.state = "timeout" /\ Class(disk) = "infra"
    /\ pc \in {"say", "collect", "join"} => sh.state # "waiting"
    /\ pc \in {"say", "collect", "join", "exited"} \/ said => Agrees(disk)

\* The three ways evaluate decides when there is no junit file.
LEMMA ClassOf ==
    ASSUME NEW d \in Documents
    PROVE  /\ Stopped(d) => Class(d) = "infra"
           /\ ~Stopped(d) /\ NoneFailing(d.steps) =>
                 Class(d) = IF Names(d.steps) = Planned THEN "pass" ELSE "infra"
           /\ ~Stopped(d) /\ LastFails(d.steps) =>
                 Class(d) = IF d.steps[Len(d.steps)].kind \in {"preflight", "install"} THEN "infra" ELSE "fail"
  <1> DEFINE ran == d.steps
             bad == FirstWith(ran, Failing)
  <1>0. ran \in Seq(Entries)
    BY DocumentFields
  <1>1. Infra(LastName(ran)).infra = TRUE /\ Infra(None).infra = TRUE
        /\ Passed.infra = FALSE /\ Passed.test_code = 0
    BY DEF Infra, Verdict, Passed
  <1>2. Stopped(d) => Class(d) = "infra"
    BY <1>1 DEF Stopped, Class, VerdictClass, Evaluate
  <1>3. ASSUME ~Stopped(d), NoneFailing(ran)
        PROVE  Class(d) = IF Names(ran) = Planned THEN "pass" ELSE "infra"
    <2>1. {k \in DOMAIN ran : Failing(ran[k])} = {}
      BY <1>3 DEF NoneFailing
    <2>2. FirstWith(ran, Failing) = 0
      BY <2>1 DEF FirstWith
    <2> QED
      BY <1>1, <1>3, <2>2 DEF Stopped, Class, VerdictClass, Evaluate, FirstWith, Incomplete
  <1>4. ASSUME ~Stopped(d), LastFails(ran)
        PROVE  Class(d) = IF ran[Len(ran)].kind \in {"preflight", "install"} THEN "infra" ELSE "fail"
    <2> DEFINE hits == {k \in DOMAIN ran : Failing(ran[k])}
               n == Len(ran)
    <2>1. n \in hits /\ n \in Nat /\ n # 0 /\ \A k \in hits : k \in Nat /\ n <= k
      BY <1>0, <1>4 DEF LastFails
    <2>2. FirstWith(ran, Failing) = CHOOSE k \in hits : \A j \in hits : k <= j
      BY <2>1 DEF FirstWith
    <2> HIDE DEF hits, n
    <2>3. FirstWith(ran, Failing) = n
      <3> DEFINE c == CHOOSE k \in hits : \A j \in hits : k <= j
      <3>1. \E k \in hits : \A j \in hits : k <= j
        BY <2>1
      <3>2. c \in hits /\ \A j \in hits : c <= j
        BY <3>1
      <3> HIDE DEF c
      <3>3. c \in Nat /\ c <= n /\ n <= c
        BY <2>1, <3>2
      <3>4. c = n
        BY <2>1, <3>3
      <3> QED
        BY <2>2, <3>4 DEF c
    <2>4. CASE ran[n].kind \in {"preflight", "install"}
      <3>1. StepVerdict(ran[n]).infra = TRUE
        BY <2>4 DEF StepVerdict, Infra, Verdict
      <3> QED
        BY <1>4, <2>1, <2>3, <2>4, <3>1 DEF Stopped, Evaluate, Class, VerdictClass, n
    <2>5. CASE ran[n].kind \notin {"preflight", "install"}
      <3>1. StepVerdict(ran[n]).infra = FALSE /\ StepVerdict(ran[n]).test_code = 1
        BY <2>5 DEF StepVerdict, Verdict
      <3> QED
        BY <1>4, <2>1, <2>3, <2>5, <3>1 DEF Stopped, Evaluate, Class, VerdictClass, n
    <2> QED
      BY <2>4, <2>5
  <1> QED
    BY <1>2, <1>3, <1>4

\* A supervisor that has not begun has nothing to agree on.
LEMMA VerdictInit == Init => VerdictInv
  BY DEF Init, VerdictInv, InTrap, Looping

\* A plan that is recorded in part, with no failure, is not a test result yet.
LEMMA PartIsInfra ==
    ASSUME NEW d \in Documents, NoneFailing(d.steps), Len(d.steps) # Len(Plan)
    PROVE  Class(d) = "infra"
  <1>1. d.steps \in Seq(Entries) /\ Len(d.steps) \in Nat /\ Len(Plan) \in Nat
    BY DocumentFields, PlanAssumption
  <1>2. DOMAIN Names(d.steps) = 1..Len(d.steps) /\ DOMAIN Planned = 1..Len(Plan)
    BY <1>1 DEF Names, Planned, Steps
  <1>3. 1..Len(d.steps) # 1..Len(Plan)
    <2> DEFINE a == Len(d.steps)
               b == Len(Plan)
    <2>1. a \in Nat /\ b \in Nat /\ a # b
      BY <1>1
    <2> HIDE DEF a, b
    <2>2. a < b => b \in 1..b /\ b \notin 1..a
      BY <2>1
    <2>3. b < a => a \in 1..a /\ a \notin 1..b
      BY <2>1
    <2>4. 1..a # 1..b
      BY <2>1, <2>2, <2>3
    <2> QED
      BY <2>4 DEF a, b
  <1>4. Names(d.steps) # Planned
    BY <1>2, <1>3
  <1> QED
    BY <1>4, ClassOf

\* In the loop, with a step left to run, steps.json is such a part.
LEMMA LoopIsInfra ==
    ASSUME IndInv, VerdictInv, pc \in Looping, cur \in Steps
    PROVE  Class(disk) = "infra"
  <1>1. disk \in Documents /\ disk.steps = sh.steps /\ Len(sh.steps) = cur - 1 /\ cur \in 1..Len(Plan)
    BY DEF IndInv, TypeOK, VerdictInv, InLoop, Steps
  <1>2. NoneFailing(disk.steps)
    BY <1>1 DEF IndInv, InLoop, NoneFailing
  <1>3. Len(disk.steps) # Len(Plan)
    BY <1>1, PlanAssumption
  <1> QED
    BY <1>1, <1>2, <1>3, PartIsInfra

\* The end of the plan is a pass with exit code 0.
LEMMA VerdictPlanRead ==
    ASSUME IndInv, VerdictInv, PlanRead
    PROVE  VerdictInv'
  <1>1. /\ UNCHANGED <<sh, disk, said>> /\ pc = "loop" /\ pc' = "finish" /\ AfterLoop'
        /\ sh.state = "running" /\ sh.exit = 0 /\ sh \in Documents
    BY ControlSteps DEF PlanRead, Control, IndInv, InLoop, Looping, TypeOK
  <1>2. Names(sh.steps) = Planned /\ NoneFailing(sh.steps)
    BY <1>1 DEF AfterLoop, NoneFailing
  <1> DEFINE d == Final(sh)
  <1>3. d \in Documents /\ d.state = "done" /\ d.code_wait = "ok" /\ d.exit = 0 /\ d.steps = sh.steps
    BY <1>1 DEF Final, Documents, States, VerdictInv, Looping
  <1> HIDE DEF d
  <1>4. Agrees(d)
    BY <1>2, <1>3, ClassOf DEF Agrees, Stopped
  <1>5. Agrees(Final(sh))'
    BY <1>1, <1>4 DEF d
  <1> QED
    BY <1>1, <1>5 DEF VerdictInv, Looping, InTrap

\* The other steps that change neither the shell's variables nor steps.json.
LEMMA VerdictControl ==
    ASSUME IndInv, VerdictInv, Cli \/ Process \/ Watchdog \/ Control \/ UNCHANGED vars
    PROVE  VerdictInv'
  <1>1. UNCHANGED <<sh, disk>>
    BY DEF Cli, Process, Watchdog, Control, MarkReady, MarkCollected, StepCdFails, StepStarts, StepEnds,
           StepKilled, StepReaped, WatchdogStops, WatchdogFires, WatchdogTerm, WatchdogGraceOver, WatchdogKill,
           WatchdogGone, CodeNotThere, CodeNap, StepBegin, PlanRead, StepFork, WaitReturns, SayFinished,
           Collected, CollectWindowEnds, Exit, OnTerm, TermSignal, TermGraceOver, TermKill, TermKilled,
           vars, main
  <1>2. Agrees(disk)' = Agrees(disk) /\ Class(disk)' = Class(disk) /\ Agrees(Final(sh))' = Agrees(Final(sh))
    BY <1>1
  <1>3. CASE UNCHANGED <<pc, said>>
    BY <1>1, <1>2, <1>3 DEF VerdictInv, InTrap
  <1>4. CASE PlanRead
    BY <1>4, VerdictPlanRead
  <1>5. CASE CodeNotThere \/ CodeNap \/ StepBegin \/ StepFork \/ WaitReturns
    BY <1>1, <1>2, <1>5 DEF VerdictInv, InTrap, Looping, CodeNotThere, CodeNap, StepBegin, StepFork, WaitReturns
  <1>6. CASE SayFinished \/ Collected \/ CollectWindowEnds \/ Exit
    BY <1>1, <1>2, <1>6 DEF VerdictInv, InTrap, Looping, SayFinished, Collected, CollectWindowEnds, Exit
  <1>7. CASE OnTerm \/ TermSignal \/ TermGraceOver \/ TermKilled
    BY <1>1, <1>2, <1>7 DEF VerdictInv, InTrap, Looping, OnTerm, TermSignal, TermGraceOver, TermKilled
  <1>8. CASE Cli \/ Process \/ Watchdog \/ TermKill \/ UNCHANGED vars
    <2>1. UNCHANGED <<pc, said>>
      BY <1>8 DEF Cli, Process, Watchdog, MarkReady, MarkCollected, StepCdFails, StepStarts, StepEnds,
           StepKilled, StepReaped, WatchdogStops, WatchdogFires, WatchdogTerm, WatchdogGraceOver, WatchdogKill,
           WatchdogGone, TermKill, vars, main
    <2> QED
      BY <1>3, <2>1
  <1> QED
    BY <1>4, <1>5, <1>6, <1>7, <1>8 DEF Control

\* What each step that changes the shell's variables or steps.json makes of the verdict.
LEMMA CodeArrivedVerdict ==
    ASSUME IndInv, VerdictInv, CodeArrived
    PROVE  /\ VerdictInv' /\ UNCHANGED said /\ pc' = "loop"
           /\ sh.state = "waiting" /\ sh'.state = "running"
           /\ Plan # <<>> => Class(disk') = "infra"
  <1>0. sh \in Documents /\ sh.steps = <<>> /\ sh.state = "waiting"
    BY DEF IndInv, TypeOK, BeforeTheCode, CodeArrived, VerdictInv
  <1>1. /\ pc = "code_wait" /\ pc' = "loop" /\ UNCHANGED said /\ said = FALSE
        /\ sh' = [sh EXCEPT !.code_wait = "ok", !.state = "running"] /\ disk' = Document(sh')
    BY DEF CodeArrived, VerdictInv, InTrap, IndInv, TypeOK
  <1>2. sh' \in Documents /\ sh'.state = "running" /\ sh'.code_wait = "ok" /\ sh'.steps = <<>>
    BY <1>0, <1>1 DEF Documents, States, CodeWaits
  <1>3. disk' = sh'
    BY <1>1, <1>2, DocumentFields
  <1>4. VerdictInv'
    BY <1>1, <1>2, <1>3 DEF VerdictInv, InTrap, Looping
  <1>5. ASSUME Plan # <<>> PROVE Class(disk') = "infra"
    <2>1. NoneFailing(disk'.steps) /\ Len(disk'.steps) # Len(Plan)
      BY <1>2, <1>3, <1>5, PlanAssumption DEF NoneFailing
    <2> QED
      BY <1>2, <1>3, <2>1, PartIsInfra
  <1> QED
    BY <1>0, <1>1, <1>2, <1>4, <1>5

\* A run that never got its code, or that was terminated, is not a test result.
LEMMA StopVerdict ==
    ASSUME IndInv, VerdictInv, CodeWaitTimeout \/ TermWrite
    PROVE  VerdictInv' /\ pc # "exited" /\ pc' = "exited" /\ Class(disk') = "infra"
  <1>0. sh \in Documents
    BY DEF IndInv, TypeOK
  <1>1. /\ pc # "exited" /\ pc' = "exited" /\ UNCHANGED said /\ disk' = Document(sh')
        /\ \/ sh' = [sh EXCEPT !.code_wait = "timeout", !.state = "code_wait_timeout", !.exit = 3]
           \/ sh' = [sh EXCEPT !.state = "terminated", !.exit = 3]
    BY DEF CodeWaitTimeout, TermWrite
  <1>2. sh' \in Documents /\ sh'.exit = 3 /\ sh'.state \in {"code_wait_timeout", "terminated"}
    BY <1>0, <1>1 DEF Documents, States, CodeWaits
  <1>3. disk' = sh'
    BY <1>1, <1>2, DocumentFields
  <1>4. Class(disk') = "infra"
    BY <1>2, <1>3, ClassOf DEF Stopped
  <1>5. Agrees(disk')
    BY <1>2, <1>3, <1>4 DEF Agrees
  <1>6. VerdictInv'
    BY <1>1, <1>5 DEF VerdictInv, InTrap, Looping
  <1> QED
    BY <1>1, <1>4, <1>6

\* Neither is a plan line of an unknown kind, nor a step that the watchdog stopped: the last
\* write will say exit 3, and until then steps.json holds a part of the plan.
LEMMA UnfinishedVerdict ==
    ASSUME IndInv, VerdictInv, UnknownKind \/ StepTimedOut
    PROVE  VerdictInv' /\ UNCHANGED <<disk, said>> /\ pc' = "finish" /\ sh.state # "waiting" /\ sh'.state # "waiting"
  <1>0. /\ sh \in Documents /\ cur \in Steps /\ pc \in Looping /\ sh.state = "running" /\ sh.code_wait = "ok"
        /\ disk.state = "running" /\ disk.code_wait = "ok" /\ disk.steps = sh.steps /\ said = FALSE
        /\ (pc = "check" => rc \in Codes)
    BY DEF IndInv, TypeOK, InLoop, VerdictInv, UnknownKind, StepTimedOut, Looping, InTrap
  <1>1. Class(disk) = "infra"
    BY <1>0, LoopIsInfra
  <1>2. pc' = "finish" /\ UNCHANGED <<disk, said>>
    BY DEF UnknownKind, StepTimedOut
  <1> DEFINE d == Final(sh')
  <1>3. CASE UnknownKind
    <2>1. sh' = [sh EXCEPT !.exit = 3]
      BY <1>3 DEF UnknownKind
    <2>2. d \in Documents /\ d.state = "done" /\ d.code_wait = "ok" /\ d.exit = 3 /\ d.steps = sh.steps
          /\ sh'.state = "running" /\ sh'.steps = sh.steps /\ sh'.code_wait = "ok"
      BY <1>0, <2>1 DEF Final, Documents, States
    <2> HIDE DEF d
    <2>3. NoneFailing(d.steps) /\ Len(d.steps) # Len(Plan)
      <3>1. Len(sh.steps) = cur - 1 /\ NoneFailing(sh.steps)
        BY <1>0 DEF IndInv, InLoop, NoneFailing
      <3>2. cur \in 1..Len(Plan) /\ Len(Plan) \in Nat
        BY <1>0, PlanAssumption DEF Steps
      <3> QED
        BY <2>2, <3>1, <3>2
    <2>4. Class(d) = "infra"
      BY <2>2, <2>3, PartIsInfra
    <2>5. Agrees(d)
      BY <2>2, <2>4 DEF Agrees
    <2>6. Agrees(Final(sh))'
      BY <2>5 DEF d
    <2> QED
      BY <1>0, <1>2, <2>2, <2>6 DEF VerdictInv, Looping, InTrap
  <1>4. CASE StepTimedOut
    <2>0. rc \in Codes
      BY <1>0, <1>4 DEF StepTimedOut
    <2> DEFINE e == Entry(cur, Plan[cur], rc, "timeout")
    <2>1. e \in Entries
      BY <1>0, <2>0, EntryType DEF Results
    <2>2. sh' = [sh EXCEPT !.steps = Append(@, e), !.state = "timeout", !.exit = 3]
      BY <1>4 DEF StepTimedOut
    <2> HIDE DEF e
    <2>a. Append(sh.steps, e) \in Seq(Entries)
      BY <1>0, <2>1, DocumentFields, AppendFacts
    <2>b. sh'.state = "timeout" /\ sh'.code_wait = "ok" /\ sh'.exit = 3 /\ sh' \in Documents
      BY <1>0, <2>2, <2>a DEF Documents, States
    <2>3. d \in Documents /\ d.state = "timeout" /\ d.exit = 3
      BY <2>b DEF Final, Documents
    <2> HIDE DEF d
    <2>4. Class(d) = "infra"
      BY <2>3, ClassOf DEF Stopped
    <2>5. Agrees(d)
      BY <2>3, <2>4 DEF Agrees
    <2>6. Agrees(Final(sh))'
      BY <2>5 DEF d
    <2> QED
      BY <1>0, <1>1, <1>2, <2>b, <2>6 DEF VerdictInv, Looping, InTrap
  <1> QED
    BY <1>3, <1>4

\* A step that ended is a result of the run if it failed or was the last, and else nothing yet.
LEMMA RecordedVerdict ==
    ASSUME IndInv, VerdictInv, StepRecorded
    PROVE  /\ VerdictInv' /\ UNCHANGED said /\ pc' # "exited" /\ pc = "check"
           /\ sh.state = "running" /\ sh'.state = "running" /\ Class(disk) = "infra"
  <1>0. /\ sh \in Documents /\ cur \in Steps /\ pc = "check" /\ pc \in Looping /\ rc \in Codes
        /\ sh.state = "running" /\ sh.code_wait = "ok" /\ sh.exit = 0 /\ Len(sh.steps) = cur - 1
        /\ said = FALSE /\ NoneFailing(sh.steps)
    BY DEF IndInv, TypeOK, InLoop, VerdictInv, StepRecorded, Looping, InTrap, NoneFailing
  <1>1. Class(disk) = "infra"
    BY <1>0, LoopIsInfra
  <1> DEFINE e == Entry(cur, Plan[cur], rc, IF rc = 0 THEN "ok" ELSE "failed")
             q == Append(sh.steps, e)
             on == GoesOn(Plan[cur], rc)
             x == IF on THEN sh.exit ELSE StopCode(Plan[cur], rc)
  <1>2. e \in Entries /\ e.kind = Plan[cur] /\ e.code = rc
    BY <1>0, EntryType DEF Results
  <1>3. /\ UNCHANGED said /\ pc' = (IF on THEN "loop" ELSE "finish")
        /\ disk' = Document([sh EXCEPT !.steps = q]) /\ sh' = [sh EXCEPT !.steps = q, !.exit = x]
    BY DEF StepRecorded
  <1>4. sh.steps \in Seq(Entries)
    BY <1>0, DocumentFields
  <1> HIDE DEF e
  <1>5. /\ q \in Seq(Entries) /\ Len(q) = cur /\ q[cur] = e /\ cur \in DOMAIN q
        /\ \A j \in DOMAIN q : j < cur => ~Failing(q[j])
    <2>1. cur \in Nat \ {0}
      BY <1>0, PlanAssumption DEF Steps
    <2> QED
      BY <1>0, <1>2, <1>4, <2>1, AppendFacts DEF NoneFailing
  <1> HIDE DEF q
  <1>6. Failing(e) <=> ~on
    BY <1>2 DEF Failing, GoesOn
  <1>7. x \in Codes \cup {3}
    BY <1>0, CodesAssumption DEF StopCode
  <1>8. ~on => x # 0 /\ (Plan[cur] \in {"preflight", "install"} => x = 3)
    BY DEF GoesOn, StopCode
  <1> HIDE DEF on, x
  <1>9. sh' \in Documents /\ sh'.state = "running" /\ sh'.code_wait = "ok" /\ sh'.steps = q /\ sh'.exit = x
    BY <1>0, <1>3, <1>5, <1>7 DEF Documents
  <1>10. disk'.state = "running" /\ disk'.code_wait = "ok" /\ disk'.steps = q
    BY <1>0, <1>3 DEF Document, Documents
  <1>11. CASE on
    BY <1>0, <1>1, <1>3, <1>9, <1>10, <1>11 DEF VerdictInv, Looping, InTrap
  <1>12. CASE ~on
    <2> DEFINE d == Final(sh')
    <2>1. d \in Documents /\ d.state = "done" /\ d.code_wait = "ok" /\ d.exit = x /\ d.steps = q
      BY <1>9 DEF Final, Documents, States
    <2> HIDE DEF d
    <2>2. LastFails(d.steps)
      BY <1>5, <1>6, <1>12, <2>1 DEF LastFails
    <2>3. Class(d) = IF Plan[cur] \in {"preflight", "install"} THEN "infra" ELSE "fail"
      <3>1. ~Stopped(d) /\ d.steps[Len(d.steps)].kind = Plan[cur]
        BY <1>2, <1>5, <2>1 DEF Stopped
      <3> QED
        BY <2>1, <2>2, <3>1, ClassOf
    <2>4. Agrees(d)
      BY <1>8, <1>12, <2>1, <2>3 DEF Agrees
    <2>5. Agrees(Final(sh))'
      BY <2>4 DEF d
    <2> QED
      BY <1>0, <1>1, <1>3, <1>9, <1>10, <1>12, <2>5 DEF VerdictInv, Looping, InTrap
  <1> QED
    BY <1>11, <1>12

\* Of two steps.json that are not stopped, with the same steps, the CLI concludes the same.
LEMMA SameClass ==
    ASSUME NEW a, NEW b, ~Stopped(a), ~Stopped(b), a.steps = b.steps
    PROVE  Class(a) = Class(b)
  BY DEF Class, VerdictClass, Evaluate, Stopped

\* The last write changes nothing that the CLI concludes.
LEMMA FinishVerdict ==
    ASSUME IndInv, VerdictInv, Finish
    PROVE  /\ VerdictInv' /\ UNCHANGED said /\ pc = "finish" /\ pc' = "say" /\ Class(disk') = Class(disk)
           /\ sh.state # "waiting" /\ sh'.state # "waiting"
  <1>0. /\ sh \in Documents /\ pc = "finish" /\ pc' = "say" /\ UNCHANGED said /\ said = FALSE
        /\ sh' = Final(sh) /\ disk' = Document(sh')
    BY DEF IndInv, TypeOK, Finish, VerdictInv, InTrap, Final
  <1>1. /\ Agrees(Final(sh)) /\ disk.state = "running" /\ disk.code_wait = "ok" /\ sh.code_wait = "ok"
        /\ \/ sh.state = "running" /\ disk.steps = sh.steps
           \/ sh.state = "timeout" /\ Class(disk) = "infra"
    BY <1>0 DEF VerdictInv
  <1>2. sh' \in Documents /\ sh'.steps = sh.steps /\ sh'.code_wait = "ok"
        /\ sh'.state = (IF sh.state = "running" THEN "done" ELSE sh.state)
    BY <1>0, <1>1 DEF Final, Documents, States
  <1>3. disk' = sh'
    BY <1>0, <1>2, DocumentFields
  <1>4. Agrees(disk')
    BY <1>0, <1>1, <1>3
  <1>5. CASE sh.state = "running" /\ disk.steps = sh.steps
    <2>1. ~Stopped(disk) /\ ~Stopped(disk') /\ disk'.steps = disk.steps
      BY <1>1, <1>2, <1>3, <1>5 DEF Stopped
    <2>2. Class(disk') = Class(disk)
      BY <2>1, SameClass
    <2> QED
      BY <1>0, <1>2, <1>4, <1>5, <2>2 DEF VerdictInv, Looping, InTrap
  <1>6. CASE sh.state = "timeout" /\ Class(disk) = "infra"
    <2>1. Class(disk') = "infra"
      BY <1>2, <1>3, <1>6, ClassOf DEF Stopped
    <2> QED
      BY <1>0, <1>2, <1>4, <1>6, <2>1 DEF VerdictInv, Looping, InTrap
  <1> QED
    BY <1>1, <1>5, <1>6

\* The trap's entry is not in steps.json yet.
LEMMA TermEntryVerdict ==
    ASSUME IndInv, VerdictInv, TermEntry
    PROVE  VerdictInv' /\ UNCHANGED <<disk, said>> /\ sh'.state = sh.state /\ pc # "exited" /\ pc' # "exited"
  <1>1. /\ pc = "term_entry" /\ pc' = "term_write" /\ UNCHANGED <<disk, said>>
        /\ sh' = [sh EXCEPT !.steps = Append(@, Entry(running, Plan[running], 143, "terminated"))]
    BY DEF TermEntry
  <1>2. sh'.state = sh.state
    BY <1>1 DEF IndInv, TypeOK, Documents
  <1> QED
    BY <1>1, <1>2 DEF VerdictInv, Looping, InTrap

\* Every step keeps it.
LEMMA VerdictStep == IndInv /\ VerdictInv /\ [Next]_vars => VerdictInv'
  <1> SUFFICES ASSUME IndInv, VerdictInv, [Next]_vars PROVE VerdictInv'
    OBVIOUS
  <1> QED
    BY VerdictControl, CodeArrivedVerdict, StopVerdict, UnfinishedVerdict, RecordedVerdict, FinishVerdict,
       TermEntryVerdict DEF Next, Shell, ShellMoves, Trap, TrapMoves, Control, Ended

\* The verdict's part of the invariant holds in every state.
THEOREM VerdictHolds == Spec => []VerdictInv
  <1> QED
    BY VerdictInit, VerdictStep, InvHolds, PTL DEF Spec

\* Once the pod says it has finished, or has exited, its exit code and what the CLI concludes
\* from its steps.json agree, for every plan (supervisor.sh:160-200, guards.evaluate).
THEOREM ExitsAgree == Spec => []ExitAgreesWithVerdict
  <1>1. VerdictInv => ExitAgreesWithVerdict
    BY DEF VerdictInv, ExitAgreesWithVerdict, Agrees, Class, CliVerdict
  <1> QED
    BY <1>1, VerdictHolds, PTL

-----------------------------------------------------------------------------
(* The supervisor as a pod of PodContract.                                  *)

\* The pod's phase and report, by what the shell is doing.
LEMMA PhaseAndReport ==
    /\ pc = "exited" => PodPhase = "exited" /\ PodReport = Class(disk)
    /\ pc # "exited" /\ said = TRUE => PodPhase = "finished" /\ PodReport = Class(disk)
    /\ pc # "exited" /\ said = FALSE /\ sh.state = "waiting" => PodPhase = "waiting" /\ PodReport = "none"
    /\ pc # "exited" /\ said = FALSE /\ sh.state # "waiting" =>
          PodPhase = "running" /\ PodReport = IF Class(disk) = "infra" THEN "none" ELSE Class(disk)
  BY DEF PodPhase, PodReport, Class, CliVerdict

\* The same, after a step.
LEMMA PhaseAndReportAfter ==
    /\ pc' = "exited" => PodPhase' = "exited" /\ PodReport' = Class(disk')
    /\ pc' # "exited" /\ said' = TRUE => PodPhase' = "finished" /\ PodReport' = Class(disk')
    /\ pc' # "exited" /\ said' = FALSE /\ sh'.state = "waiting" => PodPhase' = "waiting" /\ PodReport' = "none"
    /\ pc' # "exited" /\ said' = FALSE /\ sh'.state # "waiting" =>
          PodPhase' = "running" /\ PodReport' = IF Class(disk') = "infra" THEN "none" ELSE Class(disk')
  BY DEF PodPhase, PodReport, Class, CliVerdict

\* The CLI concludes one of three things.
LEMMA ThreeClasses == ASSUME NEW d PROVE Class(d) \in {"pass", "fail", "infra"}
  BY DEF Class, VerdictClass

\* Steps the contract does not see: they keep what the CLI would conclude, and the phase.
LEMMA Unseen ==
    ASSUME IndInv, UNCHANGED said, Class(disk') = Class(disk),
           sh'.state = "waiting" <=> sh.state = "waiting", pc # "exited", pc' # "exited"
    PROVE  UNCHANGED <<PodPhase, PodReport>>
  <1>1. said \in BOOLEAN
    BY DEF IndInv, TypeOK
  <1> QED
    BY <1>1, PhaseAndReport, PhaseAndReportAfter

\* The steps that change neither the shell's variables nor steps.json.
LEMMA ControlContract ==
    ASSUME IndInv, VerdictInv, Cli \/ Process \/ Watchdog \/ Control \/ UNCHANGED vars
    PROVE  [Contract!Next]_<<PodPhase, PodReport>>
  <1>1. UNCHANGED <<sh, disk>>
    BY DEF Cli, Process, Watchdog, Control, MarkReady, MarkCollected, StepCdFails, StepStarts, StepEnds,
           StepKilled, StepReaped, WatchdogStops, WatchdogFires, WatchdogTerm, WatchdogGraceOver, WatchdogKill,
           WatchdogGone, CodeNotThere, CodeNap, StepBegin, PlanRead, StepFork, WaitReturns, SayFinished,
           Collected, CollectWindowEnds, Exit, OnTerm, TermSignal, TermGraceOver, TermKill, TermKilled,
           vars, main
  <1>2. Class(disk') = Class(disk) /\ sh'.state = sh.state
    BY <1>1
  <1>3. CASE SayFinished
    <2>1. pc = "say" /\ pc' = "collect" /\ said = FALSE /\ said' = TRUE /\ sh.state # "waiting"
      BY <1>3 DEF SayFinished, VerdictInv, IndInv, TypeOK, InTrap
    <2>2. PodPhase = "running" /\ PodReport = IF Class(disk) = "infra" THEN "none" ELSE Class(disk)
      BY <2>1, PhaseAndReport
    <2>3. PodPhase' = "finished" /\ PodReport' = Class(disk)
      BY <1>2, <2>1, PhaseAndReportAfter
    <2>4. Contract!Complete
      BY <2>2, <2>3, ThreeClasses DEF Contract!Complete
    <2> QED
      BY <2>4 DEF Contract!Next
  <1>4. CASE Exit
    <2>1. pc = "join" /\ pc' = "exited" /\ said = TRUE
      BY <1>4 DEF Exit, VerdictInv, IndInv, TypeOK
    <2>2. PodPhase = "finished" /\ PodReport = Class(disk) /\ PodPhase' = "exited" /\ PodReport' = Class(disk)
      BY <1>2, <2>1, PhaseAndReport, PhaseAndReportAfter
    <2> QED
      BY <2>2 DEF Contract!Next, Contract!Leave
  <1>5. CASE CodeNotThere \/ CodeNap \/ StepBegin \/ PlanRead \/ StepFork \/ WaitReturns
             \/ Collected \/ CollectWindowEnds \/ OnTerm \/ TermSignal \/ TermGraceOver \/ TermKill \/ TermKilled
    <2>1. UNCHANGED said /\ pc # "exited" /\ pc' # "exited"
      BY <1>5 DEF CodeNotThere, CodeNap, StepBegin, PlanRead, StepFork, WaitReturns, Collected,
                  CollectWindowEnds, OnTerm, TermSignal, TermGraceOver, TermKill, TermKilled, Up, main
    <2> QED
      BY <1>2, <2>1, Unseen
  <1>6. CASE Cli \/ Process \/ Watchdog \/ UNCHANGED vars
    <2>1. UNCHANGED <<pc, said>>
      BY <1>6 DEF Cli, Process, Watchdog, MarkReady, MarkCollected, StepCdFails, StepStarts, StepEnds,
           StepKilled, StepReaped, WatchdogStops, WatchdogFires, WatchdogTerm, WatchdogGraceOver, WatchdogKill,
           WatchdogGone, vars, main
    <2>2. UNCHANGED <<PodPhase, PodReport>>
      BY <1>1, <2>1 DEF PodPhase, PodReport, CliVerdict
    <2> QED
      BY <2>2
  <1> QED
    BY <1>3, <1>4, <1>5, <1>6 DEF Control

\* Every step of the supervisor is a step of the contract, or none: the code's arrival, the
\* record that settles the result, the finished line, the exit and the two ways of stopping.
LEMMA ContractStep ==
    ASSUME Plan # <<>>, IndInv, VerdictInv, [Next]_vars
    PROVE  [Contract!Next]_<<PodPhase, PodReport>>
  <1>1. CASE CodeArrived
    <2>1. /\ said = FALSE /\ said' = FALSE /\ pc # "exited" /\ pc' # "exited"
          /\ sh.state = "waiting" /\ sh'.state # "waiting" /\ Class(disk') = "infra"
      BY <1>1, CodeArrivedVerdict DEF CodeArrived, VerdictInv, InTrap, IndInv, TypeOK
    <2>2. PodPhase = "waiting" /\ PodReport = "none" /\ PodPhase' = "running" /\ PodReport' = "none"
      BY <2>1, PhaseAndReport, PhaseAndReportAfter
    <2> QED
      BY <2>2 DEF Contract!Next, Contract!Arrive
  <1>2. CASE CodeWaitTimeout \/ TermWrite
    <2>1. pc # "exited" /\ pc' = "exited" /\ Class(disk') = "infra" /\ said \in BOOLEAN
      BY <1>2, StopVerdict DEF IndInv, TypeOK
    <2>2. PodPhase # "exited" /\ PodPhase' = "exited" /\ PodReport' = "infra"
      BY <2>1, PhaseAndReport, PhaseAndReportAfter
    <2> QED
      BY <2>2 DEF Contract!Next, Contract!Terminate
  <1>3. CASE UnknownKind \/ StepTimedOut
    <2>1. pc # "exited"
      BY <1>3 DEF UnknownKind, StepTimedOut
    <2>2. Class(disk') = Class(disk)
      BY <1>3, UnfinishedVerdict
    <2> QED
      BY <1>3, <2>1, <2>2, UnfinishedVerdict, Unseen
  <1>4. CASE StepRecorded
    <2>1. /\ said = FALSE /\ said' = FALSE /\ pc # "exited" /\ pc' # "exited"
          /\ sh.state # "waiting" /\ sh'.state # "waiting" /\ Class(disk) = "infra"
      BY <1>4, RecordedVerdict DEF VerdictInv, InTrap, IndInv, TypeOK
    <2>2. /\ PodPhase = "running" /\ PodReport = "none" /\ PodPhase' = "running"
          /\ PodReport' = IF Class(disk') = "infra" THEN "none" ELSE Class(disk')
      BY <2>1, PhaseAndReport, PhaseAndReportAfter
    <2> QED
      BY <2>2, ThreeClasses DEF Contract!Next, Contract!Settle
  <1>5. CASE Finish
    <2>1. pc # "exited" /\ pc' # "exited"
      BY <1>5, FinishVerdict
    <2> QED
      BY <1>5, <2>1, FinishVerdict, Unseen
  <1>6. CASE TermEntry
    <2>1. Class(disk') = Class(disk)
      BY <1>6, TermEntryVerdict
    <2> QED
      BY <1>6, <2>1, TermEntryVerdict, Unseen
  <1> QED
    BY <1>1, <1>2, <1>3, <1>4, <1>5, <1>6, ControlContract
       DEF Next, Shell, ShellMoves, Trap, TrapMoves, Control, Ended

\* A run of at least one step implements the contract the CLI relies on (supervisor.sh, as
\* guards.evaluate reads its steps.json); every plan has its install step
\* (suites.build_plan).
THEOREM KeepsTheContract == ASSUME Plan # <<>> PROVE Spec => ImplementsContract
  <1>1. Init => Contract!Init
    <2> SUFFICES ASSUME Init PROVE Contract!Init
      OBVIOUS
    <2>1. pc # "exited" /\ said = FALSE /\ sh.state = "waiting"
      BY DEF Init
    <2> QED
      BY <2>1, PhaseAndReport DEF Contract!Init
  <1>2. IndInv /\ VerdictInv /\ [Next]_vars => [Contract!Next]_<<PodPhase, PodReport>>
    BY ContractStep
  <1> QED
    BY <1>1, <1>2, InvHolds, VerdictHolds, PTL DEF Spec, ImplementsContract, Contract!Spec, Contract!podVars
=============================================================================
