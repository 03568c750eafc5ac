--------------------------- MODULE RemoteRunProofs ---------------------------
(***************************************************************************)
(* What is proved of RemoteRun for any number of pods, any set and number   *)
(* of signals, and failing calls or none.  The inductive invariant has five *)
(* parts: the types, what exists when (Ownership), the order of the copies  *)
(* and of the ready markers (Copies), of the copies out and the collected   *)
(* markers (Marks), and what the CLI knows of the results (Results).        *)
(***************************************************************************)
EXTENDS RemoteRun, TLAPS

\* Every step keeps the types.
LEMMA TypeStep ==
    ASSUME TypeOK, [Next]_vars
    PROVE  TypeOK'
<1> USE RunAssumption DEF TypeOK, CliPcs, InTry, InTeardown, Over, Flags, NoExit, Ranks,
   cluster, podVars, supVars, markers, cliVars
<1>1. CASE Gc
  BY <1>1 DEF Gc
<1>2. CASE GcFails
  BY <1>2 DEF GcFails
<1>3. CASE Start
  BY <1>3 DEF Start
<1>4. CASE Apply
  BY <1>4 DEF Apply
<1>5. CASE ApplyFails
  BY <1>5 DEF ApplyFails, AnyError, After
<1>6. CASE Own
  BY <1>6 DEF Own
<1>7. CASE OwnFails
  BY <1>7 DEF OwnFails, Raise, AnyError, After
<1>8. CASE Unsuspend
  BY <1>8 DEF Unsuspend
<1>9. CASE UnsuspendFails
  BY <1>9 DEF UnsuspendFails, Raise, AnyError, After
<1>10. CASE Scheduled
  BY <1>10 DEF Scheduled
<1>11. CASE NotScheduled
  BY <1>11 DEF NotScheduled, AnyError
<1>12. CASE Upload
  BY <1>12 DEF Upload, NextRank
<1>13. CASE MarkReady
  BY <1>13 DEF MarkReady, NextRank
<1>14. CASE MarkReadyFails
  BY <1>14 DEF MarkReadyFails, Raise, AnyError, After
<1>15. CASE SeesFinished
  BY <1>15 DEF SeesFinished
<1>16. CASE SeesItsLookalike
  BY <1>16 DEF SeesItsLookalike
<1>17. CASE AllSeen
  BY <1>17 DEF AllSeen
<1>18. CASE SeesDeadPod
  BY <1>18 DEF SeesDeadPod
<1>19. CASE CallFails
  BY <1>19 DEF CallFails, Raise, AnyError
<1>20. CASE Unreachable
  BY <1>20 DEF Unreachable
<1>21. CASE Collect
  BY <1>21 DEF Collect, NextRank, Reads
<1>22. CASE Settle
  <2>1. flags' \subseteq Flags
    <3>1. flags' = flags \/ flags' = flags \cup {"kept"}
      BY <1>22 DEF Settle
    <3>2. flags \subseteq Flags
      BY ONLY TypeOK DEF TypeOK
    <3> QED BY ONLY <3>1, <3>2 DEF Flags
  <2>2. at' \in Ranks
    BY <1>22 DEF Settle
  <2>3. cli' \in CliPcs
    BY <1>22 DEF Settle
  <2> QED BY <1>22, <2>1, <2>2, <2>3 DEF Settle
<1>23. CASE TouchCollected
  BY <1>23 DEF TouchCollected, NextRank
<1>24. CASE Judge
  BY <1>24 DEF Judge, Judged, Combine
<1>25. CASE Teardown
  BY <1>25 DEF Teardown
<1>26. CASE KeptOver
  BY <1>26 DEF KeptOver
<1>27. CASE KeptFails
  BY <1>27 DEF KeptFails
<1>28. CASE Delete
  BY <1>28 DEF Delete
<1>29. CASE DeleteFails
  BY <1>29 DEF DeleteFails, AnyError, After
<1>30. CASE Verified
  BY <1>30 DEF Verified
<1>31. CASE NotVerified
  BY <1>31 DEF NotVerified
<1>32. CASE Finish
  BY <1>32 DEF Finish, FinalExit
<1>33. CASE SignalOutside
  BY <1>33 DEF SignalOutside, Signal
<1>34. CASE SignalInTry
  <2>1. signals' \in 0..MaxSignals
    BY <1>34 DEF SignalInTry, Signal
  <2>2. flags' \subseteq Flags
    <3>1. \/ flags' = flags \cup {"interrupted"}
          \/ flags' = flags \cup {"interrupted", "created"}
      BY <1>34 DEF SignalInTry
    <3>2. flags \subseteq Flags
      BY ONLY TypeOK DEF TypeOK
    <3> QED BY ONLY <3>1, <3>2 DEF Flags
  <2>3. job' \in {"none", "suspended", "active", "ended"} /\ owned' \in BOOLEAN
    BY <1>34 DEF SignalInTry
  <2>4. copied' \subseteq Ranks
    BY <1>34 DEF SignalInTry
  <2>5. ready' \subseteq Ranks
    <3>1. ready' = ready \/ ready' = ready \cup {at}
      BY <1>34 DEF SignalInTry
    <3>2. at \in Ranks /\ ready \subseteq Ranks /\ marked \subseteq Ranks
      BY ONLY TypeOK DEF TypeOK
    <3> QED BY ONLY <3>1, <3>2
  <2>6. marked' \subseteq Ranks
    <3>1. marked' = marked \/ marked' = marked \cup {at}
      BY <1>34 DEF SignalInTry
    <3>2. at \in Ranks /\ ready \subseteq Ranks /\ marked \subseteq Ranks
      BY ONLY TypeOK DEF TypeOK
    <3> QED BY ONLY <3>1, <3>2
  <2>7. cli' \in CliPcs /\ UNCHANGED <<at, seen, got, verified, exit, asked, podVars>>
    BY <1>34 DEF SignalInTry
  <2> QED BY <2>1, <2>2, <2>3, <2>4, <2>5, <2>6, <2>7
<1>35. CASE SignalInTeardown
  <2>1. flags' \subseteq Flags
    <3>1. flags' = flags \cup {"interrupted"}
      BY <1>35 DEF SignalInTeardown
    <3> QED BY <3>1
  <2>2. signals' \in 0..MaxSignals
    BY <1>35 DEF SignalInTeardown, Signal
  <2> QED BY <1>35, <2>1, <2>2 DEF SignalInTeardown
<1>36. CASE SignalWhileKept
  BY <1>36 DEF SignalWhileKept, Signal
<1>37. CASE SigtermInDelete
  BY <1>37 DEF SigtermInDelete, Signal
<1>38. CASE Crash
  BY <1>38 DEF Crash
<1>39. CASE JobEnds
  BY <1>39 DEF JobEnds
<1>40. CASE TtlDeletes
  BY <1>40 DEF TtlDeletes
<1>41. CASE NextRunGc
  BY <1>41 DEF NextRunGc
<1>42. ASSUME NEW r \in Ranks, PodStarts(r) PROVE TypeOK'
  BY <1>42 DEF PodStarts
<1>43. ASSUME NEW r \in Ranks, PodLost(r) PROVE TypeOK'
  BY <1>43 DEF PodLost, Killed, SupervisorStep
<1>44. ASSUME NEW r \in Ranks, PodRemoved(r) PROVE TypeOK'
  BY <1>44 DEF PodRemoved, Killed, SupervisorStep
<1>45. ASSUME NEW r \in Ranks, Arrive(r) PROVE TypeOK'
  BY <1>45 DEF Arrive, SupervisorStep
<1>46. ASSUME NEW r \in Ranks, GiveUp(r) PROVE TypeOK'
  BY <1>46 DEF GiveUp, SupervisorStep
<1>47. ASSUME NEW r \in Ranks, RecordsResult(r) PROVE TypeOK'
  BY <1>47 DEF RecordsResult, SupervisorStep
<1>48. ASSUME NEW r \in Ranks, SaysFinished(r) PROVE TypeOK'
  BY <1>48 DEF SaysFinished, SupervisorStep, Reads
<1>49. ASSUME NEW r \in Ranks, Leave(r) PROVE TypeOK'
  BY <1>49 DEF Leave, SupervisorStep
<1>50. CASE UNCHANGED vars
  BY <1>50 DEF vars
<1>51. CASE UnexpectedInTry
  BY <1>51 DEF UnexpectedInTry
<1>52. CASE UnexpectedOutside
  BY <1>52 DEF UnexpectedOutside, InTeardown
<1> QED
  BY <1>1, <1>2, <1>3, <1>4, <1>5, <1>6, <1>7, <1>8, <1>9, <1>10, <1>11, <1>12, <1>13,
     <1>14, <1>15, <1>16, <1>17, <1>18, <1>19, <1>20, <1>21, <1>22, <1>23, <1>24, <1>25,
     <1>26, <1>27, <1>28, <1>29, <1>30, <1>31, <1>32, <1>33, <1>34, <1>35, <1>36, <1>37,
     <1>38, <1>39, <1>40, <1>41, <1>42, <1>43, <1>44, <1>45, <1>46, <1>47, <1>48, <1>49,
     <1>50, <1>51, <1>52
  DEF Next, CliMoves, CallsGoWrong, SignalsArrive, ClusterMoves, PodMoves, Done

\* Nothing of the run exists before created is set, and nothing but a suspended
\* Job before the owned objects do.
Ownership ==
    /\ cli \in {"gc", "start", "apply"} => job = "none"
    /\ cli = "own" => job = "suspended"
    /\ cli \in {"gc", "start", "apply", "own"} => ~owned
    /\ cli = "unsuspend" => owned
    /\ job \in {"active", "ended"} => owned
    /\ job # "none" => "created" \in flags
    /\ \A r \in Ranks : pod[r] # "absent" => owned /\ "created" \in flags
    /\ cli \in {"finish", "ended"} /\ verified => AllGone
    /\ verified => cli \in {"finish", "ended", "crashed"}

\* Every step keeps Ownership.
LEMMA OwnershipStep ==
    ASSUME TypeOK, Ownership, [Next]_vars
    PROVE  Ownership'
<1> USE DEF Ownership, TypeOK, AllGone, InTry, Over, cluster, podVars, supVars, markers,
   cliVars
<1>1. CASE Gc
  BY <1>1 DEF Gc
<1>2. CASE GcFails
  BY <1>2 DEF GcFails
<1>3. CASE Start
  BY <1>3 DEF Start
<1>4. CASE Apply
  BY <1>4 DEF Apply
<1>5. CASE ApplyFails
  BY <1>5 DEF ApplyFails, AnyError, After
<1>6. CASE Own
  BY <1>6 DEF Own
<1>7. CASE OwnFails
  BY <1>7 DEF OwnFails, Raise, AnyError, After
<1>8. CASE Unsuspend
  BY <1>8 DEF Unsuspend
<1>9. CASE UnsuspendFails
  BY <1>9 DEF UnsuspendFails, Raise, AnyError, After
<1>10. CASE Scheduled
  BY <1>10 DEF Scheduled
<1>11. CASE NotScheduled
  BY <1>11 DEF NotScheduled, AnyError
<1>12. CASE Upload
  BY <1>12 DEF Upload, NextRank
<1>13. CASE MarkReady
  BY <1>13 DEF MarkReady, NextRank
<1>14. CASE MarkReadyFails
  BY <1>14 DEF MarkReadyFails, Raise, AnyError, After
<1>15. CASE SeesFinished
  BY <1>15 DEF SeesFinished
<1>16. CASE SeesItsLookalike
  BY <1>16 DEF SeesItsLookalike
<1>17. CASE AllSeen
  BY <1>17 DEF AllSeen
<1>18. CASE SeesDeadPod
  BY <1>18 DEF SeesDeadPod
<1>19. CASE CallFails
  BY <1>19 DEF CallFails, Raise, AnyError
<1>20. CASE Unreachable
  BY <1>20 DEF Unreachable
<1>21. CASE Collect
  BY <1>21 DEF Collect, NextRank, Reads
<1>22. CASE Settle
  BY <1>22 DEF Settle
<1>23. CASE TouchCollected
  BY <1>23 DEF TouchCollected, NextRank
<1>24. CASE Judge
  BY <1>24 DEF Judge, Judged, Combine
<1>25. CASE Teardown
  BY <1>25 DEF Teardown
<1>26. CASE KeptOver
  BY <1>26 DEF KeptOver
<1>27. CASE KeptFails
  BY <1>27 DEF KeptFails
<1>28. CASE Delete
  BY <1>28 DEF Delete
<1>29. CASE DeleteFails
  BY <1>29 DEF DeleteFails, AnyError, After
<1>30. CASE Verified
  BY <1>30 DEF Verified
<1>31. CASE NotVerified
  BY <1>31 DEF NotVerified
<1>32. CASE Finish
  BY <1>32 DEF Finish, FinalExit
<1>33. CASE SignalOutside
  BY <1>33 DEF SignalOutside, Signal
<1>34. CASE SignalInTry
  BY <1>34 DEF SignalInTry, Signal
<1>35. CASE SignalInTeardown
  BY <1>35 DEF SignalInTeardown, Signal
<1>36. CASE SignalWhileKept
  BY <1>36 DEF SignalWhileKept, Signal
<1>37. CASE SigtermInDelete
  BY <1>37 DEF SigtermInDelete, Signal
<1>38. CASE Crash
  BY <1>38 DEF Crash
<1>39. CASE JobEnds
  BY <1>39 DEF JobEnds
<1>40. CASE TtlDeletes
  BY <1>40 DEF TtlDeletes
<1>41. CASE NextRunGc
  BY <1>41 DEF NextRunGc
<1>42. ASSUME NEW r \in Ranks, PodStarts(r) PROVE Ownership'
  BY <1>42 DEF PodStarts
<1>43. ASSUME NEW r \in Ranks, PodLost(r) PROVE Ownership'
  BY <1>43 DEF PodLost, Killed, SupervisorStep
<1>44. ASSUME NEW r \in Ranks, PodRemoved(r) PROVE Ownership'
  BY <1>44 DEF PodRemoved, Killed, SupervisorStep
<1>45. ASSUME NEW r \in Ranks, Arrive(r) PROVE Ownership'
  BY <1>45 DEF Arrive, SupervisorStep
<1>46. ASSUME NEW r \in Ranks, GiveUp(r) PROVE Ownership'
  BY <1>46 DEF GiveUp, SupervisorStep
<1>47. ASSUME NEW r \in Ranks, RecordsResult(r) PROVE Ownership'
  BY <1>47 DEF RecordsResult, SupervisorStep
<1>48. ASSUME NEW r \in Ranks, SaysFinished(r) PROVE Ownership'
  BY <1>48 DEF SaysFinished, SupervisorStep, Reads
<1>49. ASSUME NEW r \in Ranks, Leave(r) PROVE Ownership'
  BY <1>49 DEF Leave, SupervisorStep
<1>50. CASE UNCHANGED vars
  BY <1>50 DEF vars
<1>51. CASE UnexpectedInTry
  BY <1>51 DEF UnexpectedInTry
<1>52. CASE UnexpectedOutside
  BY <1>52 DEF UnexpectedOutside, InTeardown
<1> QED
  BY <1>1, <1>2, <1>3, <1>4, <1>5, <1>6, <1>7, <1>8, <1>9, <1>10, <1>11, <1>12, <1>13,
     <1>14, <1>15, <1>16, <1>17, <1>18, <1>19, <1>20, <1>21, <1>22, <1>23, <1>24, <1>25,
     <1>26, <1>27, <1>28, <1>29, <1>30, <1>31, <1>32, <1>33, <1>34, <1>35, <1>36, <1>37,
     <1>38, <1>39, <1>40, <1>41, <1>42, <1>43, <1>44, <1>45, <1>46, <1>47, <1>48, <1>49,
     <1>50, <1>51, <1>52
  DEF Next, CliMoves, CallsGoWrong, SignalsArrive, ClusterMoves, PodMoves, Done

\* The loops of upload: every copy is complete before the first ready marker.
Copies ==
    /\ cli = "upload" => \A r \in Ranks : r < at => r \in copied
    /\ cli \in {"mark", "stream", "collect", "settle", "touch", "judge"} => copied = Ranks
    /\ ready # {} => copied = Ranks
    /\ \A r \in Ranks : phase[r] \in {"running", "finished"} => copied = Ranks

\* Every step keeps Copies: only MarkReady touches ready, and only Arrive starts a plan.
LEMMA CopiesStep ==
    ASSUME TypeOK, Copies, [Next]_vars
    PROVE  Copies'
<1> USE DEF Copies, TypeOK, InTry, Over, cluster, podVars, supVars, markers, cliVars
<1>1. CASE Gc
  BY <1>1 DEF Gc
<1>2. CASE GcFails
  BY <1>2 DEF GcFails
<1>3. CASE Start
  BY <1>3 DEF Start
<1>4. CASE Apply
  BY <1>4 DEF Apply
<1>5. CASE ApplyFails
  BY <1>5 DEF ApplyFails, AnyError, After
<1>6. CASE Own
  BY <1>6 DEF Own
<1>7. CASE OwnFails
  BY <1>7 DEF OwnFails, Raise, AnyError, After
<1>8. CASE Unsuspend
  BY <1>8 DEF Unsuspend
<1>9. CASE UnsuspendFails
  BY <1>9 DEF UnsuspendFails, Raise, AnyError, After
<1>10. CASE Scheduled
  BY <1>10, RunAssumption DEF Scheduled, Ranks
<1>11. CASE NotScheduled
  BY <1>11 DEF NotScheduled, AnyError
<1>12. CASE Upload
  <2>1. phase' = phase /\ ready' = ready /\ copied' = copied \cup {at} /\ cli = "upload"
    BY <1>12 DEF Upload
  <2>2. CASE at < Pods
    <3>1. at' = at + 1 /\ cli' = "upload"
      BY <1>12, <2>2 DEF Upload, NextRank
    <3>2. \A r \in Ranks : r < at' => r \in copied'
      BY <2>1, <3>1, RunAssumption DEF Ranks
    <3> QED BY <2>1, <3>1, <3>2
  <2>3. CASE ~(at < Pods)
    <3>1. cli' = "mark"
      BY <1>12, <2>3 DEF Upload, NextRank
    <3>2. at = Pods
      BY <2>3, RunAssumption DEF Ranks
    <3>3. copied' = Ranks
      <4>1. \A r \in Ranks : r < at \/ r = at
        BY <3>2, RunAssumption DEF Ranks
      <4>2. \A r \in Ranks : r \in copied'
        BY <2>1, <4>1
      <4>3. copied' \subseteq Ranks
        BY <2>1
      <4> QED BY ONLY <4>2, <4>3
    <3> QED BY <2>1, <3>1, <3>3
  <2> QED BY <2>2, <2>3
<1>13. CASE MarkReady
  BY <1>13 DEF MarkReady, NextRank
<1>14. CASE MarkReadyFails
  BY <1>14 DEF MarkReadyFails, Raise, AnyError, After
<1>15. CASE SeesFinished
  BY <1>15 DEF SeesFinished
<1>16. CASE SeesItsLookalike
  BY <1>16 DEF SeesItsLookalike
<1>17. CASE AllSeen
  BY <1>17 DEF AllSeen
<1>18. CASE SeesDeadPod
  BY <1>18 DEF SeesDeadPod
<1>19. CASE CallFails
  BY <1>19 DEF CallFails, Raise, AnyError
<1>20. CASE Unreachable
  BY <1>20 DEF Unreachable
<1>21. CASE Collect
  BY <1>21 DEF Collect, NextRank, Reads
<1>22. CASE Settle
  BY <1>22 DEF Settle
<1>23. CASE TouchCollected
  BY <1>23 DEF TouchCollected, NextRank
<1>24. CASE Judge
  BY <1>24 DEF Judge, Judged, Combine
<1>25. CASE Teardown
  BY <1>25 DEF Teardown
<1>26. CASE KeptOver
  BY <1>26 DEF KeptOver
<1>27. CASE KeptFails
  BY <1>27 DEF KeptFails
<1>28. CASE Delete
  BY <1>28 DEF Delete
<1>29. CASE DeleteFails
  BY <1>29 DEF DeleteFails, AnyError, After
<1>30. CASE Verified
  BY <1>30 DEF Verified
<1>31. CASE NotVerified
  BY <1>31 DEF NotVerified
<1>32. CASE Finish
  BY <1>32 DEF Finish, FinalExit
<1>33. CASE SignalOutside
  BY <1>33 DEF SignalOutside, Signal
<1>34. CASE SignalInTry
  BY <1>34 DEF SignalInTry, Signal
<1>35. CASE SignalInTeardown
  BY <1>35 DEF SignalInTeardown, Signal
<1>36. CASE SignalWhileKept
  BY <1>36 DEF SignalWhileKept, Signal
<1>37. CASE SigtermInDelete
  BY <1>37 DEF SigtermInDelete, Signal
<1>38. CASE Crash
  BY <1>38 DEF Crash
<1>39. CASE JobEnds
  BY <1>39 DEF JobEnds
<1>40. CASE TtlDeletes
  BY <1>40 DEF TtlDeletes
<1>41. CASE NextRunGc
  BY <1>41 DEF NextRunGc
<1>42. ASSUME NEW r \in Ranks, PodStarts(r) PROVE Copies'
  BY <1>42 DEF PodStarts
<1>43. ASSUME NEW r \in Ranks, PodLost(r) PROVE Copies'
  BY <1>43 DEF PodLost, Killed, SupervisorStep
<1>44. ASSUME NEW r \in Ranks, PodRemoved(r) PROVE Copies'
  BY <1>44 DEF PodRemoved, Killed, SupervisorStep
<1>45. ASSUME NEW r \in Ranks, Arrive(r) PROVE Copies'
  BY <1>45 DEF Arrive, SupervisorStep
<1>46. ASSUME NEW r \in Ranks, GiveUp(r) PROVE Copies'
  BY <1>46 DEF GiveUp, SupervisorStep
<1>47. ASSUME NEW r \in Ranks, RecordsResult(r) PROVE Copies'
  BY <1>47 DEF RecordsResult, SupervisorStep
<1>48. ASSUME NEW r \in Ranks, SaysFinished(r) PROVE Copies'
  BY <1>48 DEF SaysFinished, SupervisorStep, Reads
<1>49. ASSUME NEW r \in Ranks, Leave(r) PROVE Copies'
  BY <1>49 DEF Leave, SupervisorStep
<1>50. CASE UNCHANGED vars
  BY <1>50 DEF vars
<1>51. CASE UnexpectedInTry
  BY <1>51 DEF UnexpectedInTry
<1>52. CASE UnexpectedOutside
  BY <1>52 DEF UnexpectedOutside, InTeardown
<1> QED
  BY <1>1, <1>2, <1>3, <1>4, <1>5, <1>6, <1>7, <1>8, <1>9, <1>10, <1>11, <1>12, <1>13,
     <1>14, <1>15, <1>16, <1>17, <1>18, <1>19, <1>20, <1>21, <1>22, <1>23, <1>24, <1>25,
     <1>26, <1>27, <1>28, <1>29, <1>30, <1>31, <1>32, <1>33, <1>34, <1>35, <1>36, <1>37,
     <1>38, <1>39, <1>40, <1>41, <1>42, <1>43, <1>44, <1>45, <1>46, <1>47, <1>48, <1>49,
     <1>50, <1>51, <1>52
  DEF Next, CliMoves, CallsGoWrong, SignalsArrive, ClusterMoves, PodMoves, Done

\* The loop of collect: every rank is copied out before the first collected marker.
Marks ==
    /\ cli \in {"gc", "start", "apply", "own", "unsuspend", "schedule", "upload", "mark",
                "stream", "collect", "settle"} => marked = {} /\ "kept" \notin flags
    /\ cli = "touch" => "kept" \notin flags
    /\ cli = "collect" => \A r \in Ranks : r < at => got[r] # "none"
    /\ cli \in {"settle", "touch", "judge"} => \A r \in Ranks : got[r] # "none"
    /\ MarkedWhenCollected

\* Every step keeps Marks.
LEMMA MarksStep ==
    ASSUME TypeOK, Marks, [Next]_vars
    PROVE  Marks'
<1> USE DEF Marks, MarkedWhenCollected, TypeOK, InTry, Over, cluster, podVars, supVars,
   markers, cliVars
<1>1. CASE Gc
  BY <1>1 DEF Gc
<1>2. CASE GcFails
  BY <1>2 DEF GcFails
<1>3. CASE Start
  BY <1>3 DEF Start
<1>4. CASE Apply
  BY <1>4 DEF Apply
<1>5. CASE ApplyFails
  BY <1>5 DEF ApplyFails, AnyError, After
<1>6. CASE Own
  BY <1>6 DEF Own
<1>7. CASE OwnFails
  BY <1>7 DEF OwnFails, Raise, AnyError, After
<1>8. CASE Unsuspend
  BY <1>8 DEF Unsuspend
<1>9. CASE UnsuspendFails
  BY <1>9 DEF UnsuspendFails, Raise, AnyError, After
<1>10. CASE Scheduled
  BY <1>10 DEF Scheduled
<1>11. CASE NotScheduled
  BY <1>11 DEF NotScheduled, AnyError
<1>12. CASE Upload
  BY <1>12 DEF Upload, NextRank
<1>13. CASE MarkReady
  BY <1>13 DEF MarkReady, NextRank
<1>14. CASE MarkReadyFails
  BY <1>14 DEF MarkReadyFails, Raise, AnyError, After
<1>15. CASE SeesFinished
  BY <1>15 DEF SeesFinished
<1>16. CASE SeesItsLookalike
  BY <1>16 DEF SeesItsLookalike
<1>17. CASE AllSeen
  BY <1>17, RunAssumption DEF AllSeen, Ranks
<1>18. CASE SeesDeadPod
  BY <1>18 DEF SeesDeadPod
<1>19. CASE CallFails
  BY <1>19 DEF CallFails, Raise, AnyError
<1>20. CASE Unreachable
  BY <1>20 DEF Unreachable
<1>21. CASE Collect
  BY <1>21, RunAssumption DEF Collect, NextRank, Reads, Ranks
<1>22. CASE Settle
  BY <1>22 DEF Settle
<1>23. CASE TouchCollected
  BY <1>23 DEF TouchCollected, NextRank
<1>24. CASE Judge
  BY <1>24 DEF Judge, Judged, Combine
<1>25. CASE Teardown
  BY <1>25 DEF Teardown
<1>26. CASE KeptOver
  BY <1>26 DEF KeptOver
<1>27. CASE KeptFails
  BY <1>27 DEF KeptFails
<1>28. CASE Delete
  BY <1>28 DEF Delete
<1>29. CASE DeleteFails
  BY <1>29 DEF DeleteFails, AnyError, After
<1>30. CASE Verified
  BY <1>30 DEF Verified
<1>31. CASE NotVerified
  BY <1>31 DEF NotVerified
<1>32. CASE Finish
  BY <1>32 DEF Finish, FinalExit
<1>33. CASE SignalOutside
  BY <1>33 DEF SignalOutside, Signal
<1>34. CASE SignalInTry
  BY <1>34 DEF SignalInTry, Signal
<1>35. CASE SignalInTeardown
  BY <1>35 DEF SignalInTeardown, Signal
<1>36. CASE SignalWhileKept
  BY <1>36 DEF SignalWhileKept, Signal
<1>37. CASE SigtermInDelete
  BY <1>37 DEF SigtermInDelete, Signal
<1>38. CASE Crash
  BY <1>38 DEF Crash
<1>39. CASE JobEnds
  BY <1>39 DEF JobEnds
<1>40. CASE TtlDeletes
  BY <1>40 DEF TtlDeletes
<1>41. CASE NextRunGc
  BY <1>41 DEF NextRunGc
<1>42. ASSUME NEW r \in Ranks, PodStarts(r) PROVE Marks'
  BY <1>42 DEF PodStarts
<1>43. ASSUME NEW r \in Ranks, PodLost(r) PROVE Marks'
  BY <1>43 DEF PodLost, Killed, SupervisorStep
<1>44. ASSUME NEW r \in Ranks, PodRemoved(r) PROVE Marks'
  BY <1>44 DEF PodRemoved, Killed, SupervisorStep
<1>45. ASSUME NEW r \in Ranks, Arrive(r) PROVE Marks'
  BY <1>45 DEF Arrive, SupervisorStep
<1>46. ASSUME NEW r \in Ranks, GiveUp(r) PROVE Marks'
  BY <1>46 DEF GiveUp, SupervisorStep
<1>47. ASSUME NEW r \in Ranks, RecordsResult(r) PROVE Marks'
  BY <1>47 DEF RecordsResult, SupervisorStep
<1>48. ASSUME NEW r \in Ranks, SaysFinished(r) PROVE Marks'
  BY <1>48 DEF SaysFinished, SupervisorStep, Reads
<1>49. ASSUME NEW r \in Ranks, Leave(r) PROVE Marks'
  BY <1>49 DEF Leave, SupervisorStep
<1>50. CASE UNCHANGED vars
  BY <1>50 DEF vars
<1>51. CASE UnexpectedInTry
  BY <1>51 DEF UnexpectedInTry
<1>52. CASE UnexpectedOutside
  BY <1>52 DEF UnexpectedOutside, InTeardown
<1> QED
  BY <1>1, <1>2, <1>3, <1>4, <1>5, <1>6, <1>7, <1>8, <1>9, <1>10, <1>11, <1>12, <1>13,
     <1>14, <1>15, <1>16, <1>17, <1>18, <1>19, <1>20, <1>21, <1>22, <1>23, <1>24, <1>25,
     <1>26, <1>27, <1>28, <1>29, <1>30, <1>31, <1>32, <1>33, <1>34, <1>35, <1>36, <1>37,
     <1>38, <1>39, <1>40, <1>41, <1>42, <1>43, <1>44, <1>45, <1>46, <1>47, <1>48, <1>49,
     <1>50, <1>51, <1>52
  DEF Next, CliMoves, CallsGoWrong, SignalsArrive, ClusterMoves, PodMoves, Done

\* No error so far, and no failed test either.
Undisturbed == "interrupted" \notin flags /\ "usage" \notin flags /\ "infra" \notin flags
Clean == Undisturbed /\ "failed" \notin flags

\* A result the CLI reads is the one the supervisor recorded, and flags without
\* an error mean that every rank has one.
Results ==
    /\ cli \in {"gc"} \cup InTry => Clean
    /\ \A r \in Ranks : settled[r] # "none" => report[r] # "none"
    /\ \A r \in Ranks : report[r] \in {"pass", "fail"} => settled[r] = report[r]
    /\ \A r \in Ranks : got[r] \in {"pass", "fail"} => settled[r] = got[r]
    /\ cli \in InTeardown \cup {"finish"} /\ Undisturbed =>
          \A r \in Ranks : got[r] \in {"pass", "fail"}
    /\ cli \in InTeardown \cup {"finish"} /\ Clean => \A r \in Ranks : got[r] = "pass"
    /\ exit # NoExit => cli = "ended"
    /\ exit = 0 => verified /\ \A r \in Ranks : got[r] = "pass"
    /\ exit = 1 /\ "unexpected" \notin flags => \A r \in Ranks : got[r] \in {"pass", "fail"}

\* Every step keeps Results; Marks says that a judged run has read every rank.
LEMMA ResultsStep ==
    ASSUME TypeOK, Marks, Results, [Next]_vars
    PROVE  Results'
<1> USE DEF Results, Undisturbed, Clean, TypeOK, InTry, InTeardown, Over, NoExit,
   cluster, podVars, supVars, markers, cliVars
<1>1. CASE Gc
  BY <1>1 DEF Gc
<1>2. CASE GcFails
  BY <1>2 DEF GcFails
<1>3. CASE Start
  BY <1>3 DEF Start
<1>4. CASE Apply
  BY <1>4 DEF Apply
<1>5. CASE ApplyFails
  BY <1>5 DEF ApplyFails, AnyError, After
<1>6. CASE Own
  BY <1>6 DEF Own
<1>7. CASE OwnFails
  BY <1>7 DEF OwnFails, Raise, AnyError, After
<1>8. CASE Unsuspend
  BY <1>8 DEF Unsuspend
<1>9. CASE UnsuspendFails
  BY <1>9 DEF UnsuspendFails, Raise, AnyError, After
<1>10. CASE Scheduled
  BY <1>10 DEF Scheduled
<1>11. CASE NotScheduled
  BY <1>11 DEF NotScheduled, AnyError
<1>12. CASE Upload
  BY <1>12 DEF Upload, NextRank
<1>13. CASE MarkReady
  BY <1>13 DEF MarkReady, NextRank
<1>14. CASE MarkReadyFails
  BY <1>14 DEF MarkReadyFails, Raise, AnyError, After
<1>15. CASE SeesFinished
  BY <1>15 DEF SeesFinished
<1>16. CASE SeesItsLookalike
  BY <1>16 DEF SeesItsLookalike
<1>17. CASE AllSeen
  BY <1>17 DEF AllSeen
<1>18. CASE SeesDeadPod
  BY <1>18 DEF SeesDeadPod
<1>19. CASE CallFails
  BY <1>19 DEF CallFails, Raise, AnyError
<1>20. CASE Unreachable
  BY <1>20 DEF Unreachable
<1>21. CASE Collect
  BY <1>21 DEF Collect, NextRank, Reads
<1>22. CASE Settle
  BY <1>22 DEF Settle
<1>23. CASE TouchCollected
  BY <1>23 DEF TouchCollected, NextRank
<1>24. CASE Judge
  BY <1>24 DEF Judge, Judged, Combine
<1>25. CASE Teardown
  BY <1>25 DEF Teardown
<1>26. CASE KeptOver
  BY <1>26 DEF KeptOver
<1>27. CASE KeptFails
  BY <1>27 DEF KeptFails
<1>28. CASE Delete
  BY <1>28 DEF Delete
<1>29. CASE DeleteFails
  BY <1>29 DEF DeleteFails, AnyError, After
<1>30. CASE Verified
  BY <1>30 DEF Verified
<1>31. CASE NotVerified
  BY <1>31 DEF NotVerified
<1>32. CASE Finish
  BY <1>32 DEF Finish, FinalExit
<1>33. CASE SignalOutside
  BY <1>33 DEF SignalOutside, Signal
<1>34. CASE SignalInTry
  BY <1>34 DEF SignalInTry, Signal
<1>35. CASE SignalInTeardown
  BY <1>35 DEF SignalInTeardown, Signal
<1>36. CASE SignalWhileKept
  BY <1>36 DEF SignalWhileKept, Signal
<1>37. CASE SigtermInDelete
  BY <1>37 DEF SigtermInDelete, Signal
<1>38. CASE Crash
  BY <1>38 DEF Crash
<1>39. CASE JobEnds
  BY <1>39 DEF JobEnds
<1>40. CASE TtlDeletes
  BY <1>40 DEF TtlDeletes
<1>41. CASE NextRunGc
  BY <1>41 DEF NextRunGc
<1>42. ASSUME NEW r \in Ranks, PodStarts(r) PROVE Results'
  BY <1>42 DEF PodStarts
<1>43. ASSUME NEW r \in Ranks, PodLost(r) PROVE Results'
  BY <1>43 DEF PodLost, Killed, SupervisorStep
<1>44. ASSUME NEW r \in Ranks, PodRemoved(r) PROVE Results'
  BY <1>44 DEF PodRemoved, Killed, SupervisorStep
<1>45. ASSUME NEW r \in Ranks, Arrive(r) PROVE Results'
  BY <1>45 DEF Arrive, SupervisorStep
<1>46. ASSUME NEW r \in Ranks, GiveUp(r) PROVE Results'
  BY <1>46 DEF GiveUp, SupervisorStep
<1>47. ASSUME NEW r \in Ranks, RecordsResult(r) PROVE Results'
  BY <1>47 DEF RecordsResult, SupervisorStep
<1>48. ASSUME NEW r \in Ranks, SaysFinished(r) PROVE Results'
  BY <1>48 DEF SaysFinished, SupervisorStep, Reads
<1>49. ASSUME NEW r \in Ranks, Leave(r) PROVE Results'
  BY <1>49 DEF Leave, SupervisorStep
<1>50. CASE UNCHANGED vars
  BY <1>50 DEF vars
<1>51. CASE UnexpectedInTry
  BY <1>51 DEF UnexpectedInTry
<1>52. CASE UnexpectedOutside
  BY <1>52 DEF UnexpectedOutside, InTeardown
<1> QED
  BY <1>1, <1>2, <1>3, <1>4, <1>5, <1>6, <1>7, <1>8, <1>9, <1>10, <1>11, <1>12, <1>13,
     <1>14, <1>15, <1>16, <1>17, <1>18, <1>19, <1>20, <1>21, <1>22, <1>23, <1>24, <1>25,
     <1>26, <1>27, <1>28, <1>29, <1>30, <1>31, <1>32, <1>33, <1>34, <1>35, <1>36, <1>37,
     <1>38, <1>39, <1>40, <1>41, <1>42, <1>43, <1>44, <1>45, <1>46, <1>47, <1>48, <1>49,
     <1>50, <1>51, <1>52
  DEF Next, CliMoves, CallsGoWrong, SignalsArrive, ClusterMoves, PodMoves, Done

-----------------------------------------------------------------------------
Inv == TypeOK /\ Ownership /\ Copies /\ Marks /\ Results

\* The inductive invariant holds in every reachable state, for any number of
\* pods, with or without --keep-on-failure, failing calls and signals.
THEOREM InvHolds == Spec => []Inv
<1>1. Init => Inv
  <2> SUFFICES ASSUME Init PROVE Inv
    OBVIOUS
  <2> USE RunAssumption DEF Init, TypeOK, Ranks, NoExit
  <2>1. TypeOK
    <3>1. at \in Ranks /\ signals \in 0..MaxSignals
      OBVIOUS
    <3>2. cli \in CliPcs /\ exit \in {NoExit, 0, 1, 2, 3, 4, 130}
      BY DEF CliPcs
    <3>3. flags \subseteq Flags /\ seen \subseteq Ranks /\ copied \subseteq Ranks
      OBVIOUS
    <3> QED BY <3>1, <3>2, <3>3
  <2>2. Ownership
    BY DEF Ownership, AllGone
  <2>3. Copies
    BY DEF Copies
  <2>4. Marks
    BY DEF Marks, MarkedWhenCollected
  <2>5. Results
    BY DEF Results, Undisturbed, Clean, InTeardown
  <2> QED BY <2>1, <2>2, <2>3, <2>4, <2>5 DEF Inv
<1>2. Inv /\ [Next]_vars => Inv'
  BY TypeStep, OwnershipStep, CopiesStep, MarksStep, ResultsStep DEF Inv
<1> QED BY <1>1, <1>2, PTL DEF Spec

\* Every variable of the CLI, the Job and the pods stays in its range.
THEOREM TypeCorrect == Spec => []TypeOK
<1>1. Inv => TypeOK
  BY DEF Inv
<1> QED BY <1>1, InvHolds, PTL

\* final_exit returns 0 only for a run whose every supervisor recorded a pass and
\* of which nothing is left, wherever calls failed and signals came.
THEOREM ZeroWasEarned == Spec => []ExitZeroIsEarned
<1>1. Inv => ExitZeroIsEarned
  <2> SUFFICES ASSUME Inv, exit = 0 PROVE AllGone /\ \A r \in Ranks : settled[r] = "pass"
    BY DEF ExitZeroIsEarned
  <2>1. cli = "ended" /\ verified /\ \A r \in Ranks : got[r] = "pass"
    BY DEF Inv, Results, NoExit
  <2>2. AllGone
    BY <2>1 DEF Inv, Ownership
  <2>3. \A r \in Ranks : settled[r] = "pass"
    BY <2>1 DEF Inv, Results
  <2> QED BY <2>2, <2>3
<1> QED BY <1>1, InvHolds, PTL

\* final_exit returns 1 only when every supervisor recorded a test result; the
\* other exit 1 is OstiaApp's, for an unexpected error outside the try block.
THEOREM OneWasATestResult == Spec => []ExitOneIsATestResult
<1>1. Inv => ExitOneIsATestResult
  <2> SUFFICES ASSUME Inv, exit = 1, "unexpected" \notin flags, NEW r \in Ranks
              PROVE  settled[r] # "none"
    BY DEF ExitOneIsATestResult
  <2>1. got[r] \in {"pass", "fail"}
    BY DEF Inv, Results
  <2> QED BY <2>1 DEF Inv, Results
<1> QED BY <1>1, InvHolds, PTL

\* When teardown says verified, the Job and the pods are gone and stay gone.
THEOREM VerifiedWasGone == Spec => []VerifiedMeansGone
<1>1. Inv => VerifiedMeansGone
  BY DEF Inv, Ownership, VerifiedMeansGone
<1> QED BY <1>1, InvHolds, PTL

\* No pod is marked collected before every rank is copied out, or in a kept run.
THEOREM CollectedBeforeMarked == Spec => []MarkedWhenCollected
<1>1. Inv => MarkedWhenCollected
  BY DEF Inv, Marks
<1> QED BY <1>1, InvHolds, PTL

\* The policy and the Secret exist before any pod, in every order of the calls.
THEOREM PolicyComesFirst == Spec => []NoPodBeforeItsPolicy
<1>1. Inv => NoPodBeforeItsPolicy
  BY DEF Inv, Ownership, NoPodBeforeItsPolicy
<1> QED BY <1>1, InvHolds, PTL

\* No rank starts its plan while another rank's copy is incomplete.
THEOREM CopiesComeFirst == Spec => []NoStepBeforeEveryCopy
<1>1. Inv => NoStepBeforeEveryCopy
  BY DEF Inv, Copies, NoStepBeforeEveryCopy
<1> QED BY <1>1, InvHolds, PTL

\* The order of start, upload and collect, as one invariant.
THEOREM OrderIsKept == Spec => []NothingTooEarly
<1>1. NothingTooEarly <=> NoPodBeforeItsPolicy /\ NoStepBeforeEveryCopy /\ MarkedWhenCollected
  BY DEF NothingTooEarly
<1> QED BY <1>1, PolicyComesFirst, CopiesComeFirst, CollectedBeforeMarked, PTL

-----------------------------------------------------------------------------
PodSteps == \A r \in Ranks : [PodOf(r)!Next]_<<phase[r], report[r]>>

\* What happens to one pod's phase and report is a step of its contract.
LEMMA PodStep ==
    ASSUME TypeOK, [Next]_vars
    PROVE  PodSteps \/ UNCHANGED supVars
<1>1. CASE CliMoves \/ SeesItsLookalike
  BY <1>1 DEF CliMoves, Gc, Start, Apply, Own, Unsuspend, Scheduled, NotScheduled, Upload,
     MarkReady, SeesFinished, AllSeen, SeesDeadPod, Unreachable, Collect, Settle,
     TouchCollected, Judge, Teardown, KeptOver, Delete, Verified, NotVerified, Finish,
     SeesItsLookalike, cluster, podVars
<1>2. CASE CallsGoWrong
  BY <1>2 DEF CallsGoWrong, GcFails, ApplyFails, OwnFails, UnsuspendFails, MarkReadyFails,
     CallFails, KeptFails, DeleteFails, UnexpectedInTry, UnexpectedOutside, cluster, podVars
<1>3. CASE SignalsArrive \/ Crash
  BY <1>3 DEF SignalsArrive, SignalOutside, SignalInTry, SignalInTeardown, SignalWhileKept,
     SigtermInDelete, Crash, cluster, podVars
<1>4. CASE JobEnds \/ TtlDeletes \/ NextRunGc \/ Done \/ UNCHANGED vars
  BY <1>4 DEF JobEnds, TtlDeletes, NextRunGc, Done, vars, cluster, podVars
<1>5. ASSUME NEW q \in Ranks,
             PodStarts(q) \/ PodLost(q) \/ PodRemoved(q) \/ PodMoves(q)
      PROVE  PodSteps \/ UNCHANGED supVars
  <2>1. CASE PodStarts(q)
    BY <2>1 DEF PodStarts
  <2> SUFFICES ASSUME NEW r \in Ranks, ~PodStarts(q)
               PROVE  [PodOf(r)!Next]_<<phase[r], report[r]>>
    BY <2>1 DEF PodSteps
  <2> USE DEF TypeOK, SupervisorStep
  <2>2. CASE Arrive(q)
    BY <2>2 DEF Arrive, PodOf!Next, PodOf!Arrive
  <2>3. CASE GiveUp(q)
    BY <2>3 DEF GiveUp, PodOf!Next, PodOf!GiveUp
  <2>4. CASE RecordsResult(q)
    BY <2>4 DEF RecordsResult, PodOf!Next, PodOf!Settle
  <2>5. CASE SaysFinished(q)
    BY <2>5 DEF SaysFinished, Reads, PodOf!Next, PodOf!Complete
  <2>6. CASE Leave(q)
    BY <2>6 DEF Leave, PodOf!Next, PodOf!Leave
  <2>7. CASE PodLost(q) \/ PodRemoved(q)
    BY <2>7 DEF PodLost, PodRemoved, Killed, PodOf!Next, PodOf!Terminate
  <2> QED BY <1>5, <2>2, <2>3, <2>4, <2>5, <2>6, <2>7 DEF PodMoves
<1> QED
  BY <1>1, <1>2, <1>3, <1>4, <1>5 DEF Next, ClusterMoves

\* Every pod of the run behaves as PodContract allows, whatever the cluster and
\* the CLI do around it: RemoteRun uses the supervisor only as it is specified.
THEOREM PodsAsPromised == Spec => PodsKeepTheContract
<1>1. Init => \A r \in Ranks : PodOf(r)!Init
  BY DEF Init, PodOf!Init
<1>2. Inv /\ [Next]_vars => [\A r \in Ranks : [PodOf(r)!Next]_<<phase[r], report[r]>>]_supVars
  BY PodStep DEF Inv, PodSteps
<1> QED BY <1>1, <1>2, InvHolds, PTL DEF Spec, PodsKeepTheContract
=============================================================================
