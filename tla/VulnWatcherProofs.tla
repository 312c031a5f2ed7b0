-------------------------- MODULE VulnWatcherProofs --------------------------
(* Theorems about VulnWatcher for every value of its constants. *)
EXTENDS VulnWatcher, TLAPS

LEMMA EmptyIsCursor == Empty \in Cursors
  BY DEF Empty, Cursors

LEMMA ActorRepo ==
  ASSUME TypeOK, NEW a \in Actors, pc[a] \in PerRepo
  PROVE  Repo(a) \in Repos /\ Tail(todo[a]) \in Seq(Repos)
  BY DEF TypeOK, Repo

LEMMA InitTypeOK == Init => TypeOK
<1> SUFFICES ASSUME Init PROVE TypeOK
  OBVIOUS
<1>1. <<>> \in Seq(Repos)
  OBVIOUS
<1> QED
  BY <1>1, EmptyIsCursor
  DEF Init, TypeOK, Everyone, Home, PCs, AtRest, Loaded, PerRepo, Results

LEMMA NextTypeOK == TypeOK /\ [Next]_vars => TypeOK'
<1> SUFFICES ASSUME TypeOK, [Next]_vars PROVE TypeOK'
  OBVIOUS
<1> USE DEF TypeOK, PCs, AtRest, Loaded, PerRepo, Goto
<1>0. <<>> \in Seq(Repos)
  OBVIOUS
<1>1. CASE LoopPoll
  BY <1>1, LoopAssumption DEF LoopPoll, Acquire, Actors, histVars, worldVars
<1>2. CASE LoopStops
  BY <1>2 DEF LoopStops, Actors, histVars, worldVars
<1>3. CASE Restart
  BY <1>0, <1>3, EmptyIsCursor DEF Restart, Everyone, Home, Results, worldVars, Unsaved
<1>4. ASSUME NEW t \in Triggers, TriggerAccepted(t) PROVE TypeOK'
  BY <1>4 DEF TriggerAccepted, Acquire, Actors, histVars, worldVars
<1>5. ASSUME NEW t \in Triggers, TriggerRejected(t) PROVE TypeOK'
  BY <1>5 DEF TriggerRejected, Actors, histVars, worldVars
<1>6. ASSUME NEW t \in Triggers, Launch(t) PROVE TypeOK'
  BY <1>6 DEF Launch, Actors, histVars, worldVars
<1>7. ASSUME NEW t \in Triggers, LaunchFails(t) PROVE TypeOK'
  BY <1>0, <1>7, EmptyIsCursor DEF LaunchFails, Forget, Actors, Results, histVars, worldVars
<1>8. ASSUME NEW t \in Triggers, Panic(t) PROVE TypeOK'
  BY <1>0, <1>8, EmptyIsCursor DEF Panic, Forget, Actors, Results, Unsaved, worldVars
<1>9. ASSUME NEW a \in Actors, Load(a) PROVE TypeOK'
  BY <1>9 DEF Load, histVars, worldVars
<1>10. ASSUME NEW a \in Actors, LoadFails(a) PROVE TypeOK'
  BY <1>10 DEF LoadFails, Return, Results, histVars, worldVars
<1>11. ASSUME NEW a \in Actors, ListRepos(a) PROVE TypeOK'
  BY <1>11, ListingsAssumption DEF ListRepos, histVars, worldVars
<1>12. ASSUME NEW a \in Actors, ListReposFails(a) PROVE TypeOK'
  BY <1>12 DEF ListReposFails, Return, Results, histVars, worldVars
<1>13. ASSUME NEW a \in Actors, NextRepo(a) PROVE TypeOK'
  BY <1>13 DEF NextRepo, histVars, worldVars
<1>14. ASSUME NEW a \in Actors, ReposDone(a) PROVE TypeOK'
  BY <1>14 DEF ReposDone, histVars, worldVars
<1>15. ASSUME NEW a \in Actors, Gather(a) PROVE TypeOK'
  BY <1>15 DEF Gather, histVars, worldVars
<1>16. ASSUME NEW a \in Actors, GatherSkips(a) PROVE TypeOK'
  BY <1>16 DEF GatherSkips, Continue, histVars, worldVars
<1>17. ASSUME NEW a \in Actors, GatherRateLimited(a) PROVE TypeOK'
  BY <1>17 DEF GatherRateLimited, Return, Results, Unsaved, worldVars
<1>18. ASSUME NEW a \in Actors, Scan(a) PROVE TypeOK'
  BY <1>18, ActorRepo DEF Scan, Cursors, histVars, worldVars
<1>19. ASSUME NEW a \in Actors, ScanSkips(a) PROVE TypeOK'
  BY <1>19 DEF ScanSkips, Continue, histVars, worldVars
<1>20. ASSUME NEW a \in Actors, DedupPasses(a) PROVE TypeOK'
  BY <1>20 DEF DedupPasses, histVars, worldVars
<1>21. ASSUME NEW a \in Actors, DedupSkips(a) PROVE TypeOK'
  BY <1>21 DEF DedupSkips, Continue, histVars, worldVars
<1>22. ASSUME NEW a \in Actors, Publish(a) PROVE TypeOK'
  <2> DEFINE r == Repo(a)
             id == cand[a]
  <2>1. r \in Repos /\ id \in Ids
    BY <1>22, ActorRepo DEF Publish
  <2>2. filed' \in Cursors /\ delivered' \in SUBSET (Repos \X Ids)
    BY <1>22, <2>1 DEF Publish, Deliver, Cursors
  <2>3. mem' \in [Actors -> Cursors]
    BY <1>22, <2>1 DEF Publish, Cursors
  <2>4. lost' \in SUBSET Repos
    BY <1>22, <2>1 DEF Publish
  <2> QED
    BY <1>22, <2>2, <2>3, <2>4 DEF Publish, Continue, worldVars
<1>23. ASSUME NEW a \in Actors, PublishFails(a) PROVE TypeOK'
  BY <1>23 DEF PublishFails, Continue, histVars, worldVars
<1>24. ASSUME NEW a \in Actors, PublishAckLost(a) PROVE TypeOK'
  <2> DEFINE r == Repo(a)
             id == cand[a]
  <2>1. r \in Repos /\ id \in Ids
    BY <1>24, ActorRepo DEF PublishAckLost
  <2>2. filed' \in Cursors /\ delivered' \in SUBSET (Repos \X Ids)
    BY <1>24, <2>1 DEF PublishAckLost, Deliver, Cursors
  <2>3. mem' \in [Actors -> Cursors]
    BY <1>24 DEF PublishAckLost
  <2>4. lost' \in SUBSET Repos
    BY <1>24, <2>1 DEF PublishAckLost
  <2> QED
    BY <1>24, <2>2, <2>3, <2>4 DEF PublishAckLost, Continue, worldVars
<1>25. ASSUME NEW a \in Actors, SaveCursor(a) PROVE TypeOK'
  BY <1>25 DEF SaveCursor, Return, Results, worldVars
<1>26. ASSUME NEW a \in Actors, SaveCursorFails(a) PROVE TypeOK'
  BY <1>26 DEF SaveCursorFails, Return, Results, Unsaved, worldVars
<1>27. ASSUME NEW a \in Actors, Release(a) PROVE TypeOK'
  BY <1>0, <1>27, EmptyIsCursor DEF Release, Forget, Home, Results, histVars, worldVars
<1>28. CASE Cancel
  BY <1>28 DEF Cancel, cycleVars, histVars, worldVars
<1>29. CASE Corrupt
  BY <1>29, EmptyIsCursor DEF Corrupt, procVars, cycleVars, worldVars
<1>30. CASE FindingsDrift
  BY <1>30 DEF FindingsDrift, Cursors, procVars, cycleVars, histVars
<1>31. CASE ConsentDrift
  BY <1>31 DEF ConsentDrift, procVars, cycleVars, histVars
<1>32. CASE CalmDown
  BY <1>32 DEF CalmDown, procVars, cycleVars, histVars
<1>33. CASE UNCHANGED vars
  BY <1>33 DEF vars, procVars, cycleVars, worldVars, histVars
<1> QED
  BY <1>1, <1>2, <1>3, <1>4, <1>5, <1>6, <1>7, <1>8, <1>9, <1>10, <1>11, <1>12,
     <1>13, <1>14, <1>15, <1>16, <1>17, <1>18, <1>19, <1>20, <1>21, <1>22, <1>23,
     <1>24, <1>25, <1>26, <1>27, <1>28, <1>29, <1>30, <1>31, <1>32, <1>33
  DEF Next, TriggerStep, CycleStep, Environment, Exit, Crash

\* The variables keep their types in every behaviour of the service.
THEOREM TypeCorrect == Spec => []TypeOK
  BY InitTypeOK, NextTypeOK, PTL DEF Spec

-----------------------------------------------------------------------------
(* One cycle at a time.                                                    *)

\* a moves on in its cycle and keeps the slot; the other actors stand still.
MovesOn(a) ==
  /\ gate' = gate
  /\ Holds(a) /\ Holds(a)'
  /\ \A b \in Actors \ {a} : pc'[b] = pc[b]

LEMMA CycleStepMovesOn ==
  ASSUME TypeOK, NEW a \in Actors, CycleStep(a), ~Release(a)
  PROVE  MovesOn(a)
<1> USE DEF MovesOn, Holds, AtRest, Goto, TypeOK
<1>1. CASE Load(a) \/ LoadFails(a) \/ ListRepos(a) \/ ListReposFails(a)
  BY <1>1 DEF Load, LoadFails, ListRepos, ListReposFails, Return
<1>2. CASE NextRepo(a) \/ ReposDone(a)
  BY <1>2 DEF NextRepo, ReposDone
<1>3. CASE Gather(a) \/ GatherSkips(a) \/ GatherRateLimited(a)
  BY <1>3 DEF Gather, GatherSkips, GatherRateLimited, Continue, Return
<1>4. CASE Scan(a) \/ ScanSkips(a)
  BY <1>4 DEF Scan, ScanSkips, Continue
<1>5. CASE DedupPasses(a) \/ DedupSkips(a)
  BY <1>5 DEF DedupPasses, DedupSkips, Continue
<1>6. CASE Publish(a) \/ PublishFails(a) \/ PublishAckLost(a)
  BY <1>6 DEF Publish, PublishFails, PublishAckLost, Continue
<1>7. CASE SaveCursor(a) \/ SaveCursorFails(a)
  BY <1>7 DEF SaveCursor, SaveCursorFails, Return
<1> QED
  BY <1>1, <1>2, <1>3, <1>4, <1>5, <1>6, <1>7 DEF CycleStep

LEMMA InitOneCycle == Init => OneCycleAtATime
  BY DEF Init, OneCycleAtATime, Holds, AtRest, Home

LEMMA NextOneCycle ==
  TypeOK /\ OneCycleAtATime /\ [Next]_vars => OneCycleAtATime'
<1> SUFFICES ASSUME TypeOK, OneCycleAtATime, [Next]_vars PROVE OneCycleAtATime'
  OBVIOUS
<1> USE DEF OneCycleAtATime
\* A step that leaves the slot alone and takes nobody in or out of a cycle.
<1>a. ASSUME gate' = gate, \A b \in Actors : Holds(b)' = Holds(b)
      PROVE  OneCycleAtATime'
  BY <1>a
\* A step by which the only holder of the slot gives it back.
<1>b. ASSUME NEW a \in Actors, Holds(a), gate' = FALSE, ~Holds(a)',
             \A b \in Actors \ {a} : pc'[b] = pc[b]
      PROVE  OneCycleAtATime'
  BY <1>b DEF Holds
\* A step by which an actor takes the free slot.
<1>c. ASSUME NEW a \in Actors, ~gate, gate' = TRUE, Holds(a)',
             \A b \in Actors \ {a} : pc'[b] = pc[b]
      PROVE  OneCycleAtATime'
  BY <1>c DEF Holds
<1>1. CASE LoopPoll
  BY <1>1, <1>c DEF LoopPoll, Acquire, Goto, Holds, AtRest, Actors, TypeOK
<1>2. CASE LoopStops
  BY <1>2, <1>a DEF LoopStops, Goto, Holds, AtRest, Actors, TypeOK
<1>3. CASE Restart
  BY <1>3 DEF Restart, Holds, AtRest, Home
<1>4. ASSUME NEW t \in Triggers, TriggerAccepted(t) PROVE OneCycleAtATime'
  BY <1>4, <1>c DEF TriggerAccepted, Acquire, Goto, Holds, AtRest, Actors, TypeOK
<1>5. ASSUME NEW t \in Triggers, TriggerRejected(t) PROVE OneCycleAtATime'
  BY <1>5, <1>a DEF TriggerRejected, Goto, Holds, AtRest, Actors, TypeOK
<1>6. ASSUME NEW t \in Triggers, Launch(t) PROVE OneCycleAtATime'
  BY <1>6, <1>a DEF Launch, Goto, Holds, AtRest, Actors, TypeOK
<1>7. ASSUME NEW t \in Triggers, LaunchFails(t) PROVE OneCycleAtATime'
  BY <1>7, <1>b DEF LaunchFails, Forget, Goto, Holds, AtRest, Actors, TypeOK
<1>8. ASSUME NEW t \in Triggers, Panic(t) PROVE OneCycleAtATime'
  BY <1>8, <1>b
  DEF Panic, InMemory, Loaded, PerRepo, Forget, Goto, Holds, AtRest, Actors, TypeOK
<1>9. ASSUME NEW a \in Actors, Release(a) PROVE OneCycleAtATime'
  BY <1>9, <1>b DEF Release, Forget, Goto, Home, Holds, AtRest, TypeOK
<1>10. ASSUME NEW a \in Actors, CycleStep(a), ~Release(a) PROVE OneCycleAtATime'
  BY <1>10, <1>a, CycleStepMovesOn DEF MovesOn, Holds
<1>11. CASE Cancel \/ Corrupt \/ FindingsDrift \/ ConsentDrift \/ CalmDown
  BY <1>11 DEF Cancel, Corrupt, FindingsDrift, ConsentDrift, CalmDown,
               procVars, cycleVars, Holds
<1>12. CASE UNCHANGED vars
  BY <1>12 DEF vars, procVars, cycleVars, Holds
<1> QED
  BY <1>1, <1>2, <1>3, <1>4, <1>5, <1>6, <1>7, <1>8, <1>9, <1>10, <1>11, <1>12
  DEF Next, TriggerStep, Environment, Exit, Crash

\* CycleGate keeps its promise for any number of clients of /trigger, whichever
\* faults happen: one cycle at a time, and the slot is busy exactly while one is.
THEOREM MutualExclusion == Spec => []OneCycleAtATime
<1>1. Init => TypeOK /\ OneCycleAtATime
  BY InitTypeOK, InitOneCycle
<1>2. TypeOK /\ OneCycleAtATime /\ [Next]_vars => (TypeOK /\ OneCycleAtATime)'
  BY NextTypeOK, NextOneCycle
<1> QED
  BY <1>1, <1>2, PTL DEF Spec

-----------------------------------------------------------------------------
(* The cursor.                                                             *)

\* What makes CursorTracksFiled inductive: entries are sound, a running cycle
\* never knows less than the file, and between its load and its listing it
\* knows the same.
CursorInv ==
  /\ CursorTracksFiled
  /\ CursorSound
  /\ \A a \in Actors, r \in Repos :
       InMemory(a) /\ disk[r] # None => mem[a][r] # None
  /\ \A a \in Actors, r \in Repos \ lost : pc[a] = "list" => mem[a][r] = disk[r]

\* A step that does not touch the cursor in force, nor what it is measured by.
KeepsCursor ==
  /\ UNCHANGED <<disk, histVars>>
  /\ \A b \in Actors :
       /\ InMemory(b)' = InMemory(b)
       /\ InMemory(b) => mem'[b] = mem[b]
       /\ pc'[b] = "list" => pc[b] = "list"

LEMMA KeepsCursorKeepsInv ==
  ASSUME CursorInv, KeepsCursor PROVE CursorInv'
<1>1. UNCHANGED <<disk, filed, delivered, lost>>
  BY DEF KeepsCursor, histVars
<1>2. \A b \in Actors : pc[b] = "list" => InMemory(b)
  BY DEF InMemory, Loaded
<1>3. CursorTracksFiled'
  BY <1>1 DEF CursorInv, KeepsCursor, CursorTracksFiled, Shows
<1>4. CursorSound'
  BY <1>1 DEF CursorInv, KeepsCursor, CursorSound
<1> QED
  BY <1>1, <1>2, <1>3, <1>4 DEF CursorInv, KeepsCursor

LEMMA SoleInMemory ==
  ASSUME OneCycleAtATime, NEW a \in Actors, Holds(a), NEW b \in Actors, b # a
  PROVE  ~InMemory(b)
  BY DEF OneCycleAtATime, Holds, InMemory, AtRest, Loaded, PerRepo

LEMMA QuietSteps ==
  ASSUME TypeOK, [Next]_vars
  PROVE  \/ KeepsCursor
         \/ Restart
         \/ Corrupt
         \/ \E t \in Triggers : Panic(t)
         \/ \E a \in Actors :
              \/ Load(a) \/ ListReposFails(a) \/ GatherRateLimited(a)
              \/ Publish(a) \/ PublishAckLost(a)
              \/ SaveCursor(a) \/ SaveCursorFails(a)
<1> USE DEF KeepsCursor, InMemory, Loaded, PerRepo, AtRest, Goto, TypeOK
<1>1. CASE LoopPoll \/ LoopStops
  BY <1>1 DEF LoopPoll, LoopStops, Acquire, Actors
<1>2. ASSUME NEW t \in Triggers,
             TriggerAccepted(t) \/ TriggerRejected(t) \/ Launch(t)
      PROVE  KeepsCursor
  BY <1>2 DEF TriggerAccepted, TriggerRejected, Launch, Acquire, Actors
<1>3. ASSUME NEW t \in Triggers, LaunchFails(t) PROVE KeepsCursor
  BY <1>3 DEF LaunchFails, Forget, Actors
<1>4. ASSUME NEW a \in Actors, LoadFails(a) \/ ListRepos(a) PROVE KeepsCursor
  BY <1>4 DEF LoadFails, ListRepos, Return
<1>5. ASSUME NEW a \in Actors, NextRepo(a) \/ ReposDone(a) PROVE KeepsCursor
  BY <1>5 DEF NextRepo, ReposDone
<1>6. ASSUME NEW a \in Actors, Gather(a) \/ GatherSkips(a) PROVE KeepsCursor
  BY <1>6 DEF Gather, GatherSkips, Continue
<1>7. ASSUME NEW a \in Actors, Scan(a) \/ ScanSkips(a) PROVE KeepsCursor
  BY <1>7 DEF Scan, ScanSkips, Continue
<1>8. ASSUME NEW a \in Actors, DedupPasses(a) \/ DedupSkips(a) \/ PublishFails(a)
      PROVE  KeepsCursor
  BY <1>8 DEF DedupPasses, DedupSkips, PublishFails, Continue
<1>9. ASSUME NEW a \in Actors, Release(a) PROVE KeepsCursor
  BY <1>9 DEF Release, Forget, Home
<1>10. CASE Cancel \/ FindingsDrift \/ ConsentDrift \/ CalmDown
  BY <1>10 DEF Cancel, FindingsDrift, ConsentDrift, CalmDown, procVars, cycleVars
<1>11. CASE UNCHANGED vars
  BY <1>11 DEF vars, procVars, cycleVars
<1> QED
  BY <1>1, <1>2, <1>3, <1>4, <1>5, <1>6, <1>7, <1>8, <1>9, <1>10, <1>11
  DEF Next, TriggerStep, CycleStep, Environment, Exit, Crash

\* A step by which a's memory goes away unsaved, each entry only it held being
\* noted in lost.
LEMMA Discarding ==
  ASSUME TypeOK, OneCycleAtATime, CursorInv, NEW a \in Actors,
         InMemory(a), UNCHANGED <<disk, filed, delivered>>,
         lost' = lost \cup Unsaved(a), \A b \in Actors : ~InMemory(b)'
  PROVE  CursorInv'
<1>1. CursorTracksFiled'
  BY DEF CursorTracksFiled, CursorInv, Shows, Unsaved
<1>2. CursorSound'
  BY DEF CursorSound, CursorInv
<1>3. \A b \in Actors : pc'[b] # "list"
  BY DEF InMemory, Loaded
<1> QED
  BY <1>1, <1>2, <1>3 DEF CursorInv

LEMMA InitCursorInv == Init => CursorInv
<1> SUFFICES ASSUME Init PROVE CursorInv
  OBVIOUS
<1>1. \A a \in Actors : ~InMemory(a) /\ pc[a] # "list"
  BY DEF Init, InMemory, Loaded, PerRepo, Home
<1>2. \A r \in Repos : disk[r] = None /\ filed[r] = None
  BY DEF Init, Empty
<1> QED
  BY <1>1, <1>2 DEF CursorInv, CursorTracksFiled, CursorSound, Shows

LEMMA NextCursorInv ==
  TypeOK /\ OneCycleAtATime /\ CursorInv /\ [Next]_vars => CursorInv'
<1> SUFFICES ASSUME TypeOK, OneCycleAtATime, CursorInv, [Next]_vars
             PROVE  CursorInv'
  OBVIOUS
<1>1. CASE KeepsCursor
  BY <1>1, KeepsCursorKeepsInv
<1>2. CASE Restart
  <2>1. \A b \in Actors : ~InMemory(b)' /\ pc'[b] # "list"
    BY <1>2 DEF Restart, InMemory, Loaded, PerRepo, Home
  <2>2. \A r \in Repos \ lost' : disk'[r] = filed'[r]
    <3> SUFFICES ASSUME NEW r \in Repos, r \notin lost' PROVE disk[r] = filed[r]
      BY <1>2 DEF Restart
    <3>1. r \notin lost /\ \A a \in Actors : r \notin Unsaved(a)
      BY <1>2 DEF Restart
    <3> QED
      BY <3>1 DEF Unsaved, CursorInv, CursorTracksFiled, Shows
  <2>3. CursorSound'
    BY <1>2, <2>1 DEF Restart, CursorInv, CursorSound
  <2> QED
    BY <2>1, <2>2, <2>3 DEF CursorInv, CursorTracksFiled, Shows
<1>3. CASE Corrupt
  <2>1. /\ \A b \in Actors : InMemory(b)' = InMemory(b)
        /\ UNCHANGED <<pc, mem, filed, delivered>>
    BY <1>3 DEF Corrupt, InMemory, procVars, cycleVars
  <2>2. \A r \in Repos : disk'[r] = None
    BY <1>3 DEF Corrupt, Empty
  <2>3. \A r \in Repos \ lost' : r \notin lost /\ disk[r] = None
    BY <1>3 DEF Corrupt
  <2> QED
    BY <2>1, <2>2, <2>3 DEF CursorInv, CursorTracksFiled, CursorSound, Shows
<1>4. ASSUME NEW t \in Triggers, Panic(t) PROVE CursorInv'
  <2>1. t \in Actors /\ Holds(t) /\ InMemory(t)
    BY <1>4 DEF Panic, Actors, Holds, InMemory, AtRest, Loaded, PerRepo
  <2>2. \A b \in Actors : ~InMemory(b)'
    BY <1>4, <2>1, SoleInMemory
    DEF Panic, Forget, Goto, InMemory, Loaded, PerRepo, TypeOK
  <2> QED
    BY <1>4, <2>1, <2>2, Discarding DEF Panic
<1>5. ASSUME NEW a \in Actors, Load(a) PROVE CursorInv'
  <2>1. \A b \in Actors : ~InMemory(b)
    BY <1>5, SoleInMemory DEF Load, Holds, InMemory, AtRest, Loaded, PerRepo
  <2>2. /\ \A b \in Actors : InMemory(b)' <=> b = a
        /\ \A b \in Actors : pc'[b] = "list" => b = a
    BY <1>5, <2>1 DEF Load, Goto, InMemory, Loaded, PerRepo, TypeOK
  <2>3. mem'[a] = disk /\ UNCHANGED <<disk, filed, delivered, lost>>
    BY <1>5 DEF Load, TypeOK, histVars
  <2> QED
    BY <2>1, <2>2, <2>3 DEF CursorInv, CursorTracksFiled, CursorSound, Shows
<1>6. ASSUME NEW a \in Actors, ListReposFails(a) PROVE CursorInv'
  <2>1. Holds(a) /\ InMemory(a) /\ pc[a] = "list"
    BY <1>6 DEF ListReposFails, Holds, InMemory, AtRest, Loaded
  <2>2. \A b \in Actors : ~InMemory(b)' /\ pc'[b] # "list"
    BY <1>6, <2>1, SoleInMemory
    DEF ListReposFails, Return, Goto, InMemory, Loaded, PerRepo, TypeOK
  <2>3. UNCHANGED <<disk, filed, delivered, lost>>
    BY <1>6 DEF ListReposFails, histVars
  <2> QED
    BY <2>1, <2>2, <2>3 DEF CursorInv, CursorTracksFiled, CursorSound, Shows
<1>7. ASSUME NEW a \in Actors, GatherRateLimited(a) \/ SaveCursorFails(a)
      PROVE  CursorInv'
  <2>1. Holds(a) /\ InMemory(a)
    BY <1>7 DEF GatherRateLimited, SaveCursorFails, Holds, InMemory, AtRest,
                Loaded, PerRepo
  <2>2. \A b \in Actors : ~InMemory(b)'
    BY <1>7, <2>1, SoleInMemory
    DEF GatherRateLimited, SaveCursorFails, Return, Goto, InMemory, Loaded,
        PerRepo, TypeOK
  <2> QED
    BY <1>7, <2>1, <2>2, Discarding DEF GatherRateLimited, SaveCursorFails
<1>8. ASSUME NEW a \in Actors, Publish(a) PROVE CursorInv'
  <2> DEFINE r == Repo(a)
  <2>1. Holds(a) /\ InMemory(a) /\ r \in Repos /\ cand[a] \in Ids
    BY <1>8, ActorRepo DEF Publish, Holds, InMemory, AtRest, Loaded, PerRepo, TypeOK
  <2>2. \A b \in Actors : (InMemory(b)' <=> b = a) /\ pc'[b] # "list"
    BY <1>8, <2>1, SoleInMemory
    DEF Publish, Continue, Goto, InMemory, Loaded, PerRepo, TypeOK
  <2>3. /\ mem'[a] = [mem[a] EXCEPT ![r] = cand[a]]
        /\ filed' = [filed EXCEPT ![r] = cand[a]]
        /\ delivered' = delivered \cup {<<r, cand[a]>>}
        /\ lost' = lost \ {r}
        /\ disk' = disk
    BY <1>8 DEF Publish, Deliver, TypeOK
  <2>4. mem[a] \in Cursors /\ filed \in Cursors
    BY DEF TypeOK
  <2>5. \A q \in Repos :
          /\ mem'[a][q] = IF q = r THEN cand[a] ELSE mem[a][q]
          /\ filed'[q] = IF q = r THEN cand[a] ELSE filed[q]
    BY <2>3, <2>4 DEF Cursors
  <2>6. CursorTracksFiled'
    <3> SUFFICES ASSUME NEW q \in Repos, q \notin lost' PROVE mem'[a][q] = filed'[q]
      BY <2>2 DEF CursorTracksFiled, Shows
    <3>1. q # r => mem[a][q] = filed[q]
      BY <2>1, <2>3 DEF CursorInv, CursorTracksFiled, Shows
    <3> QED
      BY <3>1, <2>5
  <2>7. CursorSound'
    BY <2>1, <2>2, <2>3, <2>5 DEF CursorInv, CursorSound
  <2>8. \A q \in Repos : disk'[q] # None => mem'[a][q] # None
    BY <2>1, <2>3, <2>5, NoneAssumption DEF CursorInv
  <2> QED
    BY <2>2, <2>6, <2>7, <2>8 DEF CursorInv
<1>9. ASSUME NEW a \in Actors, PublishAckLost(a) PROVE CursorInv'
  <2>1. InMemory(a) /\ Repo(a) \in Repos
    BY <1>9, ActorRepo DEF PublishAckLost, InMemory, Loaded, PerRepo
  <2>2. \A b \in Actors : (InMemory(b)' <=> InMemory(b)) /\ (pc'[b] = "list" => pc[b] = "list")
    BY <1>9, <2>1 DEF PublishAckLost, Continue, Goto, InMemory, Loaded, PerRepo, TypeOK
  <2>3. mem' = mem /\ disk' = disk
    BY <1>9 DEF PublishAckLost
  <2>4. \A q \in Repos \ lost' : q \notin lost /\ filed'[q] = filed[q]
    BY <1>9, <2>1 DEF PublishAckLost, Deliver, TypeOK, Cursors
  <2>5. \A q \in Repos, id \in Ids :
          <<q, id>> \in delivered => <<q, id>> \in delivered'
    BY <1>9 DEF PublishAckLost, Deliver
  <2>6. CursorTracksFiled'
    BY <2>2, <2>3, <2>4 DEF CursorInv, CursorTracksFiled, Shows
  <2>7. CursorSound'
    BY <2>2, <2>3, <2>5 DEF CursorInv, CursorSound, TypeOK, Cursors
  <2> QED
    BY <2>2, <2>3, <2>4, <2>6, <2>7 DEF CursorInv
<1>10. ASSUME NEW a \in Actors, SaveCursor(a) PROVE CursorInv'
  <2>1. Holds(a) /\ InMemory(a)
    BY <1>10 DEF SaveCursor, Holds, InMemory, AtRest, Loaded
  <2>2. \A b \in Actors : ~InMemory(b)' /\ pc'[b] # "list"
    BY <1>10, <2>1, SoleInMemory
    DEF SaveCursor, Return, Goto, InMemory, Loaded, PerRepo, TypeOK
  <2>3. /\ disk' = mem[a]
        /\ lost' = {r \in lost : mem[a][r] # filed[r]}
        /\ UNCHANGED <<filed, delivered>>
    BY <1>10 DEF SaveCursor
  <2>4. CursorTracksFiled'
    BY <2>1, <2>2, <2>3 DEF CursorInv, CursorTracksFiled, Shows
  <2>5. CursorSound'
    BY <2>1, <2>2, <2>3 DEF CursorInv, CursorSound
  <2> QED
    BY <2>2, <2>4, <2>5 DEF CursorInv
<1> QED
  BY <1>1, <1>2, <1>3, <1>4, <1>5, <1>6, <1>7, <1>8, <1>9, <1>10, QuietSteps

\* The finding-set filter has let through whatever is being published.
PublishGuarded == \A a \in Actors : pc[a] = "publish" => ~Unchanged(a)

\* What a cycle decides on: nobody but its own actor changes it.
Local(b) == <<pc[b], force[b], mem[b], todo[b], cand[b]>>

LEMMA OthersStandStill ==
  ASSUME TypeOK, NEW a \in Actors, NEW b \in Actors, b # a,
         CycleStep(a) \/ (a \in Triggers /\ TriggerStep(a))
  PROVE  Local(b)' = Local(b)
<1> USE DEF TypeOK, Local, Goto
<1>1. CASE a \in Triggers /\ TriggerStep(a)
  BY <1>1 DEF TriggerStep, TriggerAccepted, TriggerRejected, Launch, LaunchFails,
              Panic, Acquire, Forget
<1>2. CASE Load(a) \/ LoadFails(a) \/ ListRepos(a) \/ ListReposFails(a) \/ Release(a)
  BY <1>2 DEF Load, LoadFails, ListRepos, ListReposFails, Release, Return, Forget
<1>3. CASE \/ NextRepo(a) \/ ReposDone(a)
           \/ Gather(a) \/ GatherSkips(a) \/ GatherRateLimited(a)
  BY <1>3 DEF NextRepo, ReposDone, Gather, GatherSkips, GatherRateLimited, Continue,
              Return
<1>4. CASE Scan(a) \/ ScanSkips(a) \/ DedupPasses(a) \/ DedupSkips(a)
  BY <1>4 DEF Scan, ScanSkips, DedupPasses, DedupSkips, Continue
<1>5. CASE Publish(a) \/ PublishFails(a) \/ PublishAckLost(a)
  BY <1>5 DEF Publish, PublishFails, PublishAckLost, Continue
<1>6. CASE SaveCursor(a) \/ SaveCursorFails(a)
  BY <1>6 DEF SaveCursor, SaveCursorFails, Return
<1> QED
  BY <1>1, <1>2, <1>3, <1>4, <1>5, <1>6 DEF CycleStep

\* Only DedupPasses leads an actor to the publisher.
LEMMA OnlyDedupPublishes ==
  ASSUME TypeOK, NEW a \in Actors, pc'[a] = "publish",
         CycleStep(a) \/ (a \in Triggers /\ TriggerStep(a))
  PROVE  DedupPasses(a)
<1> USE DEF TypeOK, Goto
<1>1. CASE a \in Triggers /\ TriggerStep(a)
  BY <1>1 DEF TriggerStep, TriggerAccepted, TriggerRejected, Launch, LaunchFails,
              Panic, Acquire, Forget
<1>2. CASE Load(a) \/ LoadFails(a) \/ ListRepos(a) \/ ListReposFails(a) \/ Release(a)
  BY <1>2 DEF Load, LoadFails, ListRepos, ListReposFails, Release, Return, Forget, Home
<1>3. CASE \/ NextRepo(a) \/ ReposDone(a)
           \/ Gather(a) \/ GatherSkips(a) \/ GatherRateLimited(a)
  BY <1>3 DEF NextRepo, ReposDone, Gather, GatherSkips, GatherRateLimited, Continue,
              Return
<1>4. CASE Scan(a) \/ ScanSkips(a) \/ DedupSkips(a)
  BY <1>4 DEF Scan, ScanSkips, DedupSkips, Continue
<1>5. CASE Publish(a) \/ PublishFails(a) \/ PublishAckLost(a)
  BY <1>5 DEF Publish, PublishFails, PublishAckLost, Continue
<1>6. CASE SaveCursor(a) \/ SaveCursorFails(a)
  BY <1>6 DEF SaveCursor, SaveCursorFails, Return
<1> QED
  BY <1>1, <1>2, <1>3, <1>4, <1>5, <1>6 DEF CycleStep

LEMMA NextPublishGuarded ==
  ASSUME TypeOK, PublishGuarded, [Next]_vars PROVE PublishGuarded'
<1> SUFFICES ASSUME NEW b \in Actors, pc'[b] = "publish" PROVE ~Unchanged(b)'
  BY DEF PublishGuarded
<1>1. ASSUME Local(b)' = Local(b) PROVE ~Unchanged(b)'
  BY <1>1 DEF PublishGuarded, Unchanged, Local, Repo
<1>2. ASSUME NEW a \in Actors, CycleStep(a) \/ (a \in Triggers /\ TriggerStep(a))
      PROVE  ~Unchanged(b)'
  <2>1. CASE a # b
    BY <1>1, <1>2, <2>1, OthersStandStill
  <2>2. CASE a = b
    <3>1. DedupPasses(b)
      BY <1>2, <2>2, OnlyDedupPublishes
    <3> QED
      BY <3>1 DEF DedupPasses, Unchanged, Repo
  <2> QED
    BY <2>1, <2>2
<1>3. CASE LoopPoll \/ LoopStops
  <2>1. b # Loop
    BY <1>3 DEF LoopPoll, LoopStops, Acquire, Goto, TypeOK
  <2> QED
    BY <1>1, <1>3, <2>1 DEF LoopPoll, LoopStops, Acquire, Goto, Local, TypeOK
<1>4. CASE Restart
  BY <1>4 DEF Restart, Home
<1>5. CASE \/ Cancel \/ Corrupt \/ FindingsDrift \/ ConsentDrift \/ CalmDown
           \/ UNCHANGED vars
  BY <1>1, <1>5 DEF Cancel, Corrupt, FindingsDrift, ConsentDrift, CalmDown, vars,
                    procVars, cycleVars, Local
<1> QED
  BY <1>2, <1>3, <1>4, <1>5 DEF Next, Environment, Exit, Crash, Actors

-----------------------------------------------------------------------------
(* The theorems about the cursor.                                          *)

Inv == TypeOK /\ OneCycleAtATime /\ CursorInv /\ PublishGuarded

LEMMA Invariance == Spec => []Inv
<1>1. Init => PublishGuarded
  BY DEF Init, PublishGuarded, Home
<1>2. Init => Inv
  BY <1>1, InitTypeOK, InitOneCycle, InitCursorInv DEF Inv
<1>3. Inv /\ [Next]_vars => Inv'
  BY NextTypeOK, NextOneCycle, NextCursorInv, NextPublishGuarded DEF Inv
<1> QED
  BY <1>2, <1>3, PTL DEF Spec

\* Every entry of the cursor, on disk or in a running cycle, was delivered.
THEOREM CursorIsSound == Spec => []CursorSound
<1>1. Inv => CursorSound
  BY DEF Inv, CursorInv
<1> QED
  BY <1>1, Invariance, PTL

\* Unless a named fault discarded it, a repository's entry is the last task filed.
THEOREM CursorTracks == Spec => []CursorTracksFiled
<1>1. Inv => CursorTracksFiled
  BY DEF Inv, CursorInv
<1> QED
  BY <1>1, Invariance, PTL

\* An unforced cycle files a finding set again only after such a fault.
THEOREM NoRefile == Spec => []NoRefileWithoutLoss
<1>1. Inv => NoRefileWithoutLoss
  <2> SUFFICES ASSUME Inv, NEW a \in Actors, pc[a] = "publish", ~force[a],
                      filed[Repo(a)] = cand[a], Repo(a) \notin lost
               PROVE  FALSE
    BY DEF NoRefileWithoutLoss
  <2>1. Repo(a) \in Repos /\ cand[a] \in Ids /\ InMemory(a)
    BY ActorRepo DEF Inv, TypeOK, PerRepo, InMemory, Loaded
  <2>2. mem[a][Repo(a)] = cand[a]
    BY <2>1 DEF Inv, CursorInv, CursorTracksFiled, Shows
  <2> QED
    BY <2>1, <2>2, NoneAssumption DEF Inv, PublishGuarded, Unchanged
<1> QED
  BY <1>1, Invariance, PTL

\* No save erases a repository's entry: the saving cycle loaded it and the slot
\* kept every other writer out since.
THEOREM SavesKeepEntries == Spec => SaveKeepsEntries
<1> DEFINE Keeps == \A a \in Actors : pc[a] = "save" /\ pc'[a] = "release" =>
                      \A r \in Repos : disk[r] # None => disk'[r] # None
<1>1. Inv /\ [Next]_vars => [Keeps]_vars
  <2> SUFFICES ASSUME Inv, Next, NEW a \in Actors, pc[a] = "save", pc'[a] = "release",
                      NEW r \in Repos, disk[r] # None
               PROVE  disk'[r] # None
    BY DEF vars
  <2>1. InMemory(a) /\ mem[a][r] # None
    BY DEF InMemory, Loaded, Inv, CursorInv
  <2>2. CASE KeepsCursor
    BY <2>2 DEF KeepsCursor
  <2>3. CASE Restart \/ Corrupt
    BY <2>3 DEF Restart, Corrupt, Home, procVars, cycleVars
  <2>4. ASSUME NEW t \in Triggers, Panic(t) PROVE disk' = disk
    BY <2>4 DEF Panic
  <2>5. ASSUME NEW b \in Actors,
               \/ Load(b) \/ ListReposFails(b) \/ GatherRateLimited(b)
               \/ Publish(b) \/ PublishAckLost(b) \/ SaveCursorFails(b)
        PROVE  disk' = disk
    BY <2>5 DEF Load, ListReposFails, GatherRateLimited, Publish, PublishAckLost,
                SaveCursorFails
  <2>6. ASSUME NEW b \in Actors, SaveCursor(b) PROVE disk'[r] # None
    <3>1. b = a
      BY <2>6 DEF SaveCursor, Inv, OneCycleAtATime, Holds, AtRest
    <3> QED
      BY <2>1, <2>6, <3>1 DEF SaveCursor
  <2> QED
    BY <2>2, <2>3, <2>4, <2>5, <2>6, QuietSteps DEF Inv
<1> QED
  BY <1>1, Invariance, PTL DEF Spec, SaveKeepsEntries

\* A counted outcome is kept until the Release, and only by the cycle it is of.
Counted == \A a \in Actors : result[a] # "none" => pc[a] = "release"

Durable == Counted /\ SuccessIsDurable

LEMMA NextDurable ==
  ASSUME TypeOK, OneCycleAtATime, Durable, [Next]_vars PROVE Durable'
<1> USE DEF Durable, Counted, SuccessIsDurable, TypeOK, Goto
<1>1. CASE LoopPoll \/ LoopStops
  BY <1>1 DEF LoopPoll, LoopStops, Acquire, Actors, worldVars
<1>2. CASE Restart
  BY <1>2 DEF Restart, Everyone
<1>3. ASSUME NEW t \in Triggers, TriggerAccepted(t) \/ TriggerRejected(t) \/ Launch(t)
      PROVE  Durable'
  BY <1>3 DEF TriggerAccepted, TriggerRejected, Launch, Acquire, Actors, AtRest
<1>4. ASSUME NEW t \in Triggers, LaunchFails(t) \/ Panic(t) PROVE Durable'
  BY <1>4 DEF LaunchFails, Panic, Forget, Actors
<1>5. ASSUME NEW a \in Actors,
             Load(a) \/ LoadFails(a) \/ ListRepos(a) \/ ListReposFails(a) \/ Release(a)
      PROVE  Durable'
  BY <1>5 DEF Load, LoadFails, ListRepos, ListReposFails, Release, Return, Forget
<1>6. ASSUME NEW a \in Actors,
             \/ NextRepo(a) \/ ReposDone(a)
             \/ Gather(a) \/ GatherSkips(a) \/ GatherRateLimited(a)
      PROVE  Durable'
  BY <1>6 DEF NextRepo, ReposDone, Gather, GatherSkips, GatherRateLimited, Continue, Return
<1>7. ASSUME NEW a \in Actors, Scan(a) \/ ScanSkips(a) \/ DedupPasses(a) \/ DedupSkips(a)
      PROVE  Durable'
  BY <1>7 DEF Scan, ScanSkips, DedupPasses, DedupSkips, Continue
<1>8. ASSUME NEW a \in Actors, Publish(a) \/ PublishFails(a) \/ PublishAckLost(a)
      PROVE  Durable'
  BY <1>8 DEF Publish, PublishFails, PublishAckLost, Continue
\* The slot keeps every other cycle out that could have counted its outcome.
<1>9. ASSUME NEW a \in Actors, SaveCursor(a) \/ SaveCursorFails(a) PROVE Durable'
  <2>1. \A b \in Actors : b # a => result[b] = "none"
    BY <1>9 DEF SaveCursor, SaveCursorFails, OneCycleAtATime, Holds, AtRest
  <2> QED
    BY <1>9, <2>1 DEF SaveCursor, SaveCursorFails, Return
<1>10. CASE \/ Cancel \/ Corrupt \/ FindingsDrift \/ ConsentDrift \/ CalmDown
            \/ UNCHANGED vars
  BY <1>10 DEF Cancel, Corrupt, FindingsDrift, ConsentDrift, CalmDown, vars, procVars,
               cycleVars
<1> QED
  BY <1>1, <1>2, <1>3, <1>4, <1>5, <1>6, <1>7, <1>8, <1>9, <1>10
  DEF Next, TriggerStep, CycleStep, Environment, Exit, Crash

\* While a cycle that counted "success" still holds the slot, the cursor file is
\* what it saved, or was damaged since.
THEOREM SuccessStays == Spec => []SuccessIsDurable
<1>1. Init => Durable
  BY DEF Init, Everyone, Durable, Counted, SuccessIsDurable
<1>2. Inv /\ Durable /\ [Next]_vars => Durable'
  BY NextDurable DEF Inv
<1>3. Durable => SuccessIsDurable
  BY DEF Durable
<1> QED
  BY <1>1, <1>2, <1>3, Invariance, PTL DEF Spec

\* No entry was discarded, and nothing is about to be.
NothingLost == lost = {} /\ ~cancelled /\ pc[Loop] # "stopped"

LEMMA HarmlessKeeps ==
  ASSUME Faults \subseteq HarmlessFaults, TypeOK, NothingLost, [Next]_vars
  PROVE  NothingLost'
<1>1. \A kind \in {"rate_limit", "ack", "save", "panic", "cancel", "crash", "corrupt"} :
        ~Fault(kind)
  BY DEF Fault, HarmlessFaults
<1>2. ~Exit /\ ~Crash /\ ~Cancel /\ ~Corrupt /\ ~LoopStops
  BY <1>1 DEF NothingLost, Exit, Crash, Cancel, Corrupt, LoopStops
<1>3. \A t \in Triggers : ~Panic(t)
  BY <1>1 DEF Panic
<1>4. \A a \in Actors : ~GatherRateLimited(a) /\ ~PublishAckLost(a) /\ ~SaveCursorFails(a)
  BY <1>1 DEF GatherRateLimited, PublishAckLost, SaveCursorFails
<1>0. Loop \in Actors
  BY DEF Actors
<1> USE <1>0 DEF NothingLost, TypeOK, Goto
<1>5. CASE LoopPoll \/ FindingsDrift \/ ConsentDrift \/ CalmDown \/ UNCHANGED vars
  BY <1>5 DEF LoopPoll, Acquire, FindingsDrift, ConsentDrift, CalmDown, vars, procVars,
              cycleVars, histVars, Actors
<1>6. ASSUME NEW t \in Triggers, TriggerStep(t) PROVE NothingLost'
  BY <1>3, <1>6, LoopAssumption
  DEF TriggerStep, TriggerAccepted, TriggerRejected, Launch, LaunchFails, Acquire,
      Forget, histVars, Actors
<1>7. ASSUME NEW a \in Actors,
             Load(a) \/ LoadFails(a) \/ ListRepos(a) \/ ListReposFails(a) \/ Release(a)
      PROVE  NothingLost'
  BY <1>7 DEF Load, LoadFails, ListRepos, ListReposFails, Release, Return, Forget,
              Home, histVars
<1>8. ASSUME NEW a \in Actors,
             \/ NextRepo(a) \/ ReposDone(a) \/ Gather(a) \/ GatherSkips(a)
             \/ Scan(a) \/ ScanSkips(a)
      PROVE  NothingLost'
  BY <1>8 DEF NextRepo, ReposDone, Gather, GatherSkips, Scan, ScanSkips, Continue, histVars
<1>9. ASSUME NEW a \in Actors,
             \/ DedupPasses(a) \/ DedupSkips(a)
             \/ Publish(a) \/ PublishFails(a) \/ SaveCursor(a)
      PROVE  NothingLost'
  BY <1>9 DEF DedupPasses, DedupSkips, Publish, PublishFails, SaveCursor, Continue,
              Return, histVars
<1> QED
  BY <1>2, <1>4, <1>5, <1>6, <1>7, <1>8, <1>9 DEF Next, Environment, CycleStep

\* The documented goal, under its real hypothesis: while no fault that can cost
\* the cursor an entry happens, no unforced cycle ever files a finding set that
\* is the last one filed for its repository.
THEOREM NeverRefiledWithoutHarm ==
  ASSUME Faults \subseteq HarmlessFaults
  PROVE  Spec => []NeverRefiled
<1>1. Init => NothingLost
  BY DEF Init, NothingLost, Home, Actors
<1>2. Inv /\ NothingLost /\ [Next]_vars => NothingLost'
  BY HarmlessKeeps DEF Inv
<1>3. NoRefileWithoutLoss /\ NothingLost => NeverRefiled
  BY DEF NoRefileWithoutLoss, NothingLost, NeverRefiled
<1> QED
  BY <1>1, <1>2, <1>3, Invariance, NoRefile, PTL DEF Spec
=============================================================================
