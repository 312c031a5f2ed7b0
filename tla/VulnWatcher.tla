----------------------------- MODULE VulnWatcher -----------------------------
(***************************************************************************)
(* The poll cycle of github-vuln-watcher and the two things that start it: *)
(* the interval loop of main.go and the requests to /trigger.  They share  *)
(* one CycleGate; the cycle loads the cursor, lists the owner's            *)
(* repositories, walks them one by one (gather, filter, scan, dedup,       *)
(* publish) and saves the cursor.                                          *)
(*                                                                         *)
(* Data is abstracted to what dedup tells apart: a finding set is its task *)
(* identifier, a member of Ids, and None is the identifier "" of an empty  *)
(* set, of an unseen repository and of a missing cursor entry.             *)
(*                                                                         *)
(* Every call that can fail does so only while its fault kind is in Faults *)
(* and the environment is not calm; see Fault.                             *)
(***************************************************************************)
EXTENDS Integers, Sequences

CONSTANTS
  Repos,        \* the repositories of the configured owner
  Ids,          \* task identifiers (UUID5 of a repository's finding set)
  None,         \* the empty identifier ""
  Loop,         \* the interval loop
  Triggers,     \* clients of /trigger, each with one request at a time
  Listings,     \* the slices ListRepos may return
  Faults        \* the kinds of fault that may happen

FaultKinds == {"load", "list", "gather", "rate_limit", "scan", "publish", "ack",
               "save", "launch", "panic", "cancel", "crash", "corrupt"}

\* The faults that cannot cost the cursor an entry.
HarmlessFaults == {"load", "list", "gather", "scan", "publish", "launch"}

ASSUME NoneAssumption     == None \notin Ids
ASSUME LoopAssumption     == Loop \notin Triggers
ASSUME ListingsAssumption == Listings \subseteq Seq(Repos)
ASSUME FaultsAssumption   == Faults \subseteq FaultKinds

VARIABLES
  gate,         \* the CycleGate's slot is taken
  pc,           \* where each actor is
  force,        \* per actor: the cycle omits the dedup filter
  mem,          \* per actor: cursorState of its Poll
  todo,         \* per actor: the repositories processRepos has yet to finish
  cand,         \* per actor: the identifier of the finding set just scanned
  result,       \* per actor: the poll_cycle_total label its cycle counted
  disk,         \* what LoadCursor would make of the cursor file
  cancelled,    \* the application's context is cancelled
  findings,     \* the finding set each repository's gates would report now
  eligible,     \* the repositories that pass the static filters now
  calm,         \* from now on the environment neither fails nor changes
  filed,        \* history: the identifier of each repository's last task in Kafka
  delivered,    \* history: every <<repository, identifier>> that reached Kafka
  lost          \* history: repositories whose cursor entry a fault discarded

cycleVars == <<pc, force, mem, todo, cand, result>>
procVars  == <<gate, cycleVars, cancelled>>
worldVars == <<findings, eligible, calm>>
histVars  == <<filed, delivered, lost>>
vars      == <<procVars, disk, worldVars, histVars>>

-----------------------------------------------------------------------------
Actors  == {Loop} \cup Triggers
Cursors == [Repos -> Ids \cup {None}]
Empty   == [r \in Repos |-> None]

AtRest  == {"wait", "stopped", "idle", "rejected", "failed"}
PerRepo == {"gather", "scan", "dedup", "publish"}
Loaded  == {"list", "next", "save"} \cup PerRepo
PCs     == AtRest \cup Loaded \cup {"launch", "load", "release"}
Results == {"none", "success", "rate_limited", "github_error", "scan_error"}

Holds(a)    == pc[a] \notin AtRest
InMemory(a) == pc[a] \in Loaded
Repo(a)     == Head(todo[a])
Home(a)     == IF a = Loop THEN "wait" ELSE "idle"

\* The entries of a running cycle that only its memory holds.
Unsaved(a) == IF InMemory(a) THEN {r \in Repos : mem[a][r] # disk[r]} ELSE {}

Fault(kind) == kind \in Faults /\ ~calm

Everyone(value) == [a \in Actors |-> value]

Init ==
  /\ gate = FALSE
  /\ pc = [a \in Actors |-> Home(a)]
  /\ force = Everyone(FALSE)
  /\ mem = Everyone(Empty)
  /\ todo = Everyone(<<>>)
  /\ cand = Everyone(None)
  /\ result = Everyone("none")
  /\ cancelled = FALSE
  /\ disk = Empty
  /\ findings \in Cursors
  /\ eligible \in SUBSET Repos
  /\ calm = FALSE
  /\ filed = Empty
  /\ delivered = {}
  /\ lost = {}

-----------------------------------------------------------------------------
(* Starting and ending a cycle.                                            *)

Goto(a, label) == pc' = [pc EXCEPT ![a] = label]

\* Mutant: the slot is taken without looking.
Acquire_Unguarded(a, f, label) ==
  /\ gate' = TRUE
  /\ force' = [force EXCEPT ![a] = f]
  /\ Goto(a, label)

\* A successful TryAcquire by a; its cycle runs with the given force.
Acquire(a, f, label) ==
  /\ ~gate
  /\ gate' = TRUE
  /\ force' = [force EXCEPT ![a] = f]
  /\ Goto(a, label)

\* The immediate poll at start, or a tick.  A tick that finds the slot taken
\* is skipped: it changes nothing.
LoopPoll ==
  /\ pc[Loop] = "wait"
  /\ Acquire(Loop, FALSE, "load")
  /\ UNCHANGED <<mem, todo, cand, result, cancelled, disk, worldVars, histVars>>

LoopStops ==
  /\ pc[Loop] = "wait"
  /\ cancelled
  /\ Goto(Loop, "stopped")
  /\ UNCHANGED <<gate, force, mem, todo, cand, result, cancelled,
                 disk, worldVars, histVars>>

TriggerAccepted(t) ==
  /\ pc[t] \in AtRest
  /\ \E f \in BOOLEAN : Acquire(t, f, "launch")
  /\ UNCHANGED <<mem, todo, cand, result, cancelled, disk, worldVars, histVars>>

\* 409: another cycle holds the slot.
TriggerRejected(t) ==
  /\ pc[t] \in AtRest \ {"rejected"}
  /\ gate
  /\ Goto(t, "rejected")
  /\ UNCHANGED <<gate, force, mem, todo, cand, result, cancelled,
                 disk, worldVars, histVars>>

\* 202: the background runner has started the cycle.
Launch(t) ==
  /\ pc[t] = "launch"
  /\ Goto(t, "load")
  /\ UNCHANGED <<gate, force, mem, todo, cand, result, cancelled,
                 disk, worldVars, histVars>>

\* The cycle's variables go out of scope.
Forget(a, label) ==
  /\ Goto(a, label)
  /\ force' = [force EXCEPT ![a] = FALSE]
  /\ mem' = [mem EXCEPT ![a] = Empty]
  /\ todo' = [todo EXCEPT ![a] = <<>>]
  /\ cand' = [cand EXCEPT ![a] = None]
  /\ result' = [result EXCEPT ![a] = "none"]

\* Mutant: the error path of Run forgets the Release.
LaunchFails_KeepsSlot(t) ==
  /\ Fault("launch")
  /\ pc[t] = "launch"
  /\ Forget(t, "failed")
  /\ UNCHANGED <<gate, cancelled, disk, worldVars, histVars>>

\* 500: the background runner refuses to start the cycle.
LaunchFails(t) ==
  /\ Fault("launch")
  /\ pc[t] = "launch"
  /\ gate' = FALSE
  /\ Forget(t, "failed")
  /\ UNCHANGED <<cancelled, disk, worldVars, histVars>>

\* The deferred Release after Poll has returned.
Release(a) ==
  /\ pc[a] = "release"
  /\ gate' = FALSE
  /\ Forget(a, Home(a))
  /\ UNCHANGED <<cancelled, disk, worldVars, histVars>>

\* A panic in a forced cycle unwinds through the deferred Release into CatchPanic.
Panic(t) ==
  /\ Fault("panic")
  /\ InMemory(t)
  /\ gate' = FALSE
  /\ lost' = lost \cup Unsaved(t)
  /\ Forget(t, "idle")
  /\ UNCHANGED <<cancelled, disk, worldVars, filed, delivered>>

-----------------------------------------------------------------------------
(* The cycle: Poll.                                                        *)

\* Poll returns with its outcome counted.
Return(a, outcome) ==
  /\ Goto(a, "release")
  /\ result' = [result EXCEPT ![a] = outcome]

Load(a) ==
  /\ pc[a] = "load"
  /\ mem' = [mem EXCEPT ![a] = disk]
  /\ Goto(a, "list")
  /\ UNCHANGED <<gate, force, todo, cand, result, cancelled,
                 disk, worldVars, histVars>>

\* Mutant: a file that cannot be read is taken for one that is not there.
LoadFails_ColdStarts(a) ==
  /\ Fault("load")
  /\ pc[a] = "load"
  /\ mem' = [mem EXCEPT ![a] = Empty]
  /\ Goto(a, "list")
  /\ UNCHANGED <<gate, force, todo, cand, result, cancelled,
                 disk, worldVars, histVars>>

LoadFails(a) ==
  /\ Fault("load")
  /\ pc[a] = "load"
  /\ Return(a, "scan_error")
  /\ UNCHANGED <<gate, force, mem, todo, cand, cancelled, disk, worldVars, histVars>>

Complete(listing) == \A r \in Repos : \E n \in DOMAIN listing : listing[n] = r

ListRepos(a) ==
  /\ pc[a] = "list"
  /\ ~cancelled
  /\ \E listing \in Listings :
       /\ calm => Complete(listing)
       /\ todo' = [todo EXCEPT ![a] = listing]
  /\ Goto(a, "next")
  /\ UNCHANGED <<gate, force, mem, cand, result, cancelled,
                 disk, worldVars, histVars>>

ListReposFails(a) ==
  /\ Fault("list") \/ cancelled
  /\ pc[a] = "list"
  /\ \E outcome \in {"rate_limited", "github_error"} : Return(a, outcome)
  /\ UNCHANGED <<gate, force, mem, todo, cand, cancelled, disk, worldVars, histVars>>

\* Mutant: no save once the context is done.
SaveCursor_NotWhenCancelled(a) ==
  /\ pc[a] = "save"
  /\ disk' = IF cancelled THEN disk ELSE mem[a]
  /\ lost' = {r \in lost : mem[a][r] # filed[r]}
  /\ Return(a, "success")
  /\ UNCHANGED <<gate, force, mem, todo, cand, cancelled, worldVars, filed, delivered>>

SaveCursor(a) ==
  /\ pc[a] = "save"
  /\ disk' = mem[a]
  /\ lost' = {r \in lost : mem[a][r] # filed[r]}
  /\ Return(a, "success")
  /\ UNCHANGED <<gate, force, mem, todo, cand, cancelled, worldVars, filed, delivered>>

\* Mutant: the error of the save is only logged.
SaveCursorFails_Ignored(a) ==
  /\ Fault("save")
  /\ pc[a] = "save"
  /\ lost' = lost \cup Unsaved(a)
  /\ Return(a, "success")
  /\ UNCHANGED <<gate, force, mem, todo, cand, cancelled,
                 disk, worldVars, filed, delivered>>

SaveCursorFails(a) ==
  /\ Fault("save")
  /\ pc[a] = "save"
  /\ lost' = lost \cup Unsaved(a)
  /\ Return(a, "scan_error")
  /\ UNCHANGED <<gate, force, mem, todo, cand, cancelled,
                 disk, worldVars, filed, delivered>>

-----------------------------------------------------------------------------
(* The cycle: processRepos.                                                *)

\* continue: on to the next repository.
Continue(a) ==
  /\ Goto(a, "next")
  /\ todo' = [todo EXCEPT ![a] = Tail(@)]
  /\ cand' = [cand EXCEPT ![a] = None]

\* Mutant: the loop runs one past the end of the slice.
NextRepo_PastTheEnd(a) ==
  /\ pc[a] = "next"
  /\ ~cancelled
  /\ Goto(a, "gather")
  /\ UNCHANGED <<gate, force, mem, todo, cand, result, cancelled,
                 disk, worldVars, histVars>>

NextRepo(a) ==
  /\ pc[a] = "next"
  /\ todo[a] # <<>>
  /\ ~cancelled
  /\ Goto(a, "gather")
  /\ UNCHANGED <<gate, force, mem, todo, cand, result, cancelled,
                 disk, worldVars, histVars>>

\* The slice is exhausted, or the context is done: processRepos returns "".
ReposDone(a) ==
  /\ pc[a] = "next"
  /\ todo[a] = <<>> \/ cancelled
  /\ Goto(a, "save")
  /\ UNCHANGED <<gate, force, mem, todo, cand, result, cancelled,
                 disk, worldVars, histVars>>

\* Both files are read and the static filter chain passes.
Gather(a) ==
  /\ pc[a] = "gather"
  /\ ~cancelled
  /\ Repo(a) \in eligible
  /\ Goto(a, "scan")
  /\ UNCHANGED <<gate, force, mem, todo, cand, result, cancelled,
                 disk, worldVars, histVars>>

\* A static filter skips the repository, or a read error drops it.
GatherSkips(a) ==
  /\ pc[a] = "gather"
  /\ Repo(a) \notin eligible \/ Fault("gather") \/ cancelled
  /\ Continue(a)
  /\ UNCHANGED <<gate, force, mem, result, cancelled, disk, worldVars, histVars>>

\* The whole cycle is aborted and Poll returns without saving the cursor.
GatherRateLimited(a) ==
  /\ Fault("rate_limit")
  /\ pc[a] = "gather"
  /\ lost' = lost \cup Unsaved(a)
  /\ Return(a, "rate_limited")
  /\ UNCHANGED <<gate, force, mem, todo, cand, cancelled,
                 disk, worldVars, filed, delivered>>

Scan(a) ==
  /\ pc[a] = "scan"
  /\ ~cancelled
  /\ findings[Repo(a)] # None
  /\ cand' = [cand EXCEPT ![a] = findings[Repo(a)]]
  /\ Goto(a, "dedup")
  /\ UNCHANGED <<gate, force, mem, todo, result, cancelled,
                 disk, worldVars, histVars>>

\* already_clean, or clone_failed, gate_timeout, scan_failed.
ScanSkips(a) ==
  /\ pc[a] = "scan"
  /\ findings[Repo(a)] = None \/ Fault("scan") \/ cancelled
  /\ Continue(a)
  /\ UNCHANGED <<gate, force, mem, result, cancelled, disk, worldVars, histVars>>

\* Mutant: the filter reads the cursor as it was loaded, not the live one.
Unchanged_AsLoaded(a) == ~force[a] /\ cand[a] # None /\ cand[a] = disk[Repo(a)]

\* Mutant: the filter is kept in a forced cycle.
Unchanged_Always(a) == cand[a] # None /\ cand[a] = mem[a][Repo(a)]

\* NewFindingSetUnchangedFilter over a live view of the cycle's cursor; the
\* list is empty in a forced cycle.
Unchanged(a) ==
  /\ ~force[a]
  /\ cand[a] # None
  /\ cand[a] = mem[a][Repo(a)]

DedupPasses(a) ==
  /\ pc[a] = "dedup"
  /\ ~Unchanged(a)
  /\ Goto(a, "publish")
  /\ UNCHANGED <<gate, force, mem, todo, cand, result, cancelled,
                 disk, worldVars, histVars>>

DedupSkips(a) ==
  /\ pc[a] = "dedup"
  /\ Unchanged(a)
  /\ Continue(a)
  /\ UNCHANGED <<gate, force, mem, result, cancelled, disk, worldVars, histVars>>

Deliver(a) ==
  /\ filed' = [filed EXCEPT ![Repo(a)] = cand[a]]
  /\ delivered' = delivered \cup {<<Repo(a), cand[a]>>}

\* Mutant: a published task is not recorded.
Publish_Unrecorded(a) ==
  /\ pc[a] = "publish"
  /\ Deliver(a)
  /\ Continue(a)
  /\ UNCHANGED <<gate, force, mem, result, cancelled, disk, worldVars, lost>>

Publish(a) ==
  /\ pc[a] = "publish"
  /\ Deliver(a)
  /\ mem' = [mem EXCEPT ![a][Repo(a)] = cand[a]]
  /\ lost' = lost \ {Repo(a)}
  /\ Continue(a)
  /\ UNCHANGED <<gate, force, result, cancelled, disk, worldVars>>

\* Mutant: the entry is recorded whether or not the send succeeded.
PublishFails_Recorded(a) ==
  /\ Fault("publish")
  /\ pc[a] = "publish"
  /\ mem' = [mem EXCEPT ![a][Repo(a)] = cand[a]]
  /\ Continue(a)
  /\ UNCHANGED <<gate, force, result, cancelled, disk, worldVars, histVars>>

PublishFails(a) ==
  /\ Fault("publish")
  /\ pc[a] = "publish"
  /\ Continue(a)
  /\ UNCHANGED <<gate, force, mem, result, cancelled, disk, worldVars, histVars>>

\* SendCommand reports an error although the broker stored the command.
PublishAckLost(a) ==
  /\ Fault("ack")
  /\ pc[a] = "publish"
  /\ Deliver(a)
  /\ lost' = lost \cup {Repo(a)}
  /\ Continue(a)
  /\ UNCHANGED <<gate, force, mem, result, cancelled, disk, worldVars>>

-----------------------------------------------------------------------------
(* The process and its environment.                                        *)

\* The application's context is cancelled: a signal, or the HTTP server failed.
Cancel ==
  /\ Fault("cancel")
  /\ ~cancelled
  /\ cancelled' = TRUE
  /\ UNCHANGED <<gate, cycleVars, disk, worldVars, histVars>>

\* The process ends and its successor starts; memory is gone.
Restart ==
  /\ gate' = FALSE
  /\ pc' = [a \in Actors |-> Home(a)]
  /\ force' = Everyone(FALSE)
  /\ mem' = Everyone(Empty)
  /\ todo' = Everyone(<<>>)
  /\ cand' = Everyone(None)
  /\ result' = Everyone("none")
  /\ cancelled' = FALSE
  /\ lost' = lost \cup UNION {Unsaved(a) : a \in Actors}
  /\ UNCHANGED <<disk, worldVars, filed, delivered>>

\* service.Run returns once the loop has stopped; nothing waits for a forced cycle.
Exit == pc[Loop] = "stopped" /\ Restart

Crash == Fault("crash") /\ Restart

\* The cursor file is damaged (or removed): the next load cold-starts.
Corrupt ==
  /\ Fault("corrupt")
  /\ disk # Empty
  /\ disk' = Empty
  /\ lost' = lost \cup {r \in Repos : disk[r] # None}
  /\ UNCHANGED <<procVars, worldVars, filed, delivered>>

FindingsDrift ==
  /\ ~calm
  /\ \E r \in Repos, id \in Ids \cup {None} :
       /\ id # findings[r]
       /\ findings' = [findings EXCEPT ![r] = id]
  /\ UNCHANGED <<procVars, disk, eligible, calm, histVars>>

ConsentDrift ==
  /\ ~calm
  /\ \E r \in Repos :
       eligible' = IF r \in eligible THEN eligible \ {r} ELSE eligible \cup {r}
  /\ UNCHANGED <<procVars, disk, findings, calm, histVars>>

CalmDown ==
  /\ ~calm
  /\ ~cancelled
  /\ calm' = TRUE
  /\ UNCHANGED <<procVars, disk, findings, eligible, histVars>>

-----------------------------------------------------------------------------
\* A step of the running cycle of a, whatever its outcome.
CycleStep(a) ==
  \/ Load(a) \/ LoadFails(a)
  \/ ListRepos(a) \/ ListReposFails(a)
  \/ NextRepo(a) \/ ReposDone(a)
  \/ Gather(a) \/ GatherSkips(a) \/ GatherRateLimited(a)
  \/ Scan(a) \/ ScanSkips(a)
  \/ DedupPasses(a) \/ DedupSkips(a)
  \/ Publish(a) \/ PublishFails(a) \/ PublishAckLost(a)
  \/ SaveCursor(a) \/ SaveCursorFails(a)
  \/ Release(a)

TriggerStep(t) ==
  \/ TriggerAccepted(t) \/ TriggerRejected(t)
  \/ Launch(t) \/ LaunchFails(t)
  \/ Panic(t)

Environment ==
  \/ Cancel \/ Crash \/ Corrupt
  \/ FindingsDrift \/ ConsentDrift \/ CalmDown

Next ==
  \/ LoopPoll \/ LoopStops \/ Exit
  \/ \E t \in Triggers : TriggerStep(t)
  \/ \E a \in Actors : CycleStep(a)
  \/ Environment

Spec == Init /\ [][Next]_vars

\* The goroutines are scheduled: every call of a running cycle returns, an
\* accepted request is launched, and the ticker ticks.  Nothing is assumed of
\* clients or of the environment.
Fairness ==
  /\ WF_vars(LoopPoll)
  /\ \A t \in Triggers : WF_vars(Launch(t) \/ LaunchFails(t))
  /\ \A a \in Actors : WF_vars(CycleStep(a))

FairSpec == Spec /\ Fairness
-----------------------------------------------------------------------------
(* Properties.                                                             *)

\* Every variable holds a value of its type; a cycle that is busy with a
\* repository has one (the body of the loop of processRepos never runs past the
\* end of its slice), and no task with the empty identifier reaches the
\* publisher.
TypeOK ==
  /\ gate \in BOOLEAN
  /\ pc \in [Actors -> PCs]
  /\ force \in [Actors -> BOOLEAN]
  /\ mem \in [Actors -> Cursors]
  /\ todo \in [Actors -> Seq(Repos)]
  /\ cand \in [Actors -> Ids \cup {None}]
  /\ result \in [Actors -> Results]
  /\ disk \in Cursors
  /\ cancelled \in BOOLEAN
  /\ findings \in Cursors
  /\ eligible \in SUBSET Repos
  /\ calm \in BOOLEAN
  /\ filed \in Cursors
  /\ delivered \in SUBSET (Repos \X Ids)
  /\ lost \in SUBSET Repos
  /\ \A a \in Actors : /\ pc[a] \in PerRepo => todo[a] # <<>>
                       /\ pc[a] \in {"dedup", "publish"} => cand[a] \in Ids

\* CycleGate: at most one cycle runs across the interval loop and /trigger, and
\* the slot is taken exactly while some actor owes a Release.  No Release frees
\* the slot of another's cycle, no exit path keeps it.
OneCycleAtATime ==
  /\ gate <=> \E a \in Actors : Holds(a)
  /\ \A a, b \in Actors : Holds(a) /\ Holds(b) => a = b

\* The cursor in force for r shows id: the running cycle's, else the file's.
Shows(r, id) ==
  /\ \A a \in Actors : InMemory(a) => mem[a][r] = id
  /\ (\A a \in Actors : ~InMemory(a)) => disk[r] = id

\* The cursor only ever claims what Kafka received: an entry, in the file or in
\* a running cycle, names a task that was delivered for that repository.  So
\* finding_set_unchanged never silences a finding set nobody was told about.
CursorSound ==
  \A r \in Repos :
    /\ disk[r] # None => <<r, disk[r]>> \in delivered
    /\ \A a \in Actors :
         InMemory(a) /\ mem[a][r] # None => <<r, mem[a][r]>> \in delivered

\* The cursor tracks what was filed: unless a named fault has discarded a
\* repository's entry, the cursor in force shows exactly the identifier of the
\* last task filed for it (cursor.go: LastEmittedTaskIdentifier).
CursorTracksFiled == \A r \in Repos \ lost : Shows(r, filed[r])

\* An unforced cycle re-sends the task it last filed for a repository only after
\* a named fault has discarded the cursor entry.
NoRefileWithoutLoss ==
  \A a \in Actors :
    pc[a] = "publish" /\ ~force[a] /\ filed[Repo(a)] = cand[a] => Repo(a) \in lost

\* The documented goal: a repository whose finding set does not change is never
\* re-filed by an unforced cycle.
NeverRefiled ==
  \A a \in Actors : pc[a] = "publish" /\ ~force[a] => filed[Repo(a)] # cand[a]

\* Until a cycle counted "success" has released the slot, the cursor file is what
\* the cycle saved, or was damaged since: nobody else writes it, and no outcome
\* that left the file behind is counted a success.
SuccessIsDurable ==
  \A a \in Actors : result[a] = "success" => disk \in {mem[a], Empty}

\* A save never erases an entry: whatever is on disk when a cycle saves, the
\* repositories that had an entry still have one.
SaveKeepsEntries ==
  [][\A a \in Actors : pc[a] = "save" /\ pc'[a] = "release" =>
       \A r \in Repos : disk[r] # None => disk'[r] # None]_vars

\* The slot is never held for ever, so neither ticks nor triggers are refused
\* for ever.
GateIsFreed == gate ~> ~gate

\* Once the environment is calm, the finding set of every eligible repository
\* reaches Kafka, whatever faults came before.
FindingsAreFiled ==
  \A r \in Repos, id \in Ids :
    calm /\ r \in eligible /\ findings[r] = id ~> <<r, id>> \in delivered

\* A forced cycle accepted while the environment is calm publishes every eligible
\* repository's finding set, filed before or not.
ForcedCyclePublishes ==
  \A t \in Triggers, r \in Repos, id \in Ids :
    (/\ calm /\ pc[t] = "launch" /\ force[t]
     /\ r \in eligible /\ findings[r] = id)
      ~> (pc[t] = "publish" /\ Repo(t) = r /\ cand[t] = id)
=============================================================================
