-------------------------------- MODULE Scanner --------------------------------
(***************************************************************************)
(* Scan: clone one repository into an ephemeral directory, run its gates   *)
(* (make <target>) one after the other, classify, ask git for HEAD.  Each  *)
(* command is a process group of its own, run by os/exec under the scan's  *)
(* context; poll cycles call Scan for one repository after the other.      *)
(*                                                                         *)
(* A command's processes are its leader, its kin (descendants in the same  *)
(* group) and strays (descendants that left the group).  Any of them may   *)
(* hold the output pipe, and os/exec reads the pipe until all have closed  *)
(* it or WaitDelay is over.  The output is abstracted to whether a marker  *)
(* was captured; GateOutput looks inside it.                               *)
(***************************************************************************)
EXTENDS Naturals, FiniteSets

CONSTANTS
  GateCount,  \* the number of gate targets
  MaxRepos    \* bound: the repositories of one cycle that reach Scan

ASSUME GateCountAssumption == GateCount \in Nat \ {0}
ASSUME MaxReposAssumption  == MaxRepos \in Nat \ {0}

VARIABLES
  pc,         \* where Scan is
  cmd,        \* the command in turn: 0 the clone, then the gates, then rev-parse
  procs,      \* the processes of the running command
  pipe,       \* those that hold its output pipe
  status,     \* how its leader ended
  expired,    \* the scan's deadline has passed
  cancelled,  \* the caller's context is cancelled
  red,        \* anyGateFailed
  found,      \* the captured output has a marker
  dir,        \* the clone directory exists
  reply,      \* what Scan returned
  left,       \* the cycle's repositories still to be scanned
  undeleted,  \* history: RemoveAll failed
  green,      \* history: the gates that exited with status 0
  killed,     \* history: the gates the context has killed
  overrun     \* history: WaitDelays sat out since the context was done

scanVars == <<cmd, procs, pipe, status, red, found, dir, reply>>
ctxVars  == <<expired, cancelled>>
histVars == <<undeleted, green, killed, overrun>>
vars     == <<pc, scanVars, ctxVars, left, histVars>>

Gates    == 1..GateCount
RevParse == GateCount + 1
Kinds    == {"leader", "kin", "stray"}
Group    == {"leader", "kin"}
Replies  == {"none", "no_dir", "clone_failed", "gate_timeout", "scan_failed",
             "clean", "markers"}

\* ctx.Err() # nil
CtxDone == expired \/ cancelled

Init ==
  /\ pc = "idle"
  /\ cmd = 0
  /\ procs = {}
  /\ pipe = {}
  /\ status = "none"
  /\ expired = FALSE
  /\ cancelled = FALSE
  /\ red = FALSE
  /\ found = FALSE
  /\ dir = FALSE
  /\ reply = "none"
  /\ left = 0
  /\ undeleted = FALSE
  /\ green = {}
  /\ killed = {}
  /\ overrun = 0

-----------------------------------------------------------------------------
(* The caller.                                                             *)

StartCycle ==
  /\ pc = "idle"
  /\ left = 0
  /\ ~cancelled
  /\ left' \in 1..MaxRepos
  /\ UNCHANGED <<pc, scanVars, ctxVars, undeleted, green, killed, overrun>>

\* processRepos takes its next repository, whatever the last scan returned ...
NextRepo ==
  /\ pc = "idle"
  /\ left > 0
  /\ ~cancelled
  /\ left' = left - 1
  /\ pc' = "gather"
  /\ UNCHANGED <<scanVars, ctxVars, histVars>>

\* ... and scans it if the context allowed to read its files.
CallScan ==
  /\ pc = "gather"
  /\ pc' = "mkdir"
  /\ expired' = FALSE
  /\ cmd' = 0
  /\ red' = FALSE
  /\ found' = FALSE
  /\ dir' = FALSE
  /\ reply' = "none"
  /\ undeleted' = FALSE
  /\ green' = {}
  /\ killed' = {}
  /\ overrun' = 0
  /\ UNCHANGED <<procs, pipe, status, cancelled, left>>

\* The context is done: the cycle's loop ends (a read that it cut short drops the
\* repository), and so does the process.
CycleCut ==
  /\ pc \in {"idle", "gather"}
  /\ cancelled
  /\ pc' = "idle"
  /\ cancelled' = FALSE
  /\ left' = 0
  /\ UNCHANGED <<scanVars, expired, histVars>>

-----------------------------------------------------------------------------
(* Scan.                                                                   *)

MakeDir ==
  /\ pc = "mkdir"
  /\ dir' = TRUE
  /\ pc' = "mint"
  /\ UNCHANGED <<cmd, procs, pipe, status, red, found, reply, ctxVars, left, histVars>>

\* os.MkdirTemp fails: there is nothing to remove yet.
MakeDirFails ==
  /\ pc = "mkdir"
  /\ reply' = "no_dir"
  /\ pc' = "idle"
  /\ UNCHANGED <<cmd, procs, pipe, status, red, found, dir, ctxVars, left,
                 undeleted, green, killed, overrun>>

\* cloneEnv: a token, or after an error or 30 seconds none; the clone is tried
\* either way.
Mint ==
  /\ pc = "mint"
  /\ pc' = "start"
  /\ UNCHANGED <<scanVars, ctxVars, left, histVars>>

\* Mutant: Scan removes its directory only on its way to a verdict.
Return_OnErrorKeepsDir(answer) ==
  /\ reply' = answer
  /\ pc' = IF answer \in {"clean", "markers"} THEN "remove" ELSE "idle"
  /\ UNCHANGED <<cmd, red>>

\* Scan returns by way of the deferred RemoveAll.
Return(answer) ==
  /\ reply' = answer
  /\ pc' = "remove"
  /\ UNCHANGED <<cmd, red>>

\* On to the next command, or to the classification after the last gate.
Advance ==
  /\ cmd' = cmd + 1
  /\ pc' = IF cmd = GateCount THEN "classify" ELSE "start"
  /\ UNCHANGED reply

CloneEnded(ok) ==
  /\ cmd = 0
  /\ \/ ok /\ Advance /\ UNCHANGED red
     \/ ~ok /\ CtxDone /\ Return("gate_timeout")
     \/ ~ok /\ ~CtxDone /\ Return("clone_failed")

\* Mutant: the error of a gate is not checked against the context.
GateEnded_NoContextCheck(ok) ==
  /\ cmd \in Gates
  /\ Advance
  /\ red' = (red \/ ~ok)

\* A gate that fails within the bound is remembered and the next one runs.
GateEnded(ok) ==
  /\ cmd \in Gates
  /\ \/ ok /\ Advance /\ UNCHANGED red
     \/ ~ok /\ CtxDone /\ Return("gate_timeout")
     \/ ~ok /\ ~CtxDone /\ Advance /\ red' = TRUE

\* gitHeadSHA: any error is a scan_failed.
RevParseEnded(ok) ==
  /\ cmd = RevParse
  /\ Return(IF ok THEN "markers" ELSE "scan_failed")

Ended(ok) == CloneEnded(ok) \/ GateEnded(ok) \/ RevParseEnded(ok)

Classify ==
  /\ pc = "classify"
  /\ \/ ~found /\ red /\ Return("scan_failed")
     \/ ~found /\ ~red /\ Return("clean")
     \/ found /\ pc' = "start" /\ UNCHANGED <<cmd, red, reply>>
  /\ UNCHANGED <<procs, pipe, status, found, dir, ctxVars, left, histVars>>

RemoveDir ==
  /\ pc = "remove"
  /\ pc' = "idle"
  /\ dir' \in BOOLEAN
  /\ undeleted' = dir'
  /\ UNCHANGED <<cmd, procs, pipe, status, red, found, reply, ctxVars, left,
                 green, killed, overrun>>

-----------------------------------------------------------------------------
(* One command, as os/exec and configureSubprocess run it.                 *)

Start ==
  /\ pc = "start"
  /\ ~CtxDone
  /\ procs' = {"leader"}
  /\ pipe' = {"leader"}
  /\ status' = "none"
  /\ pc' = "running"
  /\ UNCHANGED <<cmd, red, found, dir, reply, ctxVars, left, histVars>>

\* The context is done already, or the binary cannot be started.
StartFails ==
  /\ pc = "start"
  /\ Ended(FALSE)
  /\ UNCHANGED <<procs, pipe, status, found, dir, ctxVars, left, histVars>>

\* A descendant appears, in the group or out of it, with the pipe or without.
Fork ==
  /\ pc = "running"
  /\ \E p \in Kinds \ procs, holds \in BOOLEAN :
       /\ procs' = procs \cup {p}
       /\ pipe' = IF holds THEN pipe \cup {p} ELSE pipe
  /\ UNCHANGED <<pc, cmd, status, red, found, dir, reply, ctxVars, left, histVars>>

DescendantExits ==
  /\ \E p \in procs \ {"leader"} :
       /\ procs' = procs \ {p}
       /\ pipe' = pipe \ {p}
  /\ UNCHANGED <<pc, cmd, status, red, found, dir, reply, ctxVars, left, histVars>>

GatePrints ==
  /\ cmd \in Gates
  /\ pipe # {}
  /\ found' = TRUE
  /\ UNCHANGED <<pc, cmd, procs, pipe, status, red, dir, reply, ctxVars, left, histVars>>

\* The leader exits.  If the context is done by then, the rest of its group may
\* have been killed as well.
LeaderExits ==
  /\ pc = "running"
  /\ \E code \in {"ok", "bad"} :
       /\ status' = code
       /\ green' = IF code = "ok" /\ cmd \in Gates THEN green \cup {cmd} ELSE green
  /\ \E dead \in {{"leader"}} \cup (IF CtxDone THEN {Group} ELSE {}) :
       /\ procs' = procs \ dead
       /\ pipe' = pipe \ dead
  /\ pc' = "waiting"
  /\ UNCHANGED <<cmd, red, found, dir, reply, ctxVars, left,
                 undeleted, killed, overrun>>

\* cmd.Cancel: SIGKILL to the process group.
Kill ==
  /\ pc = "running"
  /\ CtxDone
  /\ procs' = procs \ Group
  /\ pipe' = pipe \ Group
  /\ status' = "bad"
  /\ killed' = IF cmd \in Gates THEN killed \cup {cmd} ELSE killed
  /\ pc' = "waiting"
  /\ UNCHANGED <<cmd, red, found, dir, reply, ctxVars, left,
                 undeleted, green, overrun>>

\* Nobody holds the pipe any more: Wait returns the leader's status.  What is
\* left of the command is forgotten.
WaitReturns ==
  /\ pc = "waiting"
  /\ pipe = {}
  /\ procs' = {}
  /\ Ended(status = "ok")
  /\ UNCHANGED <<pipe, status, found, dir, ctxVars, left, histVars>>

OverrunCap == 2
CountOverrun ==
  overrun' = IF CtxDone /\ overrun < OverrunCap THEN overrun + 1 ELSE overrun

\* Mutant: without WaitDelay, os/exec waits until the pipe is closed.
WaitDelayFires_Never == pc = "waiting" /\ pipe # {} /\ FALSE /\ UNCHANGED vars

\* Mutant: the delay is granted again as long as the pipe is held.
WaitDelayFires_Again ==
  /\ pc = "waiting"
  /\ pipe # {}
  /\ CountOverrun
  /\ UNCHANGED <<pc, scanVars, ctxVars, left, undeleted, green, killed>>

\* Mutant: the reader of the pipe is left behind, writing into the output.
WaitDelayFires_KeepsReading ==
  /\ pc = "waiting"
  /\ pipe # {}
  /\ procs' = {}
  /\ Ended(FALSE)
  /\ CountOverrun
  /\ UNCHANGED <<pipe, status, found, dir, ctxVars, left, undeleted, green, killed>>

\* The pipe is still held after WaitDelay: it is closed, and the command has
\* failed whatever the leader's status.
WaitDelayFires ==
  /\ pc = "waiting"
  /\ pipe # {}
  /\ procs' = {}
  /\ pipe' = {}
  /\ Ended(FALSE)
  /\ CountOverrun
  /\ UNCHANGED <<status, found, dir, ctxVars, left, undeleted, green, killed>>

-----------------------------------------------------------------------------
\* The deadline of context.WithTimeout.
Expire ==
  /\ pc \notin {"idle", "gather"}
  /\ ~expired
  /\ expired' = TRUE
  /\ UNCHANGED <<pc, scanVars, cancelled, left, histVars>>

\* The caller's context is cancelled: the process shuts down.
Cancel ==
  /\ ~cancelled
  /\ cancelled' = TRUE
  /\ UNCHANGED <<pc, scanVars, expired, left, histVars>>

Program ==
  \/ MakeDir \/ MakeDirFails \/ Mint
  \/ Start \/ StartFails \/ WaitReturns
  \/ Classify \/ RemoveDir

Next ==
  \/ StartCycle \/ NextRepo \/ CycleCut
  \/ CallScan \/ Program
  \/ Fork \/ DescendantExits \/ GatePrints \/ LeaderExits
  \/ Kill \/ WaitDelayFires
  \/ Expire \/ Cancel

Spec == Init /\ [][Next]_vars

\* Scan's goroutine is scheduled, and timers fire.  Nothing is assumed of the
\* commands: a leader may run for ever, and so may a descendant holding the pipe.
Fairness ==
  /\ WF_vars(Program)
  /\ WF_vars(Expire)
  /\ WF_vars(Kill)
  /\ WF_vars(WaitDelayFires)

FairSpec == Spec /\ Fairness

-----------------------------------------------------------------------------
(* Properties.                                                             *)

FlagsOK ==
  /\ expired \in BOOLEAN
  /\ cancelled \in BOOLEAN
  /\ red \in BOOLEAN
  /\ found \in BOOLEAN
  /\ dir \in BOOLEAN
  /\ undeleted \in BOOLEAN

DataOK ==
  /\ pc \in {"idle", "gather", "mkdir", "mint", "start", "running", "waiting",
             "classify", "remove"}
  /\ cmd \in 0..RevParse
  /\ pipe \subseteq procs
  /\ procs \subseteq Kinds
  /\ status \in {"none", "ok", "bad"}
  /\ reply \in Replies
  /\ left \in 0..MaxRepos
  /\ green \subseteq Gates
  /\ killed \subseteq Gates
  /\ overrun \in 0..OverrunCap
  /\ procs # {} => pc \in {"running", "waiting"}

\* Types; processes exist only between a command's start and its end, and only
\* they hold the pipe, so no two commands ever write into the output together.
TypeOK == FlagsOK /\ DataOK

\* A verdict on the repository (already_clean, scan_failed, a finding set) is
\* never taken from a gate the context has cut off, and a repository is only
\* called clean when every one of its gates exited with status 0.
VerdictIsEarned ==
  /\ reply \in {"clean", "scan_failed", "markers"} => killed = {}
  /\ reply = "clean" => green = Gates

\* The clone directory is gone when Scan has returned, on every path, unless
\* removing it failed.
CloneDirRemoved == pc = "idle" /\ dir => undeleted

\* Whatever processes a command leaves behind, Scan sits out at most one
\* WaitDelay after its context is done.
OverrunBounded == overrun <= 1

\* Scan returns, even when a gate hangs or leaves a process behind that escaped
\* its process group and keeps the pipe open.
ScanReturns == pc = "mkdir" ~> pc = "idle"

\* ErrScanFailed's comment: a gate cannot run, or exits non-zero without markers.
ScanFailedMeansGateFailed == reply = "scan_failed" => green # Gates

=============================================================================
