-------------------------------- MODULE Service --------------------------------
(***************************************************************************)
(* The service around the poll cycle: the checks of its start-up, the      *)
(* ticker that schedules cycles, the forced cycles that compete with them  *)
(* for the slot, and the shutdown.  A cycle is only its duration here, and *)
(* time passes in units, of which a cycle takes at most CycleBound.  What  *)
(* the code does without waiting takes no time.                            *)
(***************************************************************************)
EXTENDS Integers

CONSTANTS
  Intervals,     \* settings of POLL_INTERVAL to look at
  MaxInterval,   \* 24h
  CycleBound     \* the longest cycle: every request and every scan has a timeout

ASSUME IntervalsAssumption == Intervals \subseteq Int
ASSUME BoundsAssumption    == MaxInterval \in Nat /\ CycleBound \in Nat

Settings    == {"interval", "allowlist"}
Credentials == {"APP_ID", "INSTALLATION_ID", "PEM_KEY"}

VARIABLES
  interval,    \* POLL_INTERVAL ...
  wellFormed,  \* the settings that parse
  creds,       \* the credentials that are set
  main,        \* where application.Run is
  stopping,    \* the context of service.Run is done
  loop,        \* where pollLoop is
  untilTick,   \* the ticker's next tick
  ticks,       \* ticks in its channel
  holder,      \* whose cycle holds the slot
  age,         \* how long it has run
  \* history
  drift,       \* there is a finding nobody has filed
  seen,        \* the running cycle began after it appeared
  waited,      \* how long it has been there, or since a cycle failed to file it
  triggered,   \* a forced cycle has run in that time
  attempts     \* polls since the ticker ticked

config  == <<interval, wellFormed, creds>>
ticker  == <<untilTick, ticks>>
slot    == <<holder, age, seen>>
finding == <<drift, waited, triggered>>
vars    == <<config, main, stopping, loop, ticker, slot, finding, attempts>>

Init ==
  /\ interval \in Intervals
  /\ wellFormed \in SUBSET Settings
  /\ creds \in SUBSET Credentials
  /\ main = "parse"
  /\ stopping = FALSE
  /\ loop = "off"
  /\ untilTick = 0
  /\ ticks = 0
  /\ holder = "none"
  /\ age = 0
  /\ drift = FALSE
  /\ seen = FALSE
  /\ waited = 0
  /\ triggered = FALSE
  /\ attempts = 0

-----------------------------------------------------------------------------
(* Start-up: whatever fails, Run returns its error.                        *)

ParseInterval ==
  /\ main = "parse"
  /\ main' = IF "interval" \in wellFormed /\ interval <= MaxInterval THEN "allowlist" ELSE "ended"
  /\ UNCHANGED <<config, stopping, loop, ticker, slot, finding, attempts>>

ValidateAllowlist ==
  /\ main = "allowlist"
  /\ main' = IF "allowlist" \in wellFormed THEN "client" ELSE "ended"
  /\ UNCHANGED <<config, stopping, loop, ticker, slot, finding, attempts>>

\* All three credentials or none; the client they make may be refused too.
ResolveGitHubClient ==
  /\ main = "client"
  /\ main' \in {"ended"} \cup (IF creds = Credentials THEN {"producer"} ELSE {})
  /\ UNCHANGED <<config, stopping, loop, ticker, slot, finding, attempts>>

\* With the producer service.Run starts the loop and the HTTP server.
ConnectProducer ==
  /\ main = "producer"
  /\ \/ main' = "serve" /\ loop' = "start"
     \/ main' = "ended" /\ UNCHANGED loop
  /\ UNCHANGED <<config, stopping, ticker, slot, finding, attempts>>

-----------------------------------------------------------------------------
(* The loop.                                                               *)

\* Mutant: the first poll comes before the ticker.
NewTicker_AfterPoll ==
  /\ loop = "start"
  /\ main = "serve"
  /\ loop' = "poll"
  /\ untilTick' = interval
  /\ UNCHANGED <<config, main, stopping, ticks, slot, finding, attempts>>

\* time.NewTicker panics on an interval that is not positive, and the process
\* dies of it, with a forced cycle that may have begun.
NewTicker ==
  /\ loop = "start"
  /\ main = "serve"
  /\ \/ /\ interval > 0
        /\ loop' = "poll"
        /\ untilTick' = interval
        /\ UNCHANGED <<main, slot>>
     \/ /\ interval <= 0
        /\ loop' = "done"
        /\ main' = "ended"
        /\ holder' = "none" /\ age' = 0 /\ seen' = FALSE
        /\ UNCHANGED untilTick
  /\ UNCHANGED <<config, stopping, ticks, finding, attempts>>

Begin(who) ==
  /\ holder' = who
  /\ age' = 0
  /\ seen' = drift

\* Mutant: a poll that finds the slot taken is tried again.
Poll_Retries ==
  /\ loop = "poll"
  /\ IF holder = "none"
       THEN loop' = "cycle" /\ Begin("loop")
       ELSE UNCHANGED <<loop, slot>>
  /\ attempts' = attempts + 1
  /\ UNCHANGED <<config, main, stopping, ticker, finding>>

\* A poll that finds the slot taken is dropped.
Poll ==
  /\ loop = "poll"
  /\ IF holder = "none"
       THEN loop' = "cycle" /\ Begin("loop")
       ELSE loop' = "wait" /\ UNCHANGED slot
  /\ attempts' = attempts + 1
  /\ UNCHANGED <<config, main, stopping, ticker, finding>>

\* The loop's select may take a tick though its context is done, too.
TakeTick ==
  /\ loop = "wait"
  /\ ticks > 0
  /\ ticks' = ticks - 1
  /\ loop' = "poll"
  /\ UNCHANGED <<config, main, stopping, untilTick, slot, finding, attempts>>

\* Mutant: it waits for a forced cycle first.
LoopStops_WithSlot ==
  /\ loop = "wait"
  /\ stopping
  /\ holder = "none"
  /\ loop' = "done"
  /\ UNCHANGED <<config, main, stopping, ticker, slot, finding, attempts>>

LoopStops ==
  /\ loop = "wait"
  /\ stopping
  /\ loop' = "done"
  /\ UNCHANGED <<config, main, stopping, ticker, slot, finding, attempts>>

-----------------------------------------------------------------------------
(* Cycles.                                                                 *)

Trigger ==
  /\ main = "serve"
  /\ holder = "none"
  /\ Begin("forced")
  /\ triggered' = drift
  /\ UNCHANGED <<config, main, stopping, loop, ticker, drift, waited, attempts>>

\* Mutant: the loop goes on while its cycle still holds the slot.
EndCycle_KeepsSlot ==
  /\ holder # "none"
  /\ IF seen
       THEN drift' \in BOOLEAN /\ waited' = 0 /\ triggered' = FALSE
       ELSE UNCHANGED finding
  /\ IF holder = "loop" THEN UNCHANGED slot ELSE holder' = "none" /\ age' = 0 /\ seen' = FALSE
  /\ loop' = IF holder = "loop" THEN "wait" ELSE loop
  /\ UNCHANGED <<config, main, stopping, ticker, attempts>>

\* Mutant: the loop sleeps for the interval after its cycle.
EndCycle_Sleeps ==
  /\ holder # "none"
  /\ IF seen
       THEN drift' \in BOOLEAN /\ waited' = 0 /\ triggered' = FALSE
       ELSE UNCHANGED finding
  /\ holder' = "none" /\ age' = 0 /\ seen' = FALSE
  /\ IF holder = "loop"
       THEN loop' = "wait" /\ untilTick' = interval /\ ticks' = 0
       ELSE UNCHANGED <<loop, ticker>>
  /\ UNCHANGED <<config, main, stopping, attempts>>

\* A cycle that began after the finding appeared has filed it, or it has failed.
EndCycle ==
  /\ holder # "none"
  /\ IF seen
       THEN drift' \in BOOLEAN /\ waited' = 0 /\ triggered' = FALSE
       ELSE UNCHANGED finding
  /\ holder' = "none" /\ age' = 0 /\ seen' = FALSE
  /\ loop' = IF holder = "loop" THEN "wait" ELSE loop
  /\ UNCHANGED <<config, main, stopping, ticker, attempts>>

-----------------------------------------------------------------------------
(* The world.                                                              *)

\* An advisory, a commit, or a restart over what was left.
Drift ==
  /\ main = "serve"
  /\ ~drift
  /\ drift' = TRUE
  /\ waited' = 0
  /\ triggered' = (holder = "forced")
  /\ UNCHANGED <<config, main, stopping, loop, ticker, slot, attempts>>

\* The loop and main have nothing to do, and the running cycle is within its
\* bound.  A cycle whose context is done ends in less than a unit.
Idle ==
  /\ main = "serve"
  /\ ~stopping
  /\ loop = "cycle" \/ (loop = "wait" /\ ticks = 0)
  /\ holder # "none" => age < CycleBound

\* The channel of a ticker holds one tick, and drops what it cannot hold.
Tick == ticks' = 1

Pass ==
  /\ Idle
  /\ IF untilTick = 1
       THEN untilTick' = interval /\ Tick /\ attempts' = 0
       ELSE untilTick' = untilTick - 1 /\ UNCHANGED <<ticks, attempts>>
  /\ age' = IF holder = "none" THEN 0 ELSE age + 1
  /\ waited' = IF drift THEN waited + 1 ELSE 0
  /\ UNCHANGED <<config, main, stopping, loop, holder, seen, drift, triggered>>

\* SIGTERM, or the HTTP server has ended.
Stop ==
  /\ main = "serve"
  /\ ~stopping
  /\ stopping' = TRUE
  /\ UNCHANGED <<config, main, loop, ticker, slot, finding, attempts>>

\* service.Run returns, and a forced cycle dies with the process.
Return ==
  /\ main = "serve"
  /\ loop = "done"
  /\ main' = "ended"
  /\ holder' = "none" /\ age' = 0 /\ seen' = FALSE
  /\ UNCHANGED <<config, stopping, loop, ticker, finding, attempts>>

-----------------------------------------------------------------------------
StartUp  == ParseInterval \/ ValidateAllowlist \/ ResolveGitHubClient \/ ConnectProducer
LoopStep == NewTicker \/ Poll \/ TakeTick \/ LoopStops

Next ==
  \/ StartUp \/ LoopStep
  \/ Trigger \/ EndCycle
  \/ Drift \/ Pass \/ Stop \/ Return

Spec == Init /\ [][Next]_vars

\* The loop is never blocked for good; a cycle ends, for all it calls is bounded.
FairSpec == Spec /\ WF_vars(LoopStep) /\ WF_vars(EndCycle) /\ WF_vars(Return)

-----------------------------------------------------------------------------
(* Properties.                                                             *)

Running == loop \in {"poll", "wait", "cycle"}

FlagsOK ==
  /\ stopping \in BOOLEAN
  /\ drift \in BOOLEAN
  /\ seen \in BOOLEAN
  /\ triggered \in BOOLEAN

DataOK ==
  /\ interval \in Intervals
  /\ wellFormed \subseteq Settings
  /\ creds \subseteq Credentials
  /\ main \in {"parse", "allowlist", "client", "producer", "serve", "ended"}
  /\ loop \in {"off", "start", "poll", "wait", "cycle", "done"}
  /\ untilTick \in Nat
  /\ ticks \in 0..1
  /\ holder \in {"none", "loop", "forced"}
  /\ age \in 0..CycleBound
  /\ waited \in Nat
  /\ attempts \in Nat
  /\ loop = "cycle" <=> holder = "loop"

\* Types; the channel never holds two ticks, no cycle outruns its bound, and
\* who is in a cycle holds the slot.
TypeOK == FlagsOK /\ DataOK

\* How long a finding may wait for a cycle to begin.
Patience ==
  IF triggered THEN interval + CycleBound
  ELSE IF interval > CycleBound THEN interval
  ELSE CycleBound

\* A finding is filed, or a cycle that should have filed it has failed, within
\* the interval (or a longer cycle) and a cycle's duration; dropped polls and
\* overlong cycles never add up.  Forced cycles may cost one more duration.
DetectionBound == Running /\ drift => waited <= Patience + CycleBound

\* What an overlong cycle has missed is not made up for: between two ticks the
\* loop polls once.
TicksNotQueued == attempts <= 1

\* No poll is ever scheduled under a configuration that should have been
\* refused, an interval without a meaning included, and nothing at all runs
\* without credentials or beyond the 24 hours.
OnlyConfiguredPolls ==
  /\ Running => interval \in 1..MaxInterval
  /\ holder # "none" => /\ interval <= MaxInterval
                        /\ wellFormed = Settings
                        /\ creds = Credentials

\* Once it has been told to, the service ends, though the loop's select may
\* prefer ticks and triggers may go on taking the slot.
ShutdownEnds == stopping ~> main = "ended"
=============================================================================
