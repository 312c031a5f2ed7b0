----------------------------- MODULE ServiceProofs -----------------------------
(* The schedule keeps its promise for every interval and every duration.       *)
EXTENDS Service, TLAPS

\* What each check of the start-up has left behind it.
ConfigInv ==
  /\ main # "parse" /\ main # "ended" => "interval" \in wellFormed /\ interval <= MaxInterval
  /\ main \in {"client", "producer", "serve"} => "allowlist" \in wellFormed
  /\ main \in {"producer", "serve"} => creds = Credentials
  /\ loop = "off" => holder = "none" /\ drift = FALSE
  /\ loop = "off" \/ loop = "done" \/ main = "serve"
  /\ main = "serve" => loop # "off"
  /\ main \in {"parse", "allowlist", "client", "producer"} => loop = "off"
  /\ holder # "none" => main = "serve"

\* The ticker is running while the loop is; a cycle of the loop began on its
\* last tick, unless another is waiting.
TickerInv ==
  /\ Running => interval > 0 /\ untilTick > 0 /\ untilTick <= interval
  /\ loop \in {"off", "start"} => ticks = 0 /\ attempts = 0
  /\ loop = "cycle" /\ ticks = 0 => untilTick + age <= interval

\* A poll uses up a tick.
AttemptsInv == attempts + ticks + (IF loop = "poll" THEN 1 ELSE 0) <= 1

\* A finding never waits longer for a cycle to begin than its patience.
WaitInv ==
  /\ seen => drift
  /\ holder = "none" => ~seen /\ age = 0
  /\ drift /\ loop = "start" => waited = 0
  /\ drift /\ holder = "forced" => triggered
  /\ drift /\ holder = "loop" /\ ~seen => ~triggered
  /\ Running /\ drift /\ seen => waited <= age + Patience
  /\ Running /\ drift /\ ~seen /\ holder # "none" => waited <= age
  /\ Running /\ drift /\ holder = "none" => waited <= Patience
  /\ drift /\ holder = "none" /\ loop = "wait" /\ ticks = 0 => waited + untilTick <= Patience
IInv == FlagsOK /\ DataOK /\ ConfigInv /\ TickerInv /\ AttemptsInv /\ WaitInv

-----------------------------------------------------------------------------
LEMMA Numbers ==
  ASSUME DataOK
  PROVE  /\ interval \in Int /\ CycleBound \in Nat /\ untilTick \in Nat /\ ticks \in 0..1
         /\ age \in 0..CycleBound /\ waited \in Nat /\ attempts \in Nat
  BY IntervalsAssumption, BoundsAssumption DEF DataOK

LEMMA InitIInv == Init => IInv
<1> SUFFICES ASSUME Init PROVE IInv
  OBVIOUS
<1>1. FlagsOK /\ ConfigInv
  BY DEF Init, FlagsOK, ConfigInv
<1>2. DataOK
  BY BoundsAssumption DEF Init, DataOK
<1>3. TickerInv /\ AttemptsInv
  BY DEF Init, TickerInv, AttemptsInv, Running
<1>4. WaitInv
  BY DEF Init, WaitInv, Running
<1> QED
  BY <1>1, <1>2, <1>3, <1>4 DEF IInv

LEMMA NextFlagsOK == FlagsOK /\ [Next]_vars => FlagsOK'
  BY DEF FlagsOK, Next, StartUp, LoopStep, vars, config, ticker, slot, finding, ParseInterval,
         ValidateAllowlist, ResolveGitHubClient, ConnectProducer, NewTicker, Poll, TakeTick,
         LoopStops, Trigger, Begin, EndCycle, Drift, Pass, Stop, Return

\* The checks move main, and at last the loop, and nothing else.
LEMMA StartUpFrame ==
  ASSUME StartUp
  PROVE  /\ main' \in {"allowlist", "client", "producer", "serve", "ended"}
         /\ loop' = loop \/ (loop' = "start" /\ main = "producer")
         /\ main \in {"parse", "allowlist", "client", "producer"}
         /\ UNCHANGED <<interval, wellFormed, creds, stopping, untilTick, ticks, holder, age, seen,
                       drift, waited, triggered, attempts>>
  BY DEF StartUp, ParseInterval, ValidateAllowlist, ResolveGitHubClient, ConnectProducer,
         config, ticker, slot, finding

LEMMA NextDataOK ==
  ASSUME DataOK, ConfigInv, TickerInv, [Next]_vars
  PROVE  DataOK'
<1> USE DEF DataOK, config, ticker, slot, finding
<1>1. CASE StartUp
  BY <1>1, StartUpFrame DEF ConfigInv
<1>2. CASE NewTicker
  BY <1>2, Numbers, BoundsAssumption DEF NewTicker
<1>3. CASE Poll
  BY <1>3, BoundsAssumption DEF Poll, Begin
<1>4. CASE TakeTick
  BY <1>4 DEF TakeTick
<1>5. CASE LoopStops
  BY <1>5 DEF LoopStops
<1>6. CASE Trigger
  BY <1>6, BoundsAssumption DEF Trigger, Begin
<1>7. CASE EndCycle
  BY <1>7, BoundsAssumption DEF EndCycle
<1>8. CASE Drift
  BY <1>8 DEF Drift
<1>9. CASE Pass
  <2>1. /\ age' = IF holder = "none" THEN 0 ELSE age + 1
        /\ holder # "none" => age < CycleBound
        /\ waited' = IF drift THEN waited + 1 ELSE 0
    BY <1>9 DEF Pass, Idle
  <2>2. age' \in 0..CycleBound /\ waited' \in Nat
    BY <2>1, Numbers
  <2>3. untilTick' \in Nat /\ ticks' \in 0..1 /\ attempts' \in Nat
    <3>1. interval > 0 /\ untilTick > 0
      BY <1>9 DEF Pass, Idle, TickerInv, Running
    <3>2. \/ untilTick' = interval /\ ticks' = 1 /\ attempts' = 0
          \/ untilTick' = untilTick - 1 /\ ticks' = ticks /\ attempts' = attempts
      BY <1>9 DEF Pass, Tick
    <3> QED
      BY <3>1, <3>2, Numbers
  <2>4. UNCHANGED <<interval, wellFormed, creds, main, loop, holder>>
    BY <1>9 DEF Pass
  <2> QED
    BY <2>2, <2>3, <2>4
<1>10. CASE Stop
  BY <1>10 DEF Stop
<1>11. CASE Return
  BY <1>11, BoundsAssumption DEF Return
<1>12. CASE UNCHANGED vars
  BY <1>12 DEF vars
<1> QED
  BY <1>1, <1>2, <1>3, <1>4, <1>5, <1>6, <1>7, <1>8, <1>9, <1>10, <1>11, <1>12
  DEF Next, LoopStep

LEMMA NextConfigInv ==
  ASSUME DataOK, ConfigInv, [Next]_vars
  PROVE  ConfigInv'
<1> USE DEF DataOK, ConfigInv, config, ticker, slot, finding
<1>1. CASE StartUp
  BY <1>1, IntervalsAssumption, BoundsAssumption
  DEF StartUp, ParseInterval, ValidateAllowlist, ResolveGitHubClient, ConnectProducer
<1>2. CASE NewTicker \/ Poll \/ TakeTick \/ LoopStops
  BY <1>2 DEF NewTicker, Poll, TakeTick, LoopStops, Begin
<1>3. CASE Trigger \/ EndCycle \/ Drift
  BY <1>3 DEF Trigger, Begin, EndCycle, Drift
<1>4. CASE Pass \/ Stop \/ Return
  BY <1>4 DEF Pass, Idle, Stop, Return
<1>5. CASE UNCHANGED vars
  BY <1>5 DEF vars
<1> QED
  BY <1>1, <1>2, <1>3, <1>4, <1>5 DEF Next, LoopStep

LEMMA NextTickerInv ==
  ASSUME DataOK, ConfigInv, TickerInv, AttemptsInv, [Next]_vars
  PROVE  TickerInv' /\ AttemptsInv'
<1> USE Numbers DEF TickerInv, AttemptsInv, Running, config, ticker, slot, finding
<1>1. CASE StartUp
  BY <1>1, StartUpFrame DEF ConfigInv
<1>2. CASE NewTicker
  BY <1>2 DEF NewTicker
<1>3. CASE Poll
  BY <1>3 DEF Poll, Begin
<1>4. CASE TakeTick
  BY <1>4 DEF TakeTick
<1>5. CASE LoopStops
  BY <1>5 DEF LoopStops
<1>6. CASE Trigger
  BY <1>6 DEF Trigger, Begin, DataOK
<1>7. CASE EndCycle
  BY <1>7 DEF EndCycle, DataOK
<1>8. CASE Drift
  BY <1>8 DEF Drift
<1>9. CASE Pass
  BY <1>9 DEF Pass, Idle, Tick, DataOK
<1>10. CASE Stop
  BY <1>10 DEF Stop
<1>11. CASE Return
  BY <1>11 DEF Return
<1>12. CASE UNCHANGED vars
  BY <1>12 DEF vars
<1> QED
  BY <1>1, <1>2, <1>3, <1>4, <1>5, <1>6, <1>7, <1>8, <1>9, <1>10, <1>11, <1>12
  DEF Next, LoopStep
-----------------------------------------------------------------------------
\* While the loop runs, a cycle's duration and the interval are within the patience.
LEMMA PatienceBounds ==
  ASSUME DataOK, TickerInv, Running
  PROVE  Patience \in Nat /\ interval <= Patience /\ CycleBound <= Patience
  BY Numbers DEF Patience, TickerInv

LEMMA NextWaitInv ==
  ASSUME FlagsOK, DataOK, ConfigInv, TickerInv, AttemptsInv, WaitInv, [Next]_vars
  PROVE  WaitInv'
<1> USE Numbers DEF WaitInv, Running, Patience, config, ticker, slot, finding
<1>1. CASE StartUp
  BY <1>1, StartUpFrame DEF ConfigInv
<1>2. CASE NewTicker
  BY <1>2 DEF NewTicker
<1>3. CASE Poll
  BY <1>3 DEF Poll, Begin, AttemptsInv, TickerInv
<1>4. CASE TakeTick
  BY <1>4 DEF TakeTick
<1>5. CASE LoopStops
  BY <1>5 DEF LoopStops
<1>6. CASE Trigger
  <2>1. /\ holder = "none" /\ holder' = "forced" /\ age' = 0 /\ (seen' <=> drift)
        /\ (triggered' <=> drift) /\ loop # "cycle"
        /\ UNCHANGED <<interval, loop, untilTick, ticks, drift, waited>>
    BY <1>6 DEF Trigger, Begin, FlagsOK, DataOK
  <2>2. Running /\ drift => waited <= interval + CycleBound
    BY <2>1 DEF TickerInv
  <2> QED
    BY <2>1, <2>2
<1>7. CASE EndCycle
  BY <1>7 DEF EndCycle, DataOK, TickerInv
<1>8. CASE Drift
  <2>1. /\ ~seen /\ ~seen' /\ waited' = 0 /\ (triggered' <=> holder = "forced")
        /\ UNCHANGED <<interval, loop, untilTick, ticks, holder, age>>
    BY <1>8 DEF Drift
  <2>2. Running => /\ 0 <= IF interval > CycleBound THEN interval ELSE CycleBound
                   /\ 0 <= interval + CycleBound
                   /\ untilTick <= IF interval > CycleBound THEN interval ELSE CycleBound
    BY DEF TickerInv
  <2> QED
    BY <2>1, <2>2
<1>9. CASE Pass
  <2>1. /\ UNCHANGED <<interval, loop, holder, seen, drift, triggered>>
        /\ age' = IF holder = "none" THEN 0 ELSE age + 1
        /\ waited' = IF drift THEN waited + 1 ELSE 0
        /\ loop = "cycle" \/ (loop = "wait" /\ ticks = 0)
    BY <1>9 DEF Pass, Idle
  <2>2. \/ untilTick = 1 /\ ticks' = 1
        \/ untilTick' = untilTick - 1 /\ ticks' = ticks
    BY <1>9 DEF Pass, Tick
  <2>3. Patience' = Patience
    BY <2>1
  <2> HIDE DEF Patience
  <2>4. loop = "wait" \/ holder = "loop"
    BY <2>1 DEF DataOK
  <2>5. Patience \in Nat
    BY <2>1, PatienceBounds
  <2>6. drift /\ holder = "none" => loop = "wait" /\ waited + 1 <= Patience
    BY <2>1, <2>2, <2>4, <2>5 DEF TickerInv
  <2>7. drift /\ seen => waited <= age + Patience /\ holder # "none"
    BY <2>1, <2>5
  <2>8. drift /\ ~seen /\ holder # "none" => waited <= age
    BY <2>1
  <2>9. drift /\ holder = "none" /\ ticks' = 0 => waited' + untilTick' <= Patience
    BY <2>1, <2>2, <2>4
  <2> QED
    BY <2>1, <2>3, <2>5, <2>6, <2>7, <2>8, <2>9
<1>10. CASE Stop
  BY <1>10 DEF Stop
<1>11. CASE Return
  BY <1>11 DEF Return
<1>12. CASE UNCHANGED vars
  BY <1>12 DEF vars
<1> QED
  BY <1>1, <1>2, <1>3, <1>4, <1>5, <1>6, <1>7, <1>8, <1>9, <1>10, <1>11, <1>12
  DEF Next, LoopStep

LEMMA Invariant == Spec => []IInv
<1>1. IInv /\ [Next]_vars => IInv'
  BY NextFlagsOK, NextDataOK, NextConfigInv, NextTickerInv, NextWaitInv DEF IInv
<1> QED
  BY <1>1, InitIInv, PTL DEF Spec

\* The service's variables keep their types, and its cycles their bound.
THEOREM TypeCorrect == Spec => []TypeOK
<1>1. IInv => TypeOK
  BY DEF IInv, TypeOK
<1> QED
  BY <1>1, Invariant, PTL

\* Missed ticks are dropped, whatever the interval and however long the cycles.
THEOREM NoBurst == Spec => []TicksNotQueued
<1>1. IInv => TicksNotQueued
  BY Numbers DEF IInv, AttemptsInv, TicksNotQueued
<1> QED
  BY <1>1, Invariant, PTL

\* Only a complete and valid configuration is ever polled under.
THEOREM Configured == Spec => []OnlyConfiguredPolls
<1> SUFFICES ASSUME IInv PROVE OnlyConfiguredPolls
  BY Invariant, PTL
<1>1. Running => main = "serve" /\ interval \in 1..MaxInterval
  BY Numbers, BoundsAssumption DEF IInv, ConfigInv, TickerInv, Running
<1>2. wellFormed = Settings \/ main # "serve"
  BY DEF IInv, ConfigInv, DataOK, Settings
<1> QED
  BY <1>1, <1>2 DEF IInv, ConfigInv, OnlyConfiguredPolls

\* Detection keeps its bound for every interval and every duration of a cycle.
THEOREM DetectionInTime == Spec => []DetectionBound
<1> SUFFICES ASSUME IInv PROVE DetectionBound
  BY Invariant, PTL
<1> SUFFICES ASSUME Running, drift PROVE waited <= Patience + CycleBound
  BY DEF DetectionBound
<1>1. Patience \in Nat /\ CycleBound <= Patience /\ age \in 0..CycleBound /\ waited \in Nat
  BY PatienceBounds, Numbers DEF IInv
<1>2. waited <= age + Patience \/ waited <= age \/ waited <= Patience
  BY DEF IInv, WaitInv
<1> QED
  BY <1>1, <1>2, BoundsAssumption
=============================================================================
