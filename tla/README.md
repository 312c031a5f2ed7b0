# TLA+ models and proofs for github-vuln-watcher

github-vuln-watcher polls the repositories of one GitHub owner. For each one that
has consented it clones the repository, runs the repository's own `make` gates,
reads `GO-…`/`CVE-…` markers in their output, and publishes one create-task command
to Kafka for a finding set it has not reported yet. What it has reported is kept in a
JSON cursor file. This directory models the part of the program where order, failure
and concurrency matter, checks it with TLC and proves its safety properties with
TLAPS. All source paths are relative to the repository.

Run a model with `tlc -config <run>.cfg <module>`, a proof with
`tlapm <module>Proofs.tla`. `PROJECT.json` lists runs, mutants, theorems, findings,
hazards, and for every definition the source lines it stands for.

## 1. Inventory

| Component | Code | State | Operations | What makes it hard | What makes it correct |
|---|---|---|---|---|---|
| poll cycle | `pkg/watcher.go`, `pkg/candidate.go` | the cursor map of the running cycle | `Poll`, `processRepos`, `gatherCandidate` | fails, is cancelled or crashes between a publish and the save; duplicates in a listing | the cursor never claims what Kafka did not get, and shows what was filed last; nothing is re-filed without a reason |
| cycle gate, trigger | `pkg/cyclegate.go`, `pkg/handler/trigger_handler.go` | one slot | `TryAcquire`, `Release`, `POST /trigger` | the slot is handed to a background goroutine; error path, panic | one cycle at a time; the slot always comes back |
| interval loop, service | `main.go`, `pkg/auth/auth.go` | ticker, application context | `pollLoop`, `Run`, `ResolveGitHubClient` | cycles longer than the interval; forced cycles taking the slot; shutdown while one runs; settings nobody checks | a finding waits a bounded time for a cycle; ticks are skipped, not queued; the service stops |
| cursor file | `pkg/cursor.go`, `pkg/cursorreader.go` | `<path>`, `.tmp`, `.corrupt` | `LoadCursor`, `SaveCursor` | crash between system calls, failed rename, damaged file | one atomic register to the cycle |
| scanner | `pkg/scanner.go` | clone directory, subprocess, output buffer | `Scan` | hanging gates, process groups, escaped descendants, deadline against exit, clean-up | always returns, in bounded time after the deadline; no verdict from a cut-off gate; nothing left on disk |
| gate output | `pkg/scanner.go` | capped buffer | `cappedWriter.Write`, `extractMarkers` | arbitrary pieces, the cap inside a piece | buffer = leading bytes of each gate |
| task publisher, builder, identifier | `pkg/taskpublisher.go`, `pkg/taskbuilder.go`, `pkg/taskid.go` | none | `PublishCreate`, `BuildCreateCommand`, `DeriveVulnTaskID` | failed or unacknowledged send; names that read like parts of a seed | recorded only after success; one identifier per repository and set of findings |
| GitHub client | `pkg/githubclient.go` | none | `ListRepos`, `GetGoMod`, `GetMaintainerConfig` | pages shift and are capped; rate limits | in-scope set, once each |
| filters and consent | `pkg/filter/` | none | chain, `ParseConsent` | order; malformed file | scan only with consent |
| non-2xx logging | `pkg/non2xx_log.go` | body prefix | `RoundTrip` | the body is read twice, in pieces, and may break off anywhere | the caller sees the same body and error |
| metrics | `pkg/metrics.go` | counters | `Inc…` | one exit of the loop body per label | the labels add up to the repositories listed |
| token mint, factory, other handlers, mathutil | `pkg/auth/tokensource.go`, `pkg/factory/`, `pkg/handler/`, `pkg/mathutil/` | none | | stateless | |

Interactions: the interval loop and the `/trigger` handler share the `CycleGate` and
the `Watcher`; a cycle calls the GitHub client, the filters, the scanner and the
publisher in turn, and the cursor file at its start and its end. Only the cycle's
memory connects a publish to the save that follows it, possibly hours later: that gap
is the system's central hazard. The hazards, each at its line and with the
properties that cover it, are in `PROJECT.json`.

## 2. Modules

### VulnWatcher (core)

Composes the poll cycle, the gate, the trigger endpoint, the interval loop, the
process (shutdown, crash, restart) and the world around it. Actors are `Loop` and
the `Triggers`; each has a `pc`, the local variables of its `Poll` (`mem` is
`cursorState`, `todo` the rest of the slice, `cand` the identifier computed after
the scan) and its `force` flag. `disk` is what `LoadCursor` would return. One
action per step of the code between two calls:

* `Acquire`, `LoopPoll`, `TriggerAccepted`, `TriggerRejected`, `Launch`,
  `LaunchFails`, `Release`, `Panic`: `TryAcquire`/`Release` and the three answers
  of the handler (202, 409, 500) with its background runner;
* `Load`, `ListRepos`, `SaveCursor` and their failures: `Poll`;
* `NextRepo`, `ReposDone`, `Gather`, `Scan`, `Dedup…`, `Publish` and their failures:
  `processRepos`. `GatherRateLimited` aborts the cycle without saving, as the code does;
* `Cancel`, `Exit`, `Crash`, `Corrupt`, `FindingsDrift`, `ConsentDrift`, `CalmDown`:
  the environment.

A finding set is represented by its task identifier (`Ids`; `None` is the empty
string). `Faults` says which kinds of fault may happen; `calm` switches them off for
good, which liveness properties need. `filed`, `delivered` and `lost` are history:
`lost` holds the repositories whose cursor entry was discarded by a fault that the
model names (crash, exit, panic, failed save, rate limit, lost acknowledgement,
damaged file), and is cleared when the cursor shows the last filed task again.

### CursorFile, DurableCursor

`CursorFile` is `LoadCursor`/`SaveCursor`, one system call per step, with the three
files, a crash between any two steps, every call failing, and damage from outside.
`DurableCursor` is the abstract promise: one register that a save replaces in one
step or not at all. `ImplementsDurableCursor` is the refinement (a load sees a missing or
torn file as the empty cursor; the rename is the commit point). VulnWatcher's `disk`
is that register; its `SaveCursor` and `SaveCursorFails` are `Commit; Saved` and
`Failed`, its `Crash` before or after a save covers a crash on either side of the commit.

### Scanner, GateOutput

`Scanner` is `Scan` with its subprocesses as os/exec runs them under
`configureSubprocess`: the leader, its kin in the process group and strays outside
it may hold the output pipe; `Kill` is the group kill when the context is done,
`WaitDelayFires` the five-second limit on waiting for the pipe. The deadline and a
shutdown of the caller may come at any moment. The caller is the part of
`processRepos` that calls `Scan` for one repository after the other.

`GateOutput` follows the data from there to Kafka. Text is a sequence of three kinds of
symbol (the fixed start of a marker, a digit, anything else), gates print it in
arbitrary pieces through a `cappedWriter` each, `Matches` is the regular expression and
`extractMarkers` its sorted result. `Publish` builds the command for it: its findings,
their number, and as identifier the `Seed` that the code hashes, spelled out with the
dashes and commas that separate its parts (symbols too, named `"Dash"` and `"Comma"`).
`Sorted` is what `sort.Strings` and the set behind it return: the members in increasing
order, each once. An instance has one owner, as a deployment
has; across owners two seeds can coincide (`a-b/c` and `a/b-c`).

### Inventory

`Inventory` opens up what VulnWatcher takes as one step each: `ListRepos` page by page,
`GetGoMod`, `GetMaintainerConfig` with `ParseConsent`, and the static filter chain.
A repository is a profile (`Kinds`): what `mapGitHubRepos` and the allowlist look at,
and its two files as the code can tell them apart. The installation may change between
pages (`Shift`), next links may lead back, and every request may fail or be rate limited.
`counts` and `listed` are the counters of `metrics.go`, from the zero each label is
initialised with at the start of a cycle (their values before it are left out). `log`
is history: the verdict on each repository in order. `mapGitHubRepos` keeps what is
`InScope`, in the order listed (`Within`). Scan, dedup filter and publish are
one step `Scan` with any of its labels. In VulnWatcher's terms `FilterPasses` is its
`Gather`, `FilterSkips` and `Drop` its `GatherSkips`, `ReadRateLimited` its
`GatherRateLimited`, and the two failures of the listing its `ListReposFails`.

### ErrorBody, PlainBody

`ErrorBody` is a response on its way through `non2xxLoggingTransport`: `Peek` is one read
of `io.ReadAll` over the `LimitReader`, `ReadPrefix`, `ReadRest` and `ReadError` are the
reader handed to the caller. The connection delivers a body in any pieces, reports its
end with the last bytes or after them, and once it has reported an error may afterwards
claim a clean end (which is why `errReader` exists). `PlainBody` is a body that nobody
has peeked at; `ImplementsPlainBody` maps the caller's view to it. `Conclude` is what
go-github and `isRateLimitError`, `isNotFound` make of the response.

### Service

`Service` is `application.Run` from the first check to the end of the process, the
`time.Ticker` and the two parties that start cycles. Time passes in units (`Pass`), and
only while the loop has nothing to do, so that what the code does without waiting takes
no time; a cycle is its duration, at most `CycleBound`. `drift` is a finding that no
cycle has filed: a cycle that began after it appeared ends by filing it or by failing,
with which `waited` starts anew. How a cycle works is VulnWatcher's subject, whose
`LoopPoll` leaves out the time.

### Proof modules

Each of `VulnWatcherProofs`, `CursorFileProofs`, `ScannerProofs`, `GateOutputProofs`,
`InventoryProofs`, `ErrorBodyProofs` and `ServiceProofs` extends the module it is named
after. `FoldLemmas` belongs to no component: it proves, for sequences and tables of any
size, what the library's folds return (`FlattenSeq`, `SumFunction`), and the induction
over a range of numbers that this takes.

### MC modules

`MCVulnWatcher` extends VulnWatcher with the listings and the symmetry used by its
configurations, `MCInventory` extends Inventory with its profiles, `MCGateOutput`
GateOutput with repository names, `MCErrorBody` ErrorBody with bodies and `MCService`
Service with intervals. The other modules are small enough to be instantiated by their
configurations alone.

## 3. Runs

| Run | Question | Result |
|---|---|---|
| `watcher_two_repos` | two repositories, the loop and two clients racing for the slot, all faults: gate, cursor and dedup | pass |
| `watcher_one_repo` | one repository with drifting findings: cursor and dedup; the slot comes back; findings get filed; a forced cycle publishes again | pass |
| `watcher_lossless` | only faults that cannot cost a cursor entry: nothing is ever re-filed | pass |
| `watcher_rate_limited` | "never re-filed", with rate limits only | **violated** |
| `cursor_file` | the system calls against the atomic register | pass |
| `scanner` | verdicts, clean-up and overrun of a scan; Scan returns whatever its gates do | pass |
| `scanner_scan_failed` | scan_failed only when a gate failed | **violated** |
| `gate_output` | buffer, markers and command against definitions over what was printed; which findings share an identifier | pass |
| `gate_output_invented` | only printed markers are extracted | **violated** |
| `inventory` | which repositories are scanned, why others are not, and how all are counted; a cycle ends | pass |
| `error_body` | a peeked error body against one nobody peeked at, and what the client concludes from it | pass |
| `service` | which configurations run; how long a finding waits; what overlong cycles cost; the shutdown | pass |

Each property of a passing run has a mutant, an operator next to the definition it
replaces, that changes the model as a plausible bug would change the code (the slot
taken without looking, the error path that forgets `Release`, the filter over the
cursor as loaded, the file written in place, a missing context check …); TLC then
finds the property violated.

The violated properties state what a document or comment says; `PROJECT.json`
quotes each line. In short: a rate limit met while reading a repository's files throws
away the entries of everything published earlier in that cycle, so unchanged finding
sets are filed again (the task identifier lets a consumer drop the repeat; the
failure table lists rate limits during the listing only, where nothing is lost); a
green gate that leaves a process on its pipe counts as failed; and the 4 MiB cap may
cut a marker to another one.

Disagreements that can be read off the models without a run:

* When `os.MkdirTemp` fails, the repository is skipped as `scan_failed` and the cycle
  goes on (Scanner's `MakeDirFails`); `specs/completed/001-vuln-drift-watcher.md:118`
  has the cycle abort as `scan_error`.
* A `.maintainer.yaml` that is valid YAML but whose `goUpdate` is no mapping is an error
  (`ParseConsent` on `"misshapen"`) and drops its repository with a log line, without a
  counter; `consent.go:42` keeps errors for text that is not valid YAML at all, and
  `001-vuln-drift-watcher.md:78` has any other value be a skip.
* "Within one poll interval" (`001-vuln-drift-watcher.md:24`) is, exactly, the longer of
  interval and cycle plus the duration of the cycle that files it; with forced cycles
  one duration more (`DetectionBound`, whose bounds TLC shows to be tight).
* A shutdown in the middle of a scan is answered `ErrGateTimeout` (`CtxDone` in
  `CloneEnded` and `GateEnded`), and a marker behind the cap is not extracted.
* A secondary rate limit whose body breaks off is an ordinary error, with or without the
  logging transport (`Verdict`).
* `repos_scanned_total` counts the repositories listed in scope, not those scanned.
* With an interval of zero or less the process dies in `time.NewTicker`, after the HTTP
  server may have started a forced cycle (`NewTicker`).

### Bounds

* VulnWatcher: two repositories, one identifier and two trigger clients, or one
  repository, two identifiers and one client (for the liveness properties, without
  symmetry); `watcher_lossless` has two repositories and two identifiers. Two repositories are what it takes for a fault
  at the second to cost the entry of the first; two identifiers for a finding set to
  drift away and come back; two clients and the loop for a third party to release a
  slot it does not hold. `Listings` (MC module) are the slices `ListRepos` may return,
  a duplicate included. Cycles, restarts and drifts are not bounded.
* CursorFile: the empty cursor and two others, so that an old and a new value can be
  told apart. Nothing else is bounded.
* Scanner: `GateCount = 2` (the default pair of gates), `MaxRepos = 2` repositories a
  cycle, and `OverrunCap = 2`, one more than the bound being checked.
* Inventory: two repositories, pages of one, at most three pages, so that a page shift
  can hide or repeat a repository and a link that leads back reaches the limit. One
  repository is eligible, the other has any profile: eligible, with one fault, or with
  a pair of faults in which the order of filters or of reads decides. A fault of one
  must not touch the other, which two faulty repositories would not show any better.
  `Answers` is one skip reason and one publish status; the labels differ in nothing
  else. Shifts are not bounded.
* GateOutput: two gates, a cap of 3 symbols, `MaxPrinted = 4` symbols a gate, so that
  the cap falls before, inside and behind a marker, and `MaxPiece = 2`, so that it
  falls inside a piece. The names end in a dash, in a whole marker or in the start of one.
* ErrorBody: a peek of 3 bytes and bodies of up to 5, so shorter, as long, and longer by
  more than one; their bytes are all different, so that a lost, repeated or displaced
  byte shows. Responses follow each other without bound.
* Service: cycles of up to 3 units, intervals from -1 to 5 with a maximum of 4: shorter
  than a cycle, as long, longer, refused for their size, and without a meaning.
  Neither the number of ticks nor that of cycles is bounded.

### Fairness

VulnWatcher: weak fairness of the running cycle's steps (every call returns: HTTP
calls have a client timeout, scans their deadline, see `ScanReturns`, and a Kafka
send returns or fails), of an accepted request's launch and of the tick; nothing of
clients and environment. An unforced cycle may lose every race to triggers only as long as
somebody triggers: `FindingsAreFiled` does not care which cycle files.
Scanner: the program's own steps and the timers (deadline, kill, WaitDelay); nothing of the
gates, which may run for ever. SIGKILL is assumed to end a process.

Service: the loop is not blocked for good, a cycle ends (GitHub requests and scans have
timeouts, a Kafka send returns), and `Run` returns when the loop has. Nothing makes time
pass, nobody has to trigger, and start-up may hang. Neither is the loop's `select`
assumed to be fair: a cycle whose context is done ends at its first request, in less
than a unit, so that `ShutdownEnds` only has the tick already in the channel to reckon
with.

Inventory: the client's requests end (its HTTP client has a timeout). GitHub owes
nothing: `CycleEnds` holds although links may lead back for ever, since the page limit
stops the listing.

## 4. Proofs

| Theorem | Statement |
|---|---|
| `VulnWatcherProofs!TypeCorrect`, `MutualExclusion`, `CursorIsSound`, `CursorTracks`, `NoRefile`, `SavesKeepEntries`, `SuccessStays`, `NeverRefiledWithoutHarm` | the core's invariants and its action property, for all repositories, identifiers, clients, listings and faults |
| `CursorFileProofs!TypeCorrect`, `NeverHalfWritten`, `NoTmpLeft`, `Refinement` | no torn file of the program's making, no leftovers of a success; the system calls implement the register |
| `ScannerProofs!TypeCorrect`, `VerdictsAreEarned`, `NoCloneDirLeft`, `AtMostOneOverrun` | the scanner's safety properties for any number of gates |
| `ErrorBodyProofs!TypeCorrect`, `PeekHarmless`, `Refinement` | for any bytes, bodies and peek limit, the replayed body implements the plain one and the client concludes the same |
| `ServiceProofs!TypeCorrect`, `NoBurst`, `Configured`, `DetectionInTime` | the service's safety properties for any intervals, maximum and bound on cycles |
| `InventoryProofs!TypeCorrect`, `NoRepositoryMissed`, `VerdictsDeserved`, `MetricsAddUp`, `RateLimitObeyed` | Inventory's safety properties, for any installation, page size and page limit |
| `GateOutputProofs!TypeCorrect`, `BufferKeepsLeading`, `FindingsExact`, `OneTask` | GateOutput's safety properties, for any number of gates, cap, pieces and repository names |
| `GateOutputProofs!SeedIdentifies` | two seeds are equal exactly when they are of one repository and one set of findings, for names and findings of any length |

These are all the safety properties, action properties and refinements of the passing
runs.

Assumptions: those on constants only (`None` is no identifier, `Loop` no client, listings
are sequences of repositories, faults are known kinds; the cursors hold `Empty` and are
neither `Missing` nor `Torn`; there is at least one gate, as `ParseGateTargets`
guarantees; bodies are sequences of bytes; intervals are integers, the bounds naturals;
an installation holds finitely many repositories, each with a profile; pages hold at
least one; the cap is a natural number; names consist of letters,
digits and dashes and hold no comma, which `repoNameCharset` in `githubclient.go` ensures).

The argument of the core: `OneCycleAtATime` is inductive once the slot is tied to the
actors that owe a `Release`. Given mutual exclusion, the running cycle's `mem` is the
only writer of `disk`, so `CursorTracksFiled` follows from two facts kept for every
repository not in `lost`: while a cycle has its cursor in memory, `mem` shows the last
filed identifier; while none does, `disk` shows it. The load copies one to the other, the save
copies back, a publish changes `filed` and `mem` together, and every step that drops
`mem` without saving it puts what differs into `lost`. `NoRefileWithoutLoss` needs in
addition that a task about to be published by an unforced cycle differs from
`mem` (it passed the filter, and nobody else writes `mem` in between). Without
harmful faults `lost` stays empty, which gives `NeverRefiled`. `SuccessStays` rests on
`Counted`: an outcome is known only between a cycle's last step and its `Release`, so that
no other cycle can be about to save.

The scanner: `VerdictIsEarned` alone is not inductive. `VerdictInv` adds where a killed
gate can still be (the waiting command, with a context that stays done) and that all gates
already run are green while `anyGateFailed` is false. `OverrunBounded` holds because a
WaitDelay sat out with the context done is followed by the removal of the directory
only.

The cursor file: what a rename publishes is always the complete new cursor
(`TypeOK`'s last conjunct), and a file being set aside holds no cursor; with these, each system
call is a step of the register or a stutter.

The error body: the invariant accounts for every byte. What the connection has given away
(`pos`) is what was peeked plus what the caller has read behind it; what the caller has is the
leading part of the body of that length; and an error that the peek has met is either
still to be reported (`rest = "error"`) or has been. With these, a read of the
replayed prefix is a read of the plain body that the connection might as well have
answered.

The service: `DetectionBound` follows from `WaitInv`, which says for each holder of the
slot how much of the patience may be used up. A cycle that began too early for the finding
is older than the finding (`waited <= age`), one that will file it began within the patience
(`waited <= age + Patience`), and while the loop waits for a tick that has not come,
`waited + untilTick <= Patience`. The step from the first to the last needs `TickerInv`:
a cycle of the loop that no tick has overtaken began on the last one
(`untilTick + age <= interval`). `TicksNotQueued` needs the sum of polls, ready ticks and a
poll about to happen to be at most one.

Inventory: `RateLimitObeyed` only needs that a cycle that is under way has counted no
outcome and met no rate limit. The other four share one invariant, `Inv`, with a part for
each stage of a cycle, since none of them is inductive alone:

* `ListInv`: as long as the listing stands still and links lead onwards, what has been
  listed after n pages is the first n pages of the installation. A last page then
  completes it, which starts
* `VisitInv`: the repositories already in `log`, followed by those still in `todo`, are
  those in scope, in the listed order. Every exit of the loop's body moves one of them
  from the head of `todo` to the end of `log`, so that a success, which empties
  `todo`, leaves `InventoryComplete`. The part about lengths holds of any listing.
* `ReadInv`: what the cycle holds of the repository in turn is what its own files say,
  and neither was unreadable. It is what `VerdictsAreDeserved` needs of the state in
  which a verdict is given: nothing of the repository before can be left over.
* `CountInv`: each counter is the number of verdicts in `log` with its label. The sum over all
  labels, with the repositories dropped, is therefore the length of `log`, and by `VisitInv`
  that of the listing once `todo` is empty.

GateOutput: `AllowanceInv` says what is left of the running gate's allowance (the cap less
what it has printed, down to zero) and that later gates have printed nothing. With it a
`Write` appends to the buffer exactly what it appends to the gate's leading part, and as
all parts behind it are empty, the buffer stays their concatenation
(`FlattenSeqExtend`). `ScanInv` ties the findings to the buffer and the command to the
findings. `FindingsExact` then is about text: where a part ends in a symbol that belongs
to no marker, the markers of a concatenation are those of its parts (`MatchesJoin`, and
`MatchesFlat` by induction over the gates). `SeedIdentifies` reads a seed back: the numbers
between a dash and a comma or the end (`Ends`) are exactly the findings, because no name
holds a comma and the digits of a finding follow its last dash (`EndsFirst`,
`EndsNext`); equal findings have equal tails, and what is left is the name.

`FlattenSeq`, `SumFunction` and `Within` are recursive functions. What they return is
proved for every input with the induction over a set of numbers, `InductionOnNat` in
`FoldLemmas`: it takes the numbers for which a statement holds as a set, and follows from the
library's `WFMin`, which says that each non-empty set of naturals has a least element.
`Recursion` there also shows that the functions in question exist.

Model-checked only: liveness (`GateIsFreed`, `FindingsAreFiled`, `ForcedCyclePublishes`,
`ScanReturns`, `CycleEnds`, `ShutdownEnds`), which with its fairness is out of the prover's
reach, and the three refutations. That the code's `sort.Strings` and regular expression
return what `Sorted` and `Matches` say is part of the models, not of the proofs.

## 5. Not modelled

Log lines, the title, body and constant keys of a task, `vulns_detected_total`, the
environment of subprocesses (the token a clone is given among it), and JSON/YAML texts.
UUID5 is taken as injective. A crash in the middle of a scan leaves the clone directory
behind; its volume does not outlive the pod, so Scanner has no crash. Repositories are
matched to the allowlist by their profile. The components without a module are listed in
`PROJECT.json` with the reason: they keep no state.

Four hazards have no property because nothing is promised: consent withdrawn during a
scan, a finding set that is fixed and comes back unchanged, a rate limit that hits the
same repository in every cycle, and a deadline between the last gate and `git rev-parse`. `PROJECT.json` notes why at each.

## 6. Plan

1. done: VulnWatcher, its MC module, runs and proofs.
2. done: CursorFile refining DurableCursor, with proofs.
3. done: Scanner with proofs; GateOutput, up to the published command, with proofs.
4. done: Inventory, from GitHub's pages and files to the counters, with proofs.
5. done: ErrorBody refining PlainBody, with proofs.
6. done: Service, from the start-up checks to the shutdown, with proofs.
7. Inventory's `Cycle` as a refinement of VulnWatcher's `list`, `next` and `gather` steps.
8. Scanner's token mint with its own timeout, so that a hung mint is told from a slow one.
9. VulnWatcher's register refined by CursorFile's in one composition.
