------------------------------- MODULE Inventory -------------------------------
(***************************************************************************)
(* Which repositories a cycle scans, and how it counts them: ListRepos     *)
(* pages through the installation, gatherCandidate reads two files of      *)
(* every repository, and the static filter chain decides who is scanned.   *)
(* The installation may change between two pages, any request may fail or  *)
(* be rate limited, and GitHub's next links need not make sense.  The scan *)
(* is left to Scanner, the dedup filter and the cursor to VulnWatcher:     *)
(* here they may answer anything.                                          *)
(***************************************************************************)
EXTENDS Naturals, SequencesExt

CONSTANTS
  Repos,         \* the repositories the installation may hold
  Hubs,          \* the profiles they may have, see Kinds
  Answers,       \* the labels a scan may end with
  PageSize,      \* ListOptions.PerPage
  MaxListPages   \* maxListPages

\* A file is read as what GetContents and the decoder make of it: "absent" is a
\* 404 or a directory, "unreadable" is oversized or undecodable.  The other
\* values of config are the shapes of document ParseConsent tells apart: no
\* bytes, broken YAML, valid YAML whose goUpdate is no mapping, no goUpdate or
\* no autoUpdate in it, a boolean, and any other autoUpdate.
GoMods  == {"present", "absent", "unreadable"}
Configs == {"absent", "unreadable", "empty", "broken", "misshapen", "no_key",
            "true", "false", "other"}
Kinds   == [archived : BOOLEAN, foreign : BOOLEAN, misnamed : BOOLEAN,
            allowed : BOOLEAN, gomod : GoMods, config : Configs]

\* The labels of the counters.  A scanned repository gets one of Scanned.
PollCycleResults  == {"success", "rate_limited", "github_error", "scan_error"}
StaticSkipReasons == {"scope", "auto_update_disabled", "no_gomod"}
ScanSkipReasons   == {"clone_failed", "gate_timeout", "scan_failed", "already_clean",
                      "finding_set_unchanged"}
PublishStatuses   == {"create", "error"}
FilterSkipReasons == StaticSkipReasons \cup ScanSkipReasons
Scanned           == ScanSkipReasons \cup PublishStatuses
Labels            == FilterSkipReasons \cup PublishStatuses

ASSUME ReposAssumption        == IsFiniteSet(Repos)
ASSUME HubsAssumption         == Hubs \subseteq [Repos -> Kinds]
ASSUME AnswersAssumption      == Answers \subseteq Scanned
ASSUME PageSizeAssumption     == PageSize \in Nat \ {0}
ASSUME MaxListPagesAssumption == MaxListPages \in Nat \ {0}

VARIABLES
  hub,        \* each repository's profile
  order,      \* the installation's repositories as GitHub lists them now
  pc,         \* where the cycle is
  page,       \* pages requested
  next,       \* opts.Page
  raw,        \* the repositories listed
  todo,       \* those processRepos has yet to finish
  gomod,      \* GetGoMod's answer on the repository in turn
  consent,    \* GetMaintainerConfig's
  outcome,    \* the label of poll_cycle_total
  listed,     \* repos_scanned_total, of this cycle
  counts,     \* filter_skipped_total and published_total, of this cycle
  cancelled,  \* the context
  log,        \* history: the verdict on each repository, in order
  shifted,    \* history: the installation changed during the listing
  odd,        \* history: a next link did not lead to the following page
  capped,     \* history: the listing stopped at maxListPages with a next link
  limited     \* history: a request was rate limited

listVars == <<page, next, raw>>
readVars == <<gomod, consent>>
metrics  == <<listed, counts>>
histVars == <<log, shifted, odd, capped, limited>>
vars     == <<hub, order, pc, listVars, todo, readVars, outcome, metrics, cancelled, histVars>>

Repo == Head(todo)

\* NewMetrics sets every label to 0 before the first cycle.
Zero == [label \in Labels |-> 0]

Init ==
  /\ hub \in Hubs
  /\ order \in SetToSeqs(Repos)
  /\ pc = "idle"
  /\ page = 0
  /\ next = 1
  /\ raw = <<>>
  /\ todo = <<>>
  /\ gomod = "none"
  /\ consent = "none"
  /\ outcome = "none"
  /\ listed = 0
  /\ counts = Zero
  /\ cancelled = FALSE
  /\ log = <<>>
  /\ shifted = FALSE
  /\ odd = FALSE
  /\ capped = FALSE
  /\ limited = FALSE

\* The next cycle, in this process or after a restart.
StartCycle ==
  /\ pc = "idle"
  /\ pc' = "list"
  /\ outcome' = "none"
  /\ listed' = 0
  /\ counts' = Zero
  /\ cancelled' = FALSE
  /\ log' = <<>>
  /\ shifted' = FALSE
  /\ odd' = FALSE
  /\ capped' = FALSE
  /\ limited' = FALSE
  /\ UNCHANGED <<hub, order, listVars, todo, readVars>>

\* Poll returns, and its locals are gone.
EndCycle(label) ==
  /\ outcome' = label
  /\ pc' = "idle"
  /\ page' = 0
  /\ next' = 1
  /\ raw' = <<>>
  /\ todo' = <<>>
  /\ gomod' = "none"
  /\ consent' = "none"
  /\ UNCHANGED <<hub, order, metrics, cancelled>>

-----------------------------------------------------------------------------
(* ListRepos.                                                              *)

\* GitHub's answer to a request for page n, and its next link (0: there is none).
PageOf(n)   == SubSeq(order, (n - 1) * PageSize + 1,
                      IF n * PageSize < Len(order) THEN n * PageSize ELSE Len(order))
NextLink(n) == IF n * PageSize < Len(order) THEN n + 1 ELSE 0

InScope == {r \in Repos : ~hub[r].archived /\ ~hub[r].foreign /\ ~hub[r].misnamed}

\* The members of s that belong to S, in their order.
Within(s, S) ==
  LET kept[n \in 0..Len(s)] ==
        IF n = 0 THEN <<>>
        ELSE IF s[n] \in S THEN Append(kept[n - 1], s[n]) ELSE kept[n - 1]
  IN  kept[Len(s)]

mapGitHubRepos(found) == Within(found, InScope)

\* ListRepos takes the next link, or returns what it has listed.
Follow(found, link, last) ==
  \/ /\ ~last
     /\ page' = page + 1
     /\ raw' = found
     /\ next' = link
     /\ UNCHANGED <<pc, todo, listed>>
  \/ /\ last
     /\ page' = 0
     /\ raw' = <<>>
     /\ next' = 1
     /\ todo' = mapGitHubRepos(found)
     /\ listed' = Len(todo')
     /\ pc' = "next"

\* Mutant: each page replaces the one before.
ListPage_KeepsLast ==
  /\ pc = "list"
  /\ ~cancelled
  /\ \E link \in {NextLink(next)} \cup 1..next :
       /\ Follow(PageOf(next), link, link = 0 \/ page + 1 = MaxListPages)
       /\ odd' = (odd \/ link # NextLink(next))
       /\ capped' = (link # 0 /\ page + 1 = MaxListPages)
  /\ UNCHANGED <<hub, order, readVars, outcome, counts, cancelled, log, shifted, limited>>

\* Mutant: pages are requested for as long as there is a next link.
ListPage_Uncapped ==
  /\ pc = "list"
  /\ ~cancelled
  /\ \E link \in {NextLink(next)} \cup 1..next :
       /\ Follow(raw \o PageOf(next), link, link = 0)
       /\ odd' = (odd \/ link # NextLink(next))
  /\ UNCHANGED <<hub, order, readVars, outcome, counts, cancelled, log, shifted, capped, limited>>

\* A link may also lead back, to any page up to the one just read.
ListPage ==
  /\ pc = "list"
  /\ ~cancelled
  /\ \E link \in {NextLink(next)} \cup 1..next :
       /\ Follow(raw \o PageOf(next), link, link = 0 \/ page + 1 = MaxListPages)
       /\ odd' = (odd \/ link # NextLink(next))
       /\ capped' = (link # 0 /\ page + 1 = MaxListPages)
  /\ UNCHANGED <<hub, order, readVars, outcome, counts, cancelled, log, shifted, limited>>

\* The request fails, or the context is done before it.
ListFails ==
  /\ pc = "list"
  /\ EndCycle("github_error")
  /\ UNCHANGED histVars

ListRateLimited ==
  /\ pc = "list"
  /\ ~cancelled
  /\ EndCycle("rate_limited")
  /\ limited' = TRUE
  /\ UNCHANGED <<log, shifted, odd, capped>>

-----------------------------------------------------------------------------
(* processRepos and gatherCandidate.                                       *)

NextRepo ==
  /\ pc = "next"
  /\ todo # <<>>
  /\ ~cancelled
  /\ pc' = "gomod"
  /\ UNCHANGED <<hub, order, listVars, todo, readVars, outcome, metrics, cancelled, histVars>>

\* All repositories are done, or the context is.
ReposDone ==
  /\ pc = "next"
  /\ todo = <<>> \/ cancelled
  /\ EndCycle("success")
  /\ UNCHANGED histVars

Inc(label) == counts' = [counts EXCEPT ![label] = @ + 1]

\* On to the next repository.
Decide(verdict) ==
  /\ log' = Append(log, [repo |-> Repo, verdict |-> verdict])
  /\ todo' = Tail(todo)
  /\ gomod' = "none"
  /\ consent' = "none"
  /\ pc' = "next"
  /\ UNCHANGED <<hub, order, listVars, outcome, listed, cancelled, shifted, odd, capped, limited>>

\* Mutant: a repository that cannot be read is tried again.
Drop_Retries ==
  /\ pc' = "next"
  /\ UNCHANGED <<hub, order, listVars, todo, readVars, outcome, metrics, cancelled, histVars>>

\* dropRepo: a line in the log, and no counter.
Drop ==
  /\ Decide("dropped")
  /\ UNCHANGED counts

ReadGoMod ==
  /\ pc = "gomod"
  /\ hub[Repo].gomod # "unreadable"
  /\ gomod' = hub[Repo].gomod
  /\ pc' = "config"
  /\ UNCHANGED <<hub, order, listVars, todo, consent, outcome, metrics, cancelled, histVars>>

\* Mutant: whatever goes wrong, there is no go.mod.
ReadGoModFails_AsAbsent ==
  /\ pc = "gomod"
  /\ gomod' = "absent"
  /\ pc' = "config"
  /\ UNCHANGED <<hub, order, listVars, todo, consent, outcome, metrics, cancelled, histVars>>

\* The request fails, or its file is no use.
ReadGoModFails ==
  /\ pc = "gomod"
  /\ Drop

ParseConsent(config) ==
  CASE config \in {"broken", "misshapen"} -> "error"
    [] config = "true"                    -> "granted"
    [] config = "false"                   -> "refused"
    [] OTHER                              -> "undecided"

ReadConfig ==
  /\ pc = "config"
  /\ hub[Repo].config # "unreadable"
  /\ ParseConsent(hub[Repo].config) # "error"
  /\ consent' = ParseConsent(hub[Repo].config)
  /\ pc' = "filter"
  /\ UNCHANGED <<hub, order, listVars, todo, gomod, outcome, metrics, cancelled, histVars>>

ReadConfigFails ==
  /\ pc = "config"
  /\ Drop

\* Mutant: the sentinel is wrapped, and the repository dropped.
ReadRateLimited_Drops ==
  /\ pc \in {"gomod", "config"}
  /\ ~cancelled
  /\ limited' = TRUE
  /\ log' = Append(log, [repo |-> Repo, verdict |-> "dropped"])
  /\ todo' = Tail(todo)
  /\ pc' = "next"
  /\ UNCHANGED <<hub, order, listVars, readVars, outcome, metrics, cancelled, shifted, odd, capped>>

ReadRateLimited ==
  /\ pc \in {"gomod", "config"}
  /\ ~cancelled
  /\ EndCycle("rate_limited")
  /\ limited' = TRUE
  /\ UNCHANGED <<log, shifted, odd, capped>>

\* The static filters in their order, each with its reason.
Reasons == <<IF hub[Repo].allowed THEN "" ELSE "scope",
             IF consent = "granted" THEN "" ELSE "auto_update_disabled",
             IF gomod = "present" THEN "" ELSE "no_gomod">>

\* TaskCreationFilterList.Skip: the first reason that is not empty.
Skip == LET given == {i \in DOMAIN Reasons : Reasons[i] # ""}
        IN  IF given = {} THEN "" ELSE Reasons[Min(given)]

\* Mutant: the repository is counted as skipped, and scanned.
FilterSkips_GoesOn ==
  /\ pc = "filter"
  /\ Skip # ""
  /\ Inc(Skip)
  /\ pc' = "scan"
  /\ UNCHANGED <<hub, order, listVars, todo, readVars, outcome, listed, cancelled, histVars>>

FilterSkips ==
  /\ pc = "filter"
  /\ Skip # ""
  /\ Decide(Skip)
  /\ Inc(Skip)

FilterPasses ==
  /\ pc = "filter"
  /\ Skip = ""
  /\ pc' = "scan"
  /\ UNCHANGED <<hub, order, listVars, todo, readVars, outcome, metrics, cancelled, histVars>>

\* Scan, the dedup filter and PublishCreate, each with its label.
Scan ==
  /\ pc = "scan"
  /\ \E label \in Answers : Decide(label) /\ Inc(label)

-----------------------------------------------------------------------------
\* A repository leaves the installation or joins it, anywhere in the order.
Shift ==
  /\ pc = "list"
  /\ \/ \E i \in DOMAIN order : order' = RemoveAt(order, i)
     \/ \E r \in Repos \ ToSet(order), i \in 1..(Len(order) + 1) :
          order' = InsertAt(order, i, r)
  /\ shifted' = (shifted \/ page > 0)
  /\ UNCHANGED <<hub, pc, listVars, todo, readVars, outcome, metrics, cancelled,
                 log, odd, capped, limited>>

Cancel ==
  /\ pc # "idle"
  /\ ~cancelled
  /\ cancelled' = TRUE
  /\ UNCHANGED <<hub, order, pc, listVars, todo, readVars, outcome, metrics, histVars>>

Cycle ==
  \/ ListPage \/ ListFails \/ ListRateLimited
  \/ NextRepo \/ ReposDone
  \/ ReadGoMod \/ ReadGoModFails \/ ReadConfig \/ ReadConfigFails
  \/ ReadRateLimited \/ FilterSkips \/ FilterPasses \/ Scan

Next == StartCycle \/ Cycle \/ Shift \/ Cancel

Spec == Init /\ [][Next]_vars

\* Every request ends: the HTTP client has a timeout.
FairSpec == Spec /\ WF_vars(Cycle)

-----------------------------------------------------------------------------
(* Properties.                                                             *)

TypeOK ==
  /\ hub \in Hubs
  /\ order \in Seq(Repos)
  /\ pc \in {"idle", "list", "next", "gomod", "config", "filter", "scan"}
  /\ page \in 0..MaxListPages
  /\ next \in Nat \ {0}
  /\ raw \in Seq(Repos)
  /\ todo \in Seq(Repos)
  /\ gomod \in GoMods \cup {"none"}
  /\ consent \in {"none", "granted", "refused", "undecided"}
  /\ outcome \in PollCycleResults \cup {"none"}
  /\ listed \in Nat
  /\ counts \in [Labels -> Nat]
  /\ log \in Seq([repo : Repos, verdict : Labels \cup {"dropped"}])
  /\ cancelled \in BOOLEAN /\ limited \in BOOLEAN
  /\ shifted \in BOOLEAN /\ odd \in BOOLEAN /\ capped \in BOOLEAN

\* A cycle that ends as a success, and that nobody cut short, has decided on
\* every repository in scope exactly once and in the listed order, whichever of
\* them could not be read: provided that the listing stood still, its links led
\* onwards and it was not longer than the page limit.
InventoryComplete ==
  outcome = "success" /\ ~(cancelled \/ shifted \/ odd \/ capped)
    => [i \in DOMAIN log |-> log[i].repo] = mapGitHubRepos(order)

\* What the documents call eligible, of the repository itself.
Eligible(r) ==
  /\ r \in InScope
  /\ hub[r].allowed
  /\ hub[r].config = "true"
  /\ hub[r].gomod = "present"

\* The three reasons, by the repository itself and the chain's order.
Deserves(r, verdict) ==
  \/ verdict = "scope" /\ ~hub[r].allowed
  \/ /\ verdict = "auto_update_disabled"
     /\ hub[r].allowed
     /\ hub[r].config \in {"absent", "empty", "no_key", "false", "other"}
  \/ /\ verdict = "no_gomod"
     /\ hub[r].allowed
     /\ hub[r].config = "true"
     /\ hub[r].gomod = "absent"
  \/ verdict \in Scanned /\ Eligible(r)
  \/ verdict = "dropped"

\* However requests fail, links loop and the installation shifts, a repository is
\* scanned or counted under a skip reason only if its own files say so: a file
\* that could not be read never passes for one that is missing or refuses.
VerdictsAreDeserved ==
  \A i \in DOMAIN log : log[i].repo \in InScope /\ Deserves(log[i].repo, log[i].verdict)

\* The first rate limit ends the cycle, and only a rate limit ends it as such.
RateLimitEndsCycle ==
  /\ limited => pc = "idle"
  /\ limited <=> outcome = "rate_limited"

With(verdict) == Cardinality({i \in DOMAIN log : log[i].verdict = verdict})

\* The counters can be reconciled: every repository visited is counted under
\* exactly the label of what became of it, and after a cycle that ended as a
\* success and was not cut short they add up to the repositories listed, but for
\* those dropped, which only the log knows.
MetricsReconcile ==
  /\ \A label \in Labels : counts[label] = With(label)
  /\ outcome = "success" /\ ~cancelled
       => SumFunction(counts) + With("dropped") = listed

\* A cycle ends, also when GitHub's next links go round in circles.
CycleEnds == pc = "list" ~> pc = "idle"
=============================================================================
