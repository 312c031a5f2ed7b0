---------------------------- MODULE InventoryProofs ----------------------------
(* Theorems about Inventory for every value of its constants. *)
EXTENDS Inventory, FoldLemmas

\* A cycle that is still under way has met no rate limit and counted no outcome.
UnderWay == pc # "idle" => outcome = "none" /\ ~limited

IInv == RateLimitEndsCycle /\ UnderWay

LEMMA InitIInv == Init => IInv
  BY DEF Init, IInv, RateLimitEndsCycle, UnderWay

\* A step within a cycle, or while there is none, that is no rate limit.
LEMMA OtherStep ==
  ASSUME IInv, UNCHANGED <<outcome, limited>>, pc' # "idle" => pc # "idle",
         pc' = "idle" => pc = "idle"
  PROVE  IInv'
  BY DEF IInv, RateLimitEndsCycle, UnderWay

LEMMA NextIInv == ASSUME IInv, [Next]_vars PROVE IInv'
<1> USE DEF IInv, RateLimitEndsCycle, UnderWay
<1>1. CASE StartCycle
  BY <1>1 DEF StartCycle
<1>2. CASE ListFails \/ ReposDone
  BY <1>2 DEF ListFails, ReposDone, EndCycle, histVars
<1>3. CASE ListRateLimited \/ ReadRateLimited
  BY <1>3 DEF ListRateLimited, ReadRateLimited, EndCycle
<1>4. CASE ListPage
  <2>1. UNCHANGED <<outcome, limited>> /\ pc = "list" /\ pc' \in {"list", "next"}
    BY <1>4 DEF ListPage, Follow
  <2> QED
    BY <2>1, OtherStep
<1>5. CASE NextRepo \/ ReadGoMod \/ ReadConfig \/ FilterPasses
  BY <1>5, OtherStep DEF NextRepo, ReadGoMod, ReadConfig, FilterPasses, histVars
<1>6. CASE ReadGoModFails \/ ReadConfigFails
  BY <1>6, OtherStep DEF ReadGoModFails, ReadConfigFails, Drop, Decide
<1>7. CASE FilterSkips
  BY <1>7, OtherStep DEF FilterSkips, Decide
<1>8. CASE Scan
  BY <1>8, OtherStep DEF Scan, Decide
<1>9. CASE Shift
  <2>1. UNCHANGED <<outcome, limited, pc>>
    BY <1>9 DEF Shift
  <2> QED
    BY <2>1, OtherStep
<1>10. CASE Cancel \/ UNCHANGED vars
  BY <1>10, OtherStep DEF Cancel, vars, histVars
<1> QED
  BY <1>1, <1>2, <1>3, <1>4, <1>5, <1>6, <1>7, <1>8, <1>9, <1>10 DEF Next, Cycle

\* Wherever it is met, in the listing or at any of a repository's files, the
\* first rate limit ends the cycle, which counts as rate limited and nothing else.
THEOREM RateLimitObeyed == Spec => []RateLimitEndsCycle
<1>1. IInv => RateLimitEndsCycle
  BY DEF IInv
<1> QED
  BY <1>1, InitIInv, NextIInv, PTL DEF Spec

-----------------------------------------------------------------------------
(* The listing in scope.                                                   *)

\* Filtering a sequence ends, and what it keeps belongs to the set.
LEMMA WithinType ==
  ASSUME NEW T, NEW s \in Seq(T), NEW S
  PROVE  Within(s, S) \in Seq(S)
<1> DEFINE n == Len(s)
           Step(g, i) == IF i = 0 THEN <<>>
                         ELSE IF s[i] \in S THEN Append(g[i - 1], s[i]) ELSE g[i - 1]
           kept == CHOOSE g : g = [i \in 0..n |-> Step(g, i)]
<1>0. n \in Nat /\ <<>> \in Seq(S)
  OBVIOUS
<1>1. Within(s, S) = kept[n]
  BY DEF Within
<1> HIDE DEF n
<1>2. \E g : g = [i \in 0..n |-> Step(g, i)]
  <2> DEFINE F == [i \in 1..n |-> [v \in Seq(S) |->
                     IF s[i] \in S THEN Append(v, s[i]) ELSE v]]
  <2>1. F \in [1..n -> [Seq(S) -> Seq(S)]]
    OBVIOUS
  <2>2. PICK g \in [0..n -> Seq(S)] : Runs(g, n, <<>>, F)
    <3> HIDE DEF F
    <3> QED
      BY <1>0, <2>1, Recursion
  <2>3. g[0] = <<>> /\ \A i \in 1..n : g[i] = F[i][g[i - 1]]
    BY <2>2, Zenon DEF Runs
  <2>4. ASSUME NEW i \in 0..n PROVE g[i] = Step(g, i)
    <3>1. CASE i = 0
      BY <2>3, <3>1
    <3>2. CASE i # 0
      <4>1. i \in 1..n /\ i - 1 \in 0..n
        BY <1>0, <3>2
      <4>2. g[i - 1] \in Seq(S)
        BY <4>1
      <4>3. g[i] = IF s[i] \in S THEN Append(g[i - 1], s[i]) ELSE g[i - 1]
        BY <2>3, <4>1, <4>2, Zenon
      <4> QED
        BY <3>2, <4>3, Zenon
    <3> QED
      BY <3>1, <3>2
  <2>5. g = [i \in 0..n |-> Step(g, i)]
    BY <2>4, Zenon
  <2> QED
    BY <2>5, Zenon
<1>3. kept = [i \in 0..n |-> Step(kept, i)]
  BY <1>2, Zenon
<1> HIDE DEF kept
<1>4. ASSUME NEW i \in 0..n PROVE kept[i] = Step(kept, i)
  BY <1>3, Zenon
<1> DEFINE P == {i \in 0..n : kept[i] \in Seq(S)}
<1>5. 0 \in P
  <2>1. 0 \in 0..n
    BY <1>0
  <2>2. kept[0] = <<>>
    BY <1>4, <2>1, Zenon
  <2> QED
    BY <1>0, <2>1, <2>2
<1>6. ASSUME NEW i \in 1..n, i - 1 \in P PROVE i \in P
  <2>1. i \in 0..n /\ i # 0 /\ kept[i - 1] \in Seq(S)
    BY <1>0, <1>6
  <2>2. kept[i] = IF s[i] \in S THEN Append(kept[i - 1], s[i]) ELSE kept[i - 1]
    BY <1>4, <2>1, Zenon
  <2>3. kept[i] \in Seq(S)
    BY <2>1, <2>2, AppendProperties
  <2> QED
    BY <2>1, <2>3
<1>7. \A i \in 0..n : i \in P
  <2> HIDE DEF P
  <2>1. \A i \in 1..n : i - 1 \in P => i \in P
    BY <1>6
  <2> QED
    BY <1>0, <1>5, <2>1, InductionUpTo
<1> QED
  BY <1>0, <1>1, <1>7

LEMMA ListedType ==
  ASSUME NEW found \in Seq(Repos)
  PROVE  mapGitHubRepos(found) \in Seq(InScope) /\ mapGitHubRepos(found) \in Seq(Repos)
<1>1. mapGitHubRepos(found) \in Seq(InScope)
  BY WithinType DEF mapGitHubRepos
<1>2. InScope \subseteq Repos
  BY DEF InScope
<1> QED
  BY <1>1, <1>2, SeqMonotonic

\* The pages of a listing that stands still, put together, are its beginning.
LEMMA PagesJoin ==
  ASSUME NEW s \in Seq(Repos), NEW a \in Nat, NEW b \in Nat, a <= b, b <= Len(s)
  PROVE  SubSeq(s, 1, a) \o SubSeq(s, a + 1, b) = SubSeq(s, 1, b)
<1>1. 1 \in 1..(Len(s) + 1) /\ a \in (1 - 1)..Len(s) /\ b \in a..Len(s)
  OBVIOUS
<1> QED
  BY <1>1, ConcatAdjacentSubSeq

-----------------------------------------------------------------------------
(* The inductive invariant behind the other properties.                    *)

AtRepo   == {"gomod", "config", "filter", "scan"}
Visiting == {"next"} \cup AtRepo

\* A cycle that ended as a success and that nobody cut short.
Complete == outcome = "success" /\ ~cancelled

\* What has been listed, as long as the installation stood still and the links
\* led onwards: its first pages, and there are more of them.
ListInv ==
  /\ pc # "list" => page = 0
  /\ page = 0 => raw = <<>> /\ next = 1
  /\ pc = "list" => page < MaxListPages /\ log = <<>> /\ ~capped
  /\ (page > 0 /\ ~shifted /\ ~odd) =>
       /\ next = page + 1
       /\ page * PageSize < Len(order)
       /\ raw = SubSeq(order, 1, page * PageSize)

\* Those visited and those still to be visited are, in this order, the
\* repositories in scope.
Accounted ==
  /\ Len(log) + Len(todo) = Len(mapGitHubRepos(order))
  /\ \A i \in 1..Len(log) : log[i].repo = mapGitHubRepos(order)[i]
  /\ \A i \in 1..Len(todo) : todo[i] = mapGitHubRepos(order)[Len(log) + i]

VisitInv ==
  /\ todo \in Seq(InScope)
  /\ pc \in AtRepo => todo # <<>>
  /\ pc \notin Visiting => todo = <<>>
  /\ outcome = "success" => pc = "idle"
  /\ pc \in Visiting \/ Complete =>
       /\ Len(log) + Len(todo) = listed
       /\ ~(shifted \/ odd \/ capped) => Accounted

\* What the cycle has read of the repository in turn is what its files say.
ReadInv ==
  /\ pc \in {"config", "filter", "scan"} =>
       gomod = hub[Repo].gomod /\ gomod # "unreadable"
  /\ pc \in {"filter", "scan"} =>
       /\ consent = ParseConsent(hub[Repo].config)
       /\ hub[Repo].config # "unreadable"
       /\ consent # "error"
  /\ pc = "scan" => Eligible(Repo)

CountInv ==
  /\ \A label \in Labels : counts[label] = With(label)
  /\ SumFunction(counts) + With("dropped") = Len(log)

Inv == TypeOK /\ ListInv /\ VisitInv /\ ReadInv /\ VerdictsAreDeserved /\ CountInv

-----------------------------------------------------------------------------
(* Types.                                                                  *)

Entries == [repo : Repos, verdict : Labels \cup {"dropped"}]

LEMMA LabelSets ==
  /\ Zero \in [Labels -> Nat]
  /\ Scanned \subseteq Labels
  /\ StaticSkipReasons \subseteq Labels
  /\ "dropped" \notin Labels
  BY DEF Zero, Labels, Scanned, FilterSkipReasons, PublishStatuses, StaticSkipReasons, ScanSkipReasons

\* What the filters answer is no reason or one of the three.
LEMMA SkipType == Skip \in {""} \cup StaticSkipReasons
<1> DEFINE given == {i \in DOMAIN Reasons : Reasons[i] # ""}
<1>1. DOMAIN Reasons = 1..3
  BY DEF Reasons
<1>2. \A i \in 1..3 : Reasons[i] \in {""} \cup StaticSkipReasons
  <2>1. Reasons[1] \in {"", "scope"}
    BY DEF Reasons
  <2>2. Reasons[2] \in {"", "auto_update_disabled"}
    BY DEF Reasons
  <2>3. Reasons[3] \in {"", "no_gomod"}
    BY DEF Reasons
  <2>4. \A i \in 1..3 : i = 1 \/ i = 2 \/ i = 3
    OBVIOUS
  <2> QED
    BY <2>1, <2>2, <2>3, <2>4, Zenon DEF StaticSkipReasons
<1>3. ASSUME given # {} PROVE Min(given) \in given
  <2>1. given \in SUBSET Nat
    <3>1. given \subseteq 1..3
      BY <1>1, Zenon
    <3> HIDE DEF given
    <3> QED
      BY <3>1
  <2>2. \E x \in given : \A y \in given : x <= y
    <3> HIDE DEF given
    <3> QED
      BY <1>3, <2>1, LeastNatural
  <2> QED
    BY <2>2 DEF Min
<1> QED
  BY <1>1, <1>2, <1>3 DEF Skip

LEMMA InitTypeOK == Init => TypeOK
<1> SUFFICES ASSUME Init PROVE TypeOK
  OBVIOUS
<1>1. order \in Seq(Repos)
  <2>1. Cardinality(Repos) \in Nat
    BY ReposAssumption, FS_CardinalityType
  <2>2. order \in [1..Cardinality(Repos) -> Repos]
    BY DEF Init, SetToSeqs
  <2> QED
    BY <2>1, <2>2
<1>2. <<>> \in Seq(Repos) /\ <<>> \in Seq(Entries)
  OBVIOUS
<1>3. raw \in Seq(Repos) /\ todo \in Seq(Repos) /\ log \in Seq(Entries)
  BY <1>2, Zenon DEF Init
<1>4. page \in 0..MaxListPages /\ next \in Nat \ {0} /\ listed \in Nat
  BY MaxListPagesAssumption DEF Init
<1> QED
  BY <1>1, <1>3, <1>4, LabelSets DEF Init, TypeOK, Entries

\* Everything in TypeOK but the counters and the log, after a repository is done.
LEMMA DecideType ==
  ASSUME TypeOK, todo # <<>>, NEW verdict \in Labels \cup {"dropped"}, Decide(verdict),
         counts' \in [Labels -> Nat]
  PROVE  TypeOK'
<1>1. Head(todo) \in Repos /\ Tail(todo) \in Seq(Repos)
  BY HeadTailProperties DEF TypeOK
<1>2. log' \in Seq(Entries)
  <2>1. [repo |-> Repo, verdict |-> verdict] \in Entries
    BY <1>1 DEF Repo, Entries
  <2>2. log \in Seq(Entries)
    BY DEF TypeOK, Entries
  <2> HIDE DEF Entries
  <2> QED
    BY <2>1, <2>2 DEF Decide
<1> QED
  BY <1>1, <1>2 DEF Decide, TypeOK, Entries, listVars

LEMMA IncType ==
  ASSUME TypeOK, NEW label \in Labels, Inc(label)
  PROVE  counts' \in [Labels -> Nat]
  BY DEF TypeOK, Inc

LEMMA EndCycleType ==
  ASSUME TypeOK, NEW label \in PollCycleResults, EndCycle(label),
         UNCHANGED <<log, shifted, odd, capped>>, limited' \in BOOLEAN
  PROVE  TypeOK'
<1>1. <<>> \in Seq(Repos)
  OBVIOUS
<1> QED
  BY <1>1, MaxListPagesAssumption DEF EndCycle, TypeOK, metrics

\* What GitHub answers to the request for a page.
LEMMA PageType ==
  ASSUME TypeOK, NEW n \in Nat \ {0}
  PROVE  /\ PageOf(n) \in Seq(Repos)
         /\ NextLink(n) \in Nat
<1> DEFINE first == (n - 1) * PageSize + 1
           last  == IF n * PageSize < Len(order) THEN n * PageSize ELSE Len(order)
<1>1. first \in Nat \ {0} /\ last \in Nat /\ last <= Len(order)
  <2>1. /\ (n - 1) * PageSize \in Nat
        /\ n * PageSize \in Nat
        /\ Len(order) \in Nat
    BY PageSizeAssumption DEF TypeOK
  <2> QED
    BY <2>1
<1> HIDE DEF first, last
<1>2. \A i \in first..last : order[i] \in Repos
  BY <1>1 DEF TypeOK
<1>3. SubSeq(order, first, last) \in Seq(Repos)
  BY <1>1, <1>2, SubSeqProperties
<1> QED
  BY <1>3 DEF PageOf, NextLink, first, last

LEMMA ListPageType == ASSUME TypeOK, ListInv, ListPage PROVE TypeOK'
<1>1. PICK link \in {NextLink(next)} \cup 1..next :
        Follow(raw \o PageOf(next), link, link = 0 \/ page + 1 = MaxListPages)
  BY DEF ListPage
<1>2. next \in Nat \ {0} /\ link \in Nat
  BY <1>1, PageType DEF TypeOK
<1>3. raw \o PageOf(next) \in Seq(Repos)
  BY <1>2, PageType, ConcatProperties DEF TypeOK
<1> DEFINE found == raw \o PageOf(next)
<1>4. mapGitHubRepos(found) \in Seq(Repos) /\ Len(mapGitHubRepos(found)) \in Nat
  <2>1. found \in Seq(Repos)
    BY <1>3
  <2> HIDE DEF found
  <2> QED
    BY <2>1, ListedType
<1> HIDE DEF found
<1>5. CASE link = 0 \/ page + 1 = MaxListPages
  <2>1. /\ page' = 0 /\ raw' = <<>> /\ next' = 1 /\ pc' = "next"
        /\ todo' = mapGitHubRepos(found) /\ listed' = Len(mapGitHubRepos(found))
    BY <1>1, <1>5, Zenon DEF Follow, found
  <2>2. <<>> \in Seq(Repos)
    OBVIOUS
  <2> QED
    BY <1>4, <2>1, <2>2, MaxListPagesAssumption DEF ListPage, TypeOK, readVars
<1>6. CASE ~(link = 0 \/ page + 1 = MaxListPages)
  <2>1. page' = page + 1 /\ raw' = found /\ next' = link /\ UNCHANGED <<pc, todo, listed>>
    BY <1>1, <1>6, Zenon DEF Follow, found
  <2>2. page + 1 \in 0..MaxListPages
    BY MaxListPagesAssumption DEF ListInv, TypeOK, ListPage
  <2> QED
    BY <1>2, <1>3, <1>6, <2>1, <2>2, MaxListPagesAssumption DEF ListPage, TypeOK, readVars, found
<1> QED
  BY <1>5, <1>6

\* The installation changes.
LEMMA ShiftType == ASSUME TypeOK, Shift PROVE order' \in Seq(Repos)
<1>1. CASE \E i \in DOMAIN order : order' = RemoveAt(order, i)
  <2>1. PICK i \in 1..Len(order) : order' = RemoveAt(order, i)
    BY <1>1 DEF TypeOK
  <2>2. SubSeq(order, 1, i - 1) \in Seq(Repos) /\ SubSeq(order, i + 1, Len(order)) \in Seq(Repos)
    BY SubSeqProperties DEF TypeOK
  <2> QED
    BY <2>1, <2>2, ConcatProperties DEF RemoveAt
<1>2. CASE \E r \in Repos \ ToSet(order), i \in 1..(Len(order) + 1) : order' = InsertAt(order, i, r)
  <2>1. PICK r \in Repos, i \in 1..(Len(order) + 1) : order' = InsertAt(order, i, r)
    BY <1>2
  <2>2. /\ SubSeq(order, 1, i - 1) \in Seq(Repos)
        /\ SubSeq(order, i, Len(order)) \in Seq(Repos)
        /\ <<r>> \in Seq(Repos)
    BY SubSeqProperties DEF TypeOK
  <2> QED
    BY <2>1, <2>2, ConcatProperties DEF InsertAt
<1> QED
  BY <1>1, <1>2 DEF Shift

LEMMA ParseConsentType ==
  ASSUME NEW config \in Configs
  PROVE  ParseConsent(config) \in {"error", "granted", "refused", "undecided"}
  BY DEF ParseConsent

LEMMA ProfileType == ASSUME TypeOK, NEW r \in Repos PROVE hub[r] \in Kinds
  BY HubsAssumption DEF TypeOK

LEMMA RepoType == ASSUME TypeOK, todo # <<>> PROVE Repo \in Repos
  BY HeadTailProperties DEF TypeOK, Repo

LEMMA NextTypeOK == ASSUME Inv, [Next]_vars PROVE TypeOK'
<1>0. TypeOK /\ ListInv /\ (pc \in AtRepo => todo # <<>>)
  BY DEF Inv, VisitInv
<1>1. CASE StartCycle
  <2>1. <<>> \in Seq(Entries)
    OBVIOUS
  <2> QED
    BY <1>0, <1>1, <2>1, LabelSets DEF StartCycle, TypeOK, Entries, listVars, readVars
<1>2. CASE ListPage
  BY <1>0, <1>2, ListPageType
<1>3. CASE ListFails \/ ReposDone
  <2>1. PICK label \in PollCycleResults : EndCycle(label)
    BY <1>3 DEF ListFails, ReposDone, PollCycleResults
  <2> QED
    BY <1>0, <1>3, <2>1, EndCycleType DEF ListFails, ReposDone, histVars, TypeOK
<1>4. CASE ListRateLimited \/ ReadRateLimited
  <2>1. EndCycle("rate_limited") /\ "rate_limited" \in PollCycleResults
    BY <1>4 DEF ListRateLimited, ReadRateLimited, PollCycleResults
  <2> QED
    BY <1>0, <1>4, <2>1, EndCycleType DEF ListRateLimited, ReadRateLimited
<1>5. CASE NextRepo \/ FilterPasses
  BY <1>0, <1>5 DEF NextRepo, FilterPasses, TypeOK, listVars, readVars, metrics, histVars
<1>6. CASE ReadGoMod
  <2>1. hub[Repo].gomod \in GoMods
    BY <1>0, <1>6, RepoType, ProfileType DEF ReadGoMod, AtRepo, Kinds
  <2> QED
    BY <1>0, <1>6, <2>1 DEF ReadGoMod, TypeOK, listVars, metrics, histVars
<1>7. CASE ReadConfig
  <2>1. hub[Repo].config \in Configs
    BY <1>0, <1>7, RepoType, ProfileType DEF ReadConfig, AtRepo, Kinds
  <2>2. consent' \in {"granted", "refused", "undecided"}
    BY <1>7, <2>1, ParseConsentType DEF ReadConfig
  <2> QED
    BY <1>0, <1>7, <2>2 DEF ReadConfig, TypeOK, listVars, metrics, histVars
<1>8. CASE ReadGoModFails \/ ReadConfigFails
  <2>1. todo # <<>> /\ Decide("dropped") /\ counts' = counts
    BY <1>0, <1>8 DEF ReadGoModFails, ReadConfigFails, Drop, AtRepo
  <2> QED
    BY <1>0, <2>1, DecideType DEF TypeOK
<1>9. CASE FilterSkips
  <2>1. Skip \in Labels /\ todo # <<>> /\ Decide(Skip) /\ Inc(Skip)
    BY <1>0, <1>9, SkipType, LabelSets DEF FilterSkips, AtRepo
  <2> QED
    BY <1>0, <2>1, IncType, DecideType
<1>10. CASE Scan
  <2>1. PICK label \in Answers : Decide(label) /\ Inc(label)
    BY <1>10 DEF Scan
  <2>2. label \in Labels /\ todo # <<>>
    BY <1>0, <1>10, AnswersAssumption, LabelSets DEF Scan, AtRepo
  <2> QED
    BY <1>0, <2>1, <2>2, IncType, DecideType
<1>11. CASE Shift
  BY <1>0, <1>11, ShiftType DEF Shift, TypeOK, listVars, readVars, metrics
<1>12. CASE Cancel
  BY <1>0, <1>12 DEF Cancel, TypeOK, listVars, readVars, metrics, histVars
<1>13. CASE UNCHANGED vars
  BY <1>0, <1>13 DEF vars, TypeOK, listVars, readVars, metrics, histVars
<1> QED
  BY <1>1, <1>2, <1>3, <1>4, <1>5, <1>6, <1>7, <1>8, <1>9, <1>10, <1>11, <1>12, <1>13
  DEF Next, Cycle

-----------------------------------------------------------------------------
(* The listing.                                                            *)

LEMMA ListedSoFar ==
  ASSUME TypeOK, ListInv, pc = "list", ~shifted, ~odd
  PROVE  /\ next = page + 1
         /\ page * PageSize \in Nat
         /\ page * PageSize <= Len(order)
         /\ raw = SubSeq(order, 1, page * PageSize)
<1>1. page \in Nat /\ order \in Seq(Repos) /\ Len(order) \in Nat
  BY MaxListPagesAssumption DEF TypeOK
<1>2. page * PageSize \in Nat
  BY <1>1, PageSizeAssumption
<1>3. CASE page = 0
  <2>1. page * PageSize = 0
    BY <1>3, PageSizeAssumption
  <2>2. SubSeq(order, 1, 0) = <<>>
    BY SubSeqEmpty
  <2> QED
    BY <1>1, <1>2, <1>3, <2>1, <2>2 DEF ListInv
<1>4. CASE page > 0
  BY <1>1, <1>2, <1>4 DEF ListInv
<1> QED
  BY <1>1, <1>3, <1>4

\* One page more.
LEMMA PageAppended ==
  ASSUME TypeOK, ListInv, pc = "list", ~shifted, ~odd
  PROVE  /\ next * PageSize \in Nat
         /\ raw \o PageOf(next) = IF next * PageSize < Len(order)
                                    THEN SubSeq(order, 1, next * PageSize) ELSE order
<1> DEFINE a == page * PageSize
           b == IF next * PageSize < Len(order) THEN next * PageSize ELSE Len(order)
<1>1. page \in Nat /\ order \in Seq(Repos) /\ Len(order) \in Nat
  BY MaxListPagesAssumption DEF TypeOK
<1>2. a \in Nat /\ a <= Len(order) /\ raw = SubSeq(order, 1, a) /\ next = page + 1
  BY ListedSoFar
<1>3. next * PageSize \in Nat /\ next * PageSize = a + PageSize
  BY <1>1, <1>2, PageSizeAssumption
<1>4. b \in Nat /\ a <= b /\ b <= Len(order)
  BY <1>1, <1>2, <1>3, PageSizeAssumption
<1>5. PageOf(next) = SubSeq(order, a + 1, b)
  <2>1. (next - 1) * PageSize + 1 = a + 1
    BY <1>1, <1>2
  <2> QED
    BY <2>1 DEF PageOf
<1> HIDE DEF a
<1>6. raw \o PageOf(next) = SubSeq(order, 1, b)
  <2> HIDE DEF b
  <2> QED
    BY <1>1, <1>2, <1>4, <1>5, PagesJoin
<1>7. SubSeq(order, 1, Len(order)) = order
  BY <1>1, SubSeqFull
<1> QED
  BY <1>3, <1>6, <1>7

\* Outside the listing its variables are at rest.
LEMMA ListAtRest ==
  ASSUME ListInv, pc # "list", pc' # "list", UNCHANGED listVars
  PROVE  ListInv'
  BY DEF ListInv, listVars

LEMMA NextListInv == ASSUME Inv, [Next]_vars PROVE ListInv'
<1>0. TypeOK /\ ListInv
  BY DEF Inv
<1>1. CASE StartCycle
  BY <1>0, <1>1, MaxListPagesAssumption DEF StartCycle, ListInv, listVars, TypeOK
<1>2. CASE ListPage
  <2>1. PICK link \in {NextLink(next)} \cup 1..next :
          /\ Follow(raw \o PageOf(next), link, link = 0 \/ page + 1 = MaxListPages)
          /\ odd' = (odd \/ link # NextLink(next))
          /\ capped' = (link # 0 /\ page + 1 = MaxListPages)
    BY <1>2 DEF ListPage
  <2>2. CASE link = 0 \/ page + 1 = MaxListPages
    <3>1. page' = 0 /\ raw' = <<>> /\ next' = 1 /\ pc' = "next"
      BY <2>1, <2>2, Zenon DEF Follow
    <3> QED
      BY <3>1 DEF ListInv
  <2>3. CASE ~(link = 0 \/ page + 1 = MaxListPages)
    <3>1. page' = page + 1 /\ raw' = raw \o PageOf(next) /\ next' = link /\ pc' = pc
      BY <2>1, <2>3, Zenon DEF Follow
    <3>2. page + 1 < MaxListPages
      BY <1>0, <1>2, <2>3, MaxListPagesAssumption DEF ListPage, ListInv, TypeOK
    <3>3. pc = "list" /\ UNCHANGED <<log, shifted, order>>
      BY <1>2 DEF ListPage
    <3>4. ASSUME ~shifted, ~odd'
          PROVE  /\ next' = page' + 1
                 /\ page' * PageSize < Len(order)
                 /\ raw' = SubSeq(order, 1, page' * PageSize)
      <4>1. ~odd /\ link = NextLink(next)
        BY <2>1, <3>4
      <4>2. next * PageSize < Len(order) /\ link = next + 1
        BY <2>3, <4>1 DEF NextLink
      <4>3. next = page + 1
        BY <1>0, <3>3, <3>4, <4>1, ListedSoFar
      <4>4. raw \o PageOf(next) = SubSeq(order, 1, next * PageSize)
        BY <1>0, <3>3, <3>4, <4>1, <4>2, PageAppended
      <4> QED
        BY <3>1, <4>2, <4>3, <4>4
    <3>5. page \in Nat /\ log = <<>> /\ capped' = FALSE
      BY <1>0, <2>1, <2>3, <3>3, MaxListPagesAssumption DEF ListInv, TypeOK
    <3>6. /\ page' # 0 /\ pc' = "list"
          /\ page' < MaxListPages /\ log' = <<>> /\ ~capped'
      BY <3>1, <3>2, <3>3, <3>5
    <3>7. ~shifted' /\ ~odd' =>
            /\ next' = page' + 1
            /\ page' * PageSize < Len(order')
            /\ raw' = SubSeq(order', 1, page' * PageSize)
      BY <3>3, <3>4, Zenon
    <3> QED
      BY <3>6, <3>7, Zenon DEF ListInv
  <2> QED
    BY <2>2, <2>3
<1>3. CASE ListFails \/ ReposDone \/ ListRateLimited \/ ReadRateLimited
  <2>1. page' = 0 /\ raw' = <<>> /\ next' = 1 /\ pc' = "idle"
    BY <1>3 DEF ListFails, ReposDone, ListRateLimited, ReadRateLimited, EndCycle
  <2> QED
    BY <2>1 DEF ListInv
<1>4. CASE NextRepo \/ ReadGoMod \/ ReadConfig \/ FilterPasses
  BY <1>0, <1>4, ListAtRest DEF NextRepo, ReadGoMod, ReadConfig, FilterPasses
<1>5. CASE ReadGoModFails \/ ReadConfigFails
  BY <1>0, <1>5, ListAtRest DEF ReadGoModFails, ReadConfigFails, Drop, Decide
<1>6. CASE FilterSkips
  BY <1>0, <1>6, ListAtRest DEF FilterSkips, Decide
<1>7. CASE Scan
  BY <1>0, <1>7, ListAtRest DEF Scan, Decide
<1>8. CASE Shift
  <2>1. shifted' = (shifted \/ page > 0) /\ UNCHANGED <<pc, page, next, raw, log, odd, capped>>
    BY <1>8 DEF Shift, listVars
  <2> QED
    BY <1>0, <2>1 DEF ListInv
<1>9. CASE Cancel \/ UNCHANGED vars
  BY <1>0, <1>9 DEF Cancel, vars, ListInv, listVars, histVars
<1> QED
  BY <1>1, <1>2, <1>3, <1>4, <1>5, <1>6, <1>7, <1>8, <1>9 DEF Next, Cycle

-----------------------------------------------------------------------------
(* The visits.                                                             *)

LEMMA HubStays == ASSUME [Next]_vars PROVE hub' = hub
<1>1. CASE StartCycle \/ ListPage \/ Shift \/ Cancel \/ UNCHANGED vars
  BY <1>1 DEF StartCycle, ListPage, Shift, Cancel, vars
<1>2. CASE ListFails \/ ReposDone \/ ListRateLimited \/ ReadRateLimited
  BY <1>2 DEF ListFails, ReposDone, ListRateLimited, ReadRateLimited, EndCycle
<1>3. CASE NextRepo \/ ReadGoMod \/ ReadConfig \/ FilterPasses
  BY <1>3 DEF NextRepo, ReadGoMod, ReadConfig, FilterPasses
<1>4. CASE ReadGoModFails \/ ReadConfigFails \/ FilterSkips \/ Scan
  BY <1>4 DEF ReadGoModFails, ReadConfigFails, FilterSkips, Scan, Drop, Decide
<1> QED
  BY <1>1, <1>2, <1>3, <1>4 DEF Next, Cycle

LEMMA InScopeStays == ASSUME hub' = hub PROVE InScope' = InScope
  BY DEF InScope

\* mapGitHubRepos(order), as a state function of its own.
InOrder == mapGitHubRepos(order)

LEMMA InOrderStays == ASSUME hub' = hub, order' = order PROVE InOrder' = InOrder
  BY InScopeStays DEF InOrder, mapGitHubRepos

\* A repository is done: it moves from todo to the log.
LEMMA DecideVisits ==
  ASSUME Inv, pc \in AtRepo, hub' = hub,
         NEW verdict \in Labels \cup {"dropped"}, Decide(verdict)
  PROVE  VisitInv'
<1>0. TypeOK /\ VisitInv /\ todo # <<>>
  BY DEF Inv, VisitInv
<1>1. /\ log \in Seq(Entries) /\ Len(log) \in Nat
      /\ todo \in Seq(InScope) /\ Len(todo) \in Nat
  BY <1>0 DEF TypeOK, Entries, VisitInv
<1>2. /\ Tail(todo) \in Seq(InScope)
      /\ Len(Tail(todo)) = Len(todo) - 1
      /\ \A i \in 1..Len(Tail(todo)) : Tail(todo)[i] = todo[i + 1]
      /\ Head(todo) = todo[1]
  BY <1>0, <1>1, HeadTailProperties
<1> DEFINE e == [repo |-> Head(todo), verdict |-> verdict]
<1>3. e \in Entries
  <2>1. Head(todo) \in Repos
    BY <1>0, RepoType DEF Repo
  <2> QED
    BY <2>1 DEF Entries
<1>4. /\ log' = Append(log, e) /\ todo' = Tail(todo) /\ pc' = "next"
      /\ UNCHANGED <<order, listed, cancelled, outcome, shifted, odd, capped>>
  BY DEF Decide, Repo
<1>5. /\ Len(log') = Len(log) + 1
      /\ \A i \in 1..Len(log) : log'[i] = log[i]
      /\ log'[Len(log) + 1].repo = Head(todo)
  <2> HIDE DEF Entries
  <2>1. Len(log') = Len(log) + 1 /\ \A i \in 1..Len(log) : log'[i] = log[i]
    BY <1>1, <1>3, <1>4, AppendProperties
  <2>2. log'[Len(log) + 1] = e
    BY <1>1, <1>3, <1>4, AppendProperties
  <2> QED
    BY <2>1, <2>2
<1>6. Accounted => Accounted'
  <2> SUFFICES ASSUME Accounted PROVE Accounted'
    OBVIOUS
  <2>1. /\ Len(log) + Len(todo) = Len(InOrder)
        /\ \A i \in 1..Len(log) : log[i].repo = InOrder[i]
        /\ \A i \in 1..Len(todo) : todo[i] = InOrder[Len(log) + i]
    BY DEF Accounted, InOrder
  <2>2. InOrder' = InOrder
    BY <1>4, InOrderStays
  <2>3. Len(log') + Len(todo') = Len(InOrder')
    BY <1>1, <1>2, <1>4, <1>5, <2>1, <2>2
  <2>4. ASSUME NEW i \in 1..Len(log') PROVE log'[i].repo = InOrder'[i]
    <3>1. CASE i \in 1..Len(log)
      BY <1>5, <2>1, <2>2, <3>1
    <3>2. CASE i = Len(log) + 1
      <4>1. todo[1] = InOrder[Len(log) + 1]
        BY <1>0, <1>1, <2>1
      <4> QED
        BY <1>2, <1>5, <2>2, <3>2, <4>1
    <3> QED
      BY <1>1, <1>5, <3>1, <3>2
  <2>5. ASSUME NEW i \in 1..Len(todo') PROVE todo'[i] = InOrder'[Len(log') + i]
    <3>1. i + 1 \in 1..Len(todo) /\ Len(log') + i = Len(log) + (i + 1)
      BY <1>1, <1>2, <1>4, <1>5
    <3> QED
      BY <1>2, <1>4, <2>1, <2>2, <3>1
  <2> QED
    BY <2>3, <2>4, <2>5 DEF Accounted, InOrder
<1>7. pc \in Visiting /\ outcome # "success"
  BY <1>0 DEF Visiting, AtRepo, VisitInv
<1>8. Len(log') + Len(todo') = listed'
  BY <1>0, <1>1, <1>2, <1>4, <1>5, <1>7 DEF VisitInv
<1>9. todo' \in Seq(InScope')
  BY <1>2, <1>4, InScopeStays
<1> QED
  BY <1>0, <1>4, <1>6, <1>7, <1>8, <1>9 DEF VisitInv, Visiting, AtRepo, Complete

LEMMA AccountedStays ==
  ASSUME hub' = hub, UNCHANGED <<order, log, todo>>
  PROVE  Accounted => Accounted'
<1>1. InOrder' = InOrder
  BY InOrderStays
<1>2. Accounted <=> /\ Len(log) + Len(todo) = Len(InOrder)
                    /\ \A i \in 1..Len(log) : log[i].repo = InOrder[i]
                    /\ \A i \in 1..Len(todo) : todo[i] = InOrder[Len(log) + i]
  BY DEF Accounted, InOrder
<1>3. Accounted' <=> /\ Len(log') + Len(todo') = Len(InOrder')
                     /\ \A i \in 1..Len(log') : log'[i].repo = InOrder'[i]
                     /\ \A i \in 1..Len(todo') : todo'[i] = InOrder'[Len(log') + i]
  BY DEF Accounted, InOrder
<1> QED
  BY <1>1, <1>2, <1>3

\* A step that goes on with the repository in turn.
LEMMA VisitGoesOn ==
  ASSUME VisitInv, hub' = hub, pc \in Visiting, pc' \in Visiting,
         pc' \in AtRepo => todo # <<>>,
         UNCHANGED <<order, todo, log, listed, outcome, shifted, odd, capped>>
  PROVE  VisitInv'
<1>1. InScope' = InScope
  BY InScopeStays
<1>2. Accounted => Accounted'
  BY AccountedStays
<1>3. outcome' # "success"
  BY DEF VisitInv, Visiting, AtRepo
<1> QED
  BY <1>1, <1>2, <1>3 DEF VisitInv, Complete, Visiting, AtRepo

\* What ListRepos returns when nothing went wrong on the way is the installation.
LEMMA ListReturns == ASSUME Inv, hub' = hub, ListPage PROVE VisitInv'
<1>0. TypeOK /\ ListInv /\ VisitInv
  BY DEF Inv
<1>1. PICK link \in {NextLink(next)} \cup 1..next :
        /\ Follow(raw \o PageOf(next), link, link = 0 \/ page + 1 = MaxListPages)
        /\ odd' = (odd \/ link # NextLink(next))
        /\ capped' = (link # 0 /\ page + 1 = MaxListPages)
  BY DEF ListPage
<1>2. pc = "list" /\ UNCHANGED <<order, log, outcome, cancelled, shifted>>
  BY DEF ListPage
<1>3. log' = <<>> /\ outcome' # "success"
  BY <1>0, <1>2 DEF ListInv, VisitInv
<1>4. CASE link = 0 \/ page + 1 = MaxListPages
  <2> DEFINE found == raw \o PageOf(next)
             kept  == mapGitHubRepos(found)
  <2>1. todo' = kept /\ listed' = Len(kept) /\ pc' = "next"
    BY <1>1, <1>4, Zenon DEF Follow
  <2>2. found \in Seq(Repos)
    <3>1. next \in Nat \ {0}
      BY <1>0 DEF TypeOK
    <3> QED
      BY <1>0, <3>1, PageType, ConcatProperties DEF TypeOK
  <2>3. kept \in Seq(InScope)
    <3> HIDE DEF found
    <3> QED
      BY <2>2, ListedType
  <2>4. ASSUME ~shifted', ~odd', ~capped' PROVE kept = InOrder
    <3>1. ~odd /\ link = 0 /\ NextLink(next) = 0
      BY <1>1, <1>4, <2>4
    <3>2. ~(next * PageSize < Len(order))
      BY <1>0, <3>1 DEF NextLink, TypeOK
    <3>3. found = order
      BY <1>0, <1>2, <2>4, <3>1, <3>2, PageAppended
    <3> QED
      BY <3>3, Zenon DEF InOrder
  <2> HIDE DEF kept
  <2>5. InOrder' = InOrder /\ InScope' = InScope
    BY <1>2, InOrderStays, InScopeStays
  <2>6. Len(log') = 0 /\ Len(kept) \in Nat
    BY <1>3, <2>3
  <2>7. ~(shifted' \/ odd' \/ capped') => Accounted'
    <3> SUFFICES ASSUME ~shifted', ~odd', ~capped' PROVE Accounted'
      OBVIOUS
    <3>1. todo' = InOrder' /\ Len(log') = 0 /\ Len(todo') \in Nat
      BY <2>1, <2>4, <2>5, <2>6
    <3>2. /\ Len(log') + Len(todo') = Len(InOrder')
          /\ \A i \in 1..Len(log') : log'[i].repo = InOrder'[i]
          /\ \A i \in 1..Len(todo') : todo'[i] = InOrder'[Len(log') + i]
      BY <3>1
    <3> QED
      BY <3>2 DEF Accounted, InOrder
  <2>8. todo' \in Seq(InScope') /\ Len(log') + Len(todo') = listed'
    BY <2>1, <2>3, <2>5, <2>6
  <2> QED
    BY <1>3, <2>1, <2>7, <2>8 DEF VisitInv, Visiting, AtRepo
<1>5. CASE ~(link = 0 \/ page + 1 = MaxListPages)
  <2>1. UNCHANGED <<pc, todo, listed>>
    BY <1>1, <1>5, Zenon DEF Follow
  <2>2. InScope' = InScope
    BY InScopeStays
  <2> QED
    BY <1>0, <1>2, <1>3, <2>1, <2>2 DEF VisitInv, Visiting, AtRepo, Complete
<1> QED
  BY <1>4, <1>5

\* Poll returns with another label than success.
LEMMA CutShort ==
  ASSUME NEW label, label # "success", EndCycle(label)
  PROVE  VisitInv'
<1>1. todo' = <<>> /\ pc' = "idle" /\ outcome' # "success"
  BY DEF EndCycle
<1>2. <<>> \in Seq(InScope')
  OBVIOUS
<1> QED
  BY <1>1, <1>2 DEF VisitInv, Visiting, AtRepo, Complete

LEMMA NextVisitInv == ASSUME Inv, [Next]_vars PROVE VisitInv'
<1>0. TypeOK /\ ListInv /\ VisitInv /\ hub' = hub /\ InScope' = InScope
  BY HubStays, InScopeStays DEF Inv
<1>1. CASE StartCycle
  BY <1>0, <1>1 DEF StartCycle, VisitInv, Visiting, AtRepo, Complete
<1>2. CASE ListPage
  BY <1>0, <1>2, ListReturns
<1>3. CASE ListFails
  BY <1>3, CutShort DEF ListFails
<1>4. CASE ListRateLimited \/ ReadRateLimited
  BY <1>4, CutShort DEF ListRateLimited, ReadRateLimited
<1>5. CASE ReposDone
  <2>1. /\ pc = "next" /\ (todo = <<>> \/ cancelled)
        /\ todo' = <<>> /\ pc' = "idle" /\ outcome' = "success"
        /\ UNCHANGED <<order, log, listed, cancelled, shifted, odd, capped>>
    BY <1>5 DEF ReposDone, EndCycle, metrics, histVars
  <2>2. <<>> \in Seq(InScope')
    OBVIOUS
  <2>3. CASE cancelled
    BY <2>1, <2>2, <2>3 DEF VisitInv, Visiting, AtRepo, Complete
  <2>4. CASE ~cancelled
    <3>1. todo' = todo
      BY <2>1, <2>4
    <3>2. Accounted => Accounted'
      BY <1>0, <2>1, <3>1, AccountedStays
    <3> QED
      BY <1>0, <2>1, <2>2, <3>1, <3>2 DEF VisitInv, Visiting, AtRepo, Complete
  <2> QED
    BY <2>3, <2>4
<1>6. CASE NextRepo
  BY <1>0, <1>6, VisitGoesOn DEF NextRepo, Visiting, AtRepo, metrics, histVars
<1>7. CASE ReadGoMod \/ ReadConfig \/ FilterPasses
  <2>1. /\ pc \in AtRepo /\ pc' \in AtRepo
        /\ UNCHANGED <<order, todo, log, listed, outcome, shifted, odd, capped>>
    BY <1>7 DEF ReadGoMod, ReadConfig, FilterPasses, AtRepo, metrics, histVars
  <2>2. todo # <<>> /\ pc \in Visiting /\ pc' \in Visiting
    BY <1>0, <2>1 DEF VisitInv, Visiting
  <2> QED
    BY <1>0, <2>1, <2>2, VisitGoesOn
<1>8. CASE ReadGoModFails \/ ReadConfigFails
  <2>1. pc \in AtRepo /\ Decide("dropped")
    BY <1>8 DEF ReadGoModFails, ReadConfigFails, Drop, AtRepo
  <2> QED
    BY <1>0, <2>1, DecideVisits
<1>9. CASE FilterSkips
  <2>1. pc \in AtRepo /\ Decide(Skip) /\ Skip \in Labels
    BY <1>9, SkipType, LabelSets DEF FilterSkips, AtRepo
  <2> QED
    BY <1>0, <2>1, DecideVisits
<1>10. CASE Scan
  <2>1. PICK label \in Answers : Decide(label)
    BY <1>10 DEF Scan
  <2>2. label \in Labels /\ pc \in AtRepo
    BY <1>10, AnswersAssumption, LabelSets DEF Scan, AtRepo
  <2> QED
    BY <1>0, <2>1, <2>2, DecideVisits
<1>11. CASE Shift
  <2>1. pc = "list" /\ UNCHANGED <<pc, todo, outcome>>
    BY <1>11 DEF Shift
  <2> QED
    BY <1>0, <2>1 DEF VisitInv, Visiting, AtRepo, Complete
<1>12. CASE Cancel
  <2>1. /\ pc # "idle" /\ cancelled' = TRUE
        /\ UNCHANGED <<order, pc, todo, log, listed, outcome, shifted, odd, capped>>
    BY <1>12 DEF Cancel, metrics, histVars
  <2>2. CASE pc \in Visiting
    <3>1. pc' \in AtRepo => todo # <<>>
      BY <1>0, <2>1 DEF VisitInv
    <3>2. pc' \in Visiting
      BY <2>1, <2>2
    <3> QED
      BY <1>0, <2>1, <2>2, <3>1, <3>2, VisitGoesOn
  <2>3. CASE pc \notin Visiting
    BY <1>0, <2>1, <2>3 DEF VisitInv, Visiting, AtRepo, Complete
  <2> QED
    BY <2>2, <2>3
<1>13. CASE UNCHANGED vars
  <2>1. UNCHANGED <<order, pc, todo, log, listed, outcome, shifted, odd, capped, cancelled>>
    BY <1>13 DEF vars, metrics, histVars
  <2>2. CASE pc \in Visiting
    <3>1. pc' \in AtRepo => todo # <<>>
      BY <1>0, <2>1 DEF VisitInv
    <3>2. pc' \in Visiting
      BY <2>1, <2>2
    <3> QED
      BY <1>0, <2>1, <2>2, <3>1, <3>2, VisitGoesOn
  <2>3. CASE pc \notin Visiting
    <3>1. (Complete => Complete') /\ (Complete' => Complete)
      BY <2>1 DEF Complete
    <3>2. Accounted => Accounted'
      BY <1>0, <2>1, AccountedStays
    <3> QED
      BY <1>0, <2>1, <2>3, <3>1, <3>2 DEF VisitInv, Visiting, AtRepo
  <2> QED
    BY <2>2, <2>3
<1> QED
  BY <1>1, <1>2, <1>3, <1>4, <1>5, <1>6, <1>7, <1>8, <1>9, <1>10, <1>11, <1>12, <1>13
  DEF Next, Cycle

-----------------------------------------------------------------------------
(* What is read, and the verdicts.                                         *)

\* The three reasons, each as the filter chain comes to it.
LEMMA SkipReason ==
  /\ Skip = "scope" => ~hub[Repo].allowed
  /\ Skip = "auto_update_disabled" => hub[Repo].allowed /\ consent # "granted"
  /\ Skip = "no_gomod" => hub[Repo].allowed /\ consent = "granted" /\ gomod # "present"
  /\ Skip = "" => hub[Repo].allowed /\ consent = "granted" /\ gomod = "present"
<1> DEFINE given == {i \in DOMAIN Reasons : Reasons[i] # ""}
<1>0. 1 \in 1..3 /\ 2 \in 1..3 /\ 3 \in 1..3
  OBVIOUS
<1>1. /\ DOMAIN Reasons = 1..3
      /\ Reasons[1] = IF hub[Repo].allowed THEN "" ELSE "scope"
      /\ Reasons[2] = IF consent = "granted" THEN "" ELSE "auto_update_disabled"
      /\ Reasons[3] = IF gomod = "present" THEN "" ELSE "no_gomod"
  BY DEF Reasons
<1>2. \A i \in 1..3 : i = 1 \/ i = 2 \/ i = 3
  OBVIOUS
<1>3. given \in SUBSET Nat /\ given \subseteq 1..3
  <2>1. given \subseteq 1..3
    BY <1>1, Zenon
  <2> HIDE DEF given
  <2> QED
    BY <2>1
<1>4. \A i \in 1..3 : i \notin given => Reasons[i] = ""
  BY <1>1, Zenon
<1>5. Skip = IF given = {} THEN "" ELSE Reasons[Min(given)]
  BY Zenon DEF Skip
<1>6. Min(given) \in given => Reasons[Min(given)] # ""
  BY Zenon
<1> HIDE DEF given
<1>7. CASE given = {}
  <2>1. Skip = ""
    BY <1>5, <1>7, Zenon
  <2>2. \A i \in 1..3 : Reasons[i] = ""
    BY <1>4, <1>7
  <2>3. Reasons[1] = "" /\ Reasons[2] = "" /\ Reasons[3] = ""
    BY <1>0, <2>2, Zenon
  <2> QED
    BY <1>1, <2>1, <2>3
<1>8. CASE given # {}
  <2>1. \E m \in given : \A y \in given : m <= y
    BY <1>3, <1>8, LeastNatural
  <2> DEFINE m == Min(given)
  <2>2. m \in given /\ \A y \in given : m <= y
    BY <2>1 DEF Min
  <2>3. Skip = Reasons[m] /\ Reasons[m] # ""
    BY <1>5, <1>6, <1>8, <2>2, Zenon
  <2> HIDE DEF m
  <2>4. m \in 1..3 /\ \A i \in 1..3 : i < m => i \notin given
    BY <1>3, <2>2
  <2>5. \A i \in 1..3 : i < m => Reasons[i] = ""
    BY <1>4, <2>4, Zenon
  <2>6. CASE m = 1
    BY <1>1, <2>3, <2>6
  <2>7. CASE m = 2
    <3>1. 1 < m
      BY <2>7
    <3>2. Reasons[1] = ""
      BY <1>0, <2>5, <3>1, Zenon
    <3> QED
      BY <1>1, <2>3, <2>7, <3>2
  <2>8. CASE m = 3
    <3>1. 1 < m /\ 2 < m
      BY <2>8
    <3>2. Reasons[1] = "" /\ Reasons[2] = ""
      BY <1>0, <2>5, <3>1, Zenon
    <3> QED
      BY <1>1, <2>3, <2>8, <3>2
  <2> QED
    BY <1>2, <2>4, <2>6, <2>7, <2>8
<1> QED
  BY <1>7, <1>8

\* What ParseConsent's answers say of the file.
LEMMA ConsentReads ==
  ASSUME NEW config \in Configs, config # "unreadable"
  PROVE  /\ ParseConsent(config) = "granted" <=> config = "true"
         /\ ParseConsent(config) \notin {"error", "granted"} =>
              config \in {"absent", "empty", "no_key", "false", "other"}
  BY DEF ParseConsent, Configs

\* The repository in turn, in its place in the listing.
LEMMA RepoInScope ==
  ASSUME TypeOK, VisitInv, pc \in AtRepo
  PROVE  Repo \in InScope /\ Repo \in Repos /\ hub[Repo] \in Kinds
<1>1. Repo \in InScope
  BY HeadTailProperties DEF VisitInv, Repo
<1> QED
  BY <1>1, ProfileType DEF InScope

LEMMA NextReadInv == ASSUME Inv, [Next]_vars PROVE ReadInv'
<1>0. TypeOK /\ VisitInv /\ ReadInv /\ hub' = hub
  BY HubStays DEF Inv
<1>1. CASE pc' \notin {"config", "filter", "scan"}
  BY <1>1 DEF ReadInv
<1>2. CASE ReadGoMod
  <2>1. pc' = "config" /\ todo' = todo /\ gomod' = hub[Repo].gomod /\ hub[Repo].gomod # "unreadable"
    BY <1>2 DEF ReadGoMod
  <2>2. Repo' = Repo
    BY <2>1 DEF Repo
  <2> QED
    BY <1>0, <2>1, <2>2 DEF ReadInv
<1>3. CASE ReadConfig
  <2>1. /\ pc = "config" /\ pc' = "filter" /\ UNCHANGED <<todo, gomod>>
        /\ consent' = ParseConsent(hub[Repo].config)
        /\ hub[Repo].config # "unreadable" /\ ParseConsent(hub[Repo].config) # "error"
    BY <1>3 DEF ReadConfig
  <2>2. Repo' = Repo
    BY <2>1 DEF Repo
  <2>3. ParseConsent(hub[Repo].config)' = ParseConsent(hub[Repo].config)
    BY <1>0, <2>2 DEF ParseConsent
  <2> QED
    BY <1>0, <2>1, <2>2, <2>3 DEF ReadInv
<1>4. CASE FilterPasses
  <2>1. pc = "filter" /\ pc' = "scan" /\ Skip = "" /\ UNCHANGED <<todo, gomod, consent>>
    BY <1>4 DEF FilterPasses, readVars
  <2>2. Repo' = Repo
    BY <2>1 DEF Repo
  <2>3. ParseConsent(hub[Repo].config)' = ParseConsent(hub[Repo].config)
    BY <1>0, <2>2 DEF ParseConsent
  <2>4. Repo \in InScope /\ hub[Repo] \in Kinds
    BY <1>0, <2>1, RepoInScope DEF AtRepo
  <2>5. hub[Repo].allowed /\ consent = "granted" /\ gomod = "present"
    BY <2>1, SkipReason
  <2>6. gomod = hub[Repo].gomod /\ consent = ParseConsent(hub[Repo].config)
        /\ hub[Repo].config # "unreadable"
    BY <1>0, <2>1 DEF ReadInv
  <2>7. hub[Repo].config = "true"
    <3>1. hub[Repo].config \in Configs
      BY <2>4 DEF Kinds
    <3> QED
      BY <2>5, <2>6, <3>1, ConsentReads
  <2>8. Eligible(Repo)'
    <3>1. InScope' = InScope
      BY <1>0, InScopeStays
    <3> QED
      BY <1>0, <2>2, <2>4, <2>5, <2>6, <2>7, <3>1 DEF Eligible
  <2> QED
    BY <1>0, <2>1, <2>2, <2>3, <2>8 DEF ReadInv
<1>5. CASE Cancel \/ UNCHANGED vars
  <2>1. UNCHANGED <<pc, todo, gomod, consent>>
    BY <1>5 DEF Cancel, vars, readVars
  <2>2. Repo' = Repo
    BY <2>1 DEF Repo
  <2>3. ParseConsent(hub[Repo].config)' = ParseConsent(hub[Repo].config)
    BY <1>0, <2>2 DEF ParseConsent
  <2>4. Eligible(Repo)' = Eligible(Repo)
    BY <1>0, <2>2, InScopeStays DEF Eligible
  <2> QED
    BY <1>0, <2>1, <2>2, <2>3, <2>4 DEF ReadInv
<1>6. CASE StartCycle \/ Shift \/ NextRepo
  BY <1>1, <1>6 DEF StartCycle, Shift, NextRepo
<1>7. CASE ListPage
  BY <1>1, <1>7 DEF ListPage, Follow
<1>8. CASE ListFails \/ ReposDone \/ ListRateLimited \/ ReadRateLimited
  BY <1>1, <1>8 DEF ListFails, ReposDone, ListRateLimited, ReadRateLimited, EndCycle
<1>9. CASE ReadGoModFails \/ ReadConfigFails \/ FilterSkips \/ Scan
  BY <1>1, <1>9 DEF ReadGoModFails, ReadConfigFails, FilterSkips, Scan, Drop, Decide
<1> QED
  BY <1>2, <1>3, <1>4, <1>5, <1>6, <1>7, <1>8, <1>9 DEF Next, Cycle

\* A verdict that is deserved leaves all of them deserved.
LEMMA DecideDeserved ==
  ASSUME Inv, hub' = hub, pc \in AtRepo, NEW verdict \in Labels \cup {"dropped"},
         Decide(verdict), Deserves(Repo, verdict)
  PROVE  VerdictsAreDeserved'
<1>0. TypeOK /\ VisitInv /\ VerdictsAreDeserved
  BY DEF Inv
<1> DEFINE e == [repo |-> Repo, verdict |-> verdict]
<1>1. Repo \in InScope /\ Repo \in Repos
  BY <1>0, RepoInScope
<1>2. log \in Seq(Entries) /\ log' = Append(log, e) /\ e \in Entries
  BY <1>0, <1>1 DEF TypeOK, Decide, Entries
<1>3. /\ DOMAIN log = 1..Len(log) /\ DOMAIN log' = 1..(Len(log) + 1) /\ Len(log) \in Nat
      /\ \A i \in 1..Len(log) : log'[i] = log[i]
      /\ log'[Len(log) + 1] = e
  <2> HIDE DEF Entries, e
  <2> QED
    BY <1>2, AppendProperties, LenProperties
<1>4. InScope' = InScope
  BY InScopeStays
<1>5. \A r, v : Deserves(r, v)' <=> Deserves(r, v)
  BY <1>4 DEF Deserves, Eligible
<1>6. ASSUME NEW i \in DOMAIN log'
      PROVE  log'[i].repo \in InScope' /\ Deserves(log'[i].repo, log'[i].verdict)
  <2>1. CASE i \in 1..Len(log)
    BY <1>0, <1>3, <1>4, <2>1 DEF VerdictsAreDeserved
  <2>2. CASE i = Len(log) + 1
    <3>1. log'[i].repo = Repo /\ log'[i].verdict = verdict
      BY <1>3, <2>2
    <3> QED
      BY <1>1, <1>4, <3>1
  <2> QED
    BY <1>3, <2>1, <2>2
<1> QED
  BY <1>5, <1>6 DEF VerdictsAreDeserved

\* The filter chain's reason is deserved, on what has been read of the repository.
LEMMA SkipDeserved ==
  ASSUME Inv, pc = "filter", Skip # ""
  PROVE  Deserves(Repo, Skip)
<1>0. TypeOK /\ VisitInv /\ ReadInv
  BY DEF Inv
<1>1. hub[Repo] \in Kinds
  BY <1>0, RepoInScope DEF AtRepo
<1>2. /\ gomod = hub[Repo].gomod /\ gomod # "unreadable"
      /\ consent = ParseConsent(hub[Repo].config) /\ consent # "error"
      /\ hub[Repo].config # "unreadable"
  BY <1>0 DEF ReadInv
<1>3. hub[Repo].config \in Configs /\ hub[Repo].gomod \in GoMods
  BY <1>1 DEF Kinds
<1>4. /\ consent = "granted" <=> hub[Repo].config = "true"
      /\ consent # "granted" => hub[Repo].config \in {"absent", "empty", "no_key", "false", "other"}
  BY <1>2, <1>3, ConsentReads
<1>5. gomod # "present" => gomod = "absent"
  BY <1>2, <1>3 DEF GoMods
<1>6. CASE Skip = "scope"
  BY <1>6, SkipReason DEF Deserves
<1>7. CASE Skip = "auto_update_disabled"
  BY <1>4, <1>7, SkipReason DEF Deserves
<1>8. CASE Skip = "no_gomod"
  BY <1>2, <1>4, <1>5, <1>8, SkipReason DEF Deserves
<1> QED
  BY <1>6, <1>7, <1>8, SkipType DEF StaticSkipReasons

LEMMA NextVerdicts == ASSUME Inv, [Next]_vars PROVE VerdictsAreDeserved'
<1>0. TypeOK /\ ListInv /\ VisitInv /\ ReadInv /\ VerdictsAreDeserved /\ hub' = hub
  BY HubStays DEF Inv
<1>1. CASE log' = log
  <2>1. InScope' = InScope
    BY <1>0, InScopeStays
  <2>2. \A r, v : Deserves(r, v)' <=> Deserves(r, v)
    BY <1>0, <2>1 DEF Deserves, Eligible
  <2> QED
    BY <1>0, <1>1, <2>1, <2>2 DEF VerdictsAreDeserved
<1>2. CASE StartCycle
  <2>1. DOMAIN log' = {}
    BY <1>2 DEF StartCycle
  <2> QED
    BY <2>1 DEF VerdictsAreDeserved
<1>3. CASE ReadGoModFails \/ ReadConfigFails
  <2>1. pc \in AtRepo /\ Decide("dropped")
    BY <1>3 DEF ReadGoModFails, ReadConfigFails, Drop, AtRepo
  <2>2. Deserves(Repo, "dropped")
    BY DEF Deserves
  <2> QED
    BY <1>0, <2>1, <2>2, DecideDeserved
<1>4. CASE FilterSkips
  <2>1. pc = "filter" /\ Skip # "" /\ Decide(Skip) /\ Skip \in Labels
    BY <1>4, SkipType, LabelSets DEF FilterSkips
  <2>2. Deserves(Repo, Skip) /\ pc \in AtRepo
    BY <2>1, SkipDeserved DEF AtRepo
  <2> QED
    BY <1>0, <2>1, <2>2, DecideDeserved
<1>5. CASE Scan
  <2>1. PICK label \in Answers : Decide(label)
    BY <1>5 DEF Scan
  <2>2. label \in Scanned /\ label \in Labels /\ pc \in AtRepo
    BY <1>5, AnswersAssumption, LabelSets DEF Scan, AtRepo
  <2>3. Deserves(Repo, label)
    BY <1>0, <1>5, <2>2 DEF Scan, ReadInv, Deserves
  <2> QED
    BY <1>0, <2>1, <2>2, <2>3, DecideDeserved
<1>6. CASE ListPage \/ Shift \/ Cancel \/ UNCHANGED vars
  BY <1>1, <1>6 DEF ListPage, Shift, Cancel, vars, histVars
<1>7. CASE ListFails \/ ReposDone \/ ListRateLimited \/ ReadRateLimited
  BY <1>1, <1>7 DEF ListFails, ReposDone, ListRateLimited, ReadRateLimited, histVars
<1>8. CASE NextRepo \/ ReadGoMod \/ ReadConfig \/ FilterPasses
  BY <1>1, <1>8 DEF NextRepo, ReadGoMod, ReadConfig, FilterPasses, histVars
<1> QED
  BY <1>2, <1>3, <1>4, <1>5, <1>6, <1>7, <1>8 DEF Next, Cycle

-----------------------------------------------------------------------------
(* The counters.                                                           *)

\* The entries of a log that bear a verdict.
Bearing(s, verdict) == {i \in DOMAIN s : s[i].verdict = verdict}

LEMMA WithBearing == \A verdict : With(verdict) = Cardinality(Bearing(log, verdict))
  BY DEF With, Bearing

LEMMA BearingGrows ==
  ASSUME NEW s \in Seq(Entries), NEW e \in Entries, NEW verdict
  PROVE  /\ Cardinality(Bearing(s, verdict)) \in Nat
         /\ Cardinality(Bearing(Append(s, e), verdict)) =
              Cardinality(Bearing(s, verdict)) + (IF e.verdict = verdict THEN 1 ELSE 0)
<1> DEFINE n == Len(s)
           t == Append(s, e)
           B == Bearing(s, verdict)
<1>1. /\ n \in Nat /\ DOMAIN s = 1..n /\ DOMAIN t = 1..(n + 1)
      /\ \A i \in 1..n : t[i] = s[i]
      /\ t[n + 1] = e
  <2> HIDE DEF Entries
  <2> QED
    BY AppendProperties, LenProperties
<1> HIDE DEF t, n
<1>2. B \subseteq 1..n /\ n + 1 \notin B
  BY <1>1 DEF Bearing
<1>3. IsFiniteSet(B)
  <2>1. IsFiniteSet(1..n)
    BY <1>1, FS_Interval
  <2> HIDE DEF B
  <2> QED
    BY <1>2, <2>1, FS_Subset
<1>4. Bearing(t, verdict) = IF e.verdict = verdict THEN B \cup {n + 1} ELSE B
  <2>1. \A i \in 1..(n + 1) : i \in 1..n \/ i = n + 1
    BY <1>1
  <2>2. \A i : i \in Bearing(t, verdict) <=> i \in B \/ (i = n + 1 /\ e.verdict = verdict)
    <3>1. 1..n \subseteq 1..(n + 1) /\ n + 1 \in 1..(n + 1)
      BY <1>1
    <3> QED
      BY <1>1, <2>1, <3>1 DEF Bearing
  <2> HIDE DEF B
  <2> QED
    BY <2>2
<1> HIDE DEF B
<1>5. Cardinality(B) \in Nat
  BY <1>3, FS_CardinalityType
<1>6. Cardinality(B \cup {n + 1}) = Cardinality(B) + 1
  BY <1>2, <1>3, FS_AddElement
<1>7. Cardinality(Bearing(t, verdict)) = Cardinality(B) + (IF e.verdict = verdict THEN 1 ELSE 0)
  BY <1>4, <1>5, <1>6
<1> QED
  BY <1>5, <1>7 DEF B, t

LEMMA LabelsFinite == IsFiniteSet(Labels)
<1>1. \A x : IsFiniteSet({x})
  BY FS_Singleton
<1>2. \A S, T : IsFiniteSet(S) /\ IsFiniteSet(T) => IsFiniteSet(S \cup T)
  BY FS_Union
<1>3. IsFiniteSet(StaticSkipReasons)
  <2>1. IsFiniteSet({"scope"} \cup ({"auto_update_disabled"} \cup {"no_gomod"}))
    BY <1>1, <1>2, Zenon
  <2>2. StaticSkipReasons = {"scope"} \cup ({"auto_update_disabled"} \cup {"no_gomod"})
    BY DEF StaticSkipReasons
  <2> QED
    BY <2>1, <2>2, Zenon
<1>4. IsFiniteSet(ScanSkipReasons)
  <2> DEFINE early == {"clone_failed"} \cup ({"gate_timeout"} \cup {"scan_failed"})
             late  == {"already_clean"} \cup {"finding_set_unchanged"}
  <2>1. IsFiniteSet(early)
    BY <1>1, <1>2, Zenon
  <2>2. IsFiniteSet(late)
    BY <1>1, <1>2, Zenon
  <2>3. ScanSkipReasons = early \cup late
    BY DEF ScanSkipReasons
  <2> HIDE DEF early, late
  <2> QED
    BY <1>2, <2>1, <2>2, <2>3, Zenon
<1>5. IsFiniteSet(PublishStatuses)
  <2>1. IsFiniteSet({"create"} \cup {"error"})
    BY <1>1, <1>2, Zenon
  <2>2. PublishStatuses = {"create"} \cup {"error"}
    BY DEF PublishStatuses
  <2> QED
    BY <2>1, <2>2, Zenon
<1> QED
  BY <1>2, <1>3, <1>4, <1>5, Zenon DEF Labels, FilterSkipReasons

LEMMA CountFromZero == ASSUME counts = Zero, log = <<>> PROVE CountInv
<1>1. \A verdict : With(verdict) = 0
  <2>1. \A verdict : {i \in DOMAIN log : log[i].verdict = verdict} = {}
    OBVIOUS
  <2>2. Cardinality({}) = 0
    BY FS_EmptySet
  <2> QED
    BY <2>1, <2>2 DEF With
<1>2. SumFunction(counts) = 0
  BY LabelsFinite, SumFunctionZero DEF Zero
<1>3. \A label \in Labels : counts[label] = 0
  BY DEF Zero
<1>4. Len(log) = 0
  OBVIOUS
<1> QED
  BY <1>1, <1>2, <1>3, <1>4 DEF CountInv

\* The log is one entry longer.
LEMMA DecideLogs ==
  ASSUME TypeOK, todo # <<>>, NEW verdict \in Labels \cup {"dropped"}, Decide(verdict)
  PROVE  /\ Len(log) \in Nat /\ Len(log') = Len(log) + 1
         /\ \A v : /\ With(v) \in Nat
                   /\ With(v)' = With(v) + (IF v = verdict THEN 1 ELSE 0)
<1> DEFINE e == [repo |-> Repo, verdict |-> verdict]
<1>1. log \in Seq(Entries) /\ e \in Entries /\ log' = Append(log, e)
  BY RepoType DEF TypeOK, Decide, Entries
<1>2. e.verdict = verdict
  OBVIOUS
<1>3. Len(log) \in Nat /\ Len(log') = Len(log) + 1
  <2> HIDE DEF e, Entries
  <2> QED
    BY <1>1, AppendProperties, LenProperties
<1>4. ASSUME NEW v
      PROVE  With(v) \in Nat /\ With(v)' = With(v) + (IF v = verdict THEN 1 ELSE 0)
  <2> HIDE DEF e
  <2>1. With(v) = Cardinality(Bearing(log, v)) /\ With(v)' = Cardinality(Bearing(log', v))
    BY DEF With, Bearing
  <2> QED
    BY <1>1, <1>2, <2>1, BearingGrows
<1> QED
  BY <1>3, <1>4

\* A repository that is done is counted.
LEMMA DecideCounts ==
  ASSUME TypeOK, CountInv, todo # <<>>, NEW verdict \in Labels, Decide(verdict), Inc(verdict)
  PROVE  CountInv'
<1>1. /\ counts \in [Labels -> Nat] /\ counts' \in [Labels -> Nat]
      /\ counts'[verdict] = counts[verdict] + 1
      /\ \A x \in Labels \ {verdict} : counts'[x] = counts[x]
  BY IncType DEF Inc, TypeOK
<1>2. SumFunction(counts') = SumFunction(counts) + 1
  BY <1>1, LabelsFinite, SumFunctionIncrement
<1>3. /\ Len(log) \in Nat /\ Len(log') = Len(log) + 1
      /\ \A v : /\ With(v) \in Nat
                /\ With(v)' = With(v) + (IF v = verdict THEN 1 ELSE 0)
  BY DecideLogs
<1>4. \A label \in Labels : counts'[label] = With(label)'
  BY <1>1, <1>3 DEF CountInv
<1>5. With("dropped")' = With("dropped") /\ With("dropped") \in Nat
  BY <1>3, LabelSets
<1>6. SumFunction(counts) \in Nat
  BY <1>1, LabelsFinite, SumFunctionNatural
<1>7. SumFunction(counts') + With("dropped")' = Len(log')
  BY <1>2, <1>3, <1>5, <1>6 DEF CountInv
<1> QED
  BY <1>4, <1>7 DEF CountInv

\* One that is dropped is not.
LEMMA DropCounts == ASSUME TypeOK, CountInv, todo # <<>>, Drop PROVE CountInv'
<1>1. Decide("dropped") /\ counts' = counts
  BY DEF Drop
<1>2. /\ Len(log) \in Nat /\ Len(log') = Len(log) + 1
      /\ \A v : /\ With(v) \in Nat
                /\ With(v)' = With(v) + (IF v = "dropped" THEN 1 ELSE 0)
  BY <1>1, DecideLogs
<1>3. \A label \in Labels : counts'[label] = With(label)'
  BY <1>1, <1>2, LabelSets DEF CountInv
<1>4. SumFunction(counts) \in Nat
  BY LabelsFinite, SumFunctionNatural DEF TypeOK
<1>5. SumFunction(counts') + With("dropped")' = Len(log')
  BY <1>1, <1>2, <1>4 DEF CountInv
<1> QED
  BY <1>3, <1>5 DEF CountInv

LEMMA NextCountInv == ASSUME Inv, [Next]_vars PROVE CountInv'
<1>0. TypeOK /\ VisitInv /\ CountInv /\ (pc \in AtRepo => todo # <<>>)
  BY DEF Inv, VisitInv
<1>1. CASE UNCHANGED <<counts, log>>
  <2>1. \A v : With(v)' = With(v)
    BY <1>1 DEF With
  <2> QED
    BY <1>0, <1>1, <2>1 DEF CountInv
<1>2. CASE StartCycle
  <2>1. counts' = Zero /\ log' = <<>>
    BY <1>2 DEF StartCycle
  <2>2. \A v : With(v)' = Cardinality(Bearing(log', v))
    BY DEF With, Bearing
  <2>3. \A v : With(v)' = 0
    <3>1. \A v : Bearing(<<>>, v) = {}
      BY DEF Bearing
    <3>2. Cardinality({}) = 0
      BY FS_EmptySet
    <3> QED
      BY <2>1, <2>2, <3>1, <3>2
  <2>4. SumFunction(counts') = 0 /\ \A label \in Labels : counts'[label] = 0
    BY <2>1, LabelsFinite, SumFunctionZero DEF Zero
  <2> QED
    BY <2>1, <2>3, <2>4 DEF CountInv
<1>3. CASE ReadGoModFails \/ ReadConfigFails
  <2>1. pc \in AtRepo /\ Drop
    BY <1>3 DEF ReadGoModFails, ReadConfigFails, AtRepo
  <2> QED
    BY <1>0, <2>1, DropCounts
<1>4. CASE FilterSkips
  <2>1. pc \in AtRepo /\ Decide(Skip) /\ Inc(Skip) /\ Skip \in Labels
    BY <1>4, SkipType, LabelSets DEF FilterSkips, AtRepo
  <2> QED
    BY <1>0, <2>1, DecideCounts
<1>5. CASE Scan
  <2>1. PICK label \in Answers : Decide(label) /\ Inc(label)
    BY <1>5 DEF Scan
  <2>2. label \in Labels /\ pc \in AtRepo
    BY <1>5, AnswersAssumption, LabelSets DEF Scan, AtRepo
  <2> QED
    BY <1>0, <2>1, <2>2, DecideCounts
<1>6. CASE ListPage \/ Shift \/ Cancel \/ UNCHANGED vars
  BY <1>1, <1>6 DEF ListPage, Shift, Cancel, vars, histVars, metrics
<1>7. CASE ListFails \/ ReposDone \/ ListRateLimited \/ ReadRateLimited
  BY <1>1, <1>7 DEF ListFails, ReposDone, ListRateLimited, ReadRateLimited, EndCycle, histVars, metrics
<1>8. CASE NextRepo \/ ReadGoMod \/ ReadConfig \/ FilterPasses
  BY <1>1, <1>8 DEF NextRepo, ReadGoMod, ReadConfig, FilterPasses, histVars, metrics
<1> QED
  BY <1>2, <1>3, <1>4, <1>5, <1>6, <1>7, <1>8 DEF Next, Cycle

-----------------------------------------------------------------------------
(* Theorems.                                                               *)

LEMMA InitInv == Init => Inv
<1> SUFFICES ASSUME Init PROVE Inv
  OBVIOUS
<1>1. TypeOK
  BY InitTypeOK
<1>2. /\ pc = "idle" /\ page = 0 /\ next = 1 /\ raw = <<>> /\ todo = <<>>
      /\ outcome = "none" /\ log = <<>> /\ counts = Zero
  BY DEF Init
<1>3. ListInv
  BY <1>2 DEF ListInv
<1>4. VisitInv
  <2>1. <<>> \in Seq(InScope)
    OBVIOUS
  <2> QED
    BY <1>2, <2>1 DEF VisitInv, Visiting, AtRepo, Complete
<1>5. ReadInv
  BY <1>2 DEF ReadInv
<1>6. VerdictsAreDeserved
  <2>1. DOMAIN log = {}
    BY <1>2
  <2> QED
    BY <2>1 DEF VerdictsAreDeserved
<1>7. CountInv
  BY <1>2, CountFromZero
<1> QED
  BY <1>1, <1>3, <1>4, <1>5, <1>6, <1>7 DEF Inv

LEMMA NextInv == ASSUME Inv, [Next]_vars PROVE Inv'
  BY NextTypeOK, NextListInv, NextVisitInv, NextReadInv, NextVerdicts, NextCountInv DEF Inv

\* Whatever GitHub answers and in whatever order the installation changes, the
\* variables of a cycle keep their types: a cycle never has more pages than
\* maxListPages, and a counter never gets a label that NewMetrics did not set.
THEOREM TypeCorrect == Spec => []TypeOK
<1>1. Inv => TypeOK
  BY DEF Inv
<1> QED
  BY <1>1, InitInv, NextInv, PTL DEF Spec

\* A cycle that ends as a success, and that nobody cut short, has visited every
\* repository in scope exactly once and in the listed order, for every size of
\* installation and page: nothing is lost or read twice where two pages meet,
\* and no repository that cannot be read ends the cycle for those after it.
THEOREM NoRepositoryMissed == Spec => []InventoryComplete
<1>1. Inv => InventoryComplete
  <2> SUFFICES ASSUME Inv, outcome = "success", ~(cancelled \/ shifted \/ odd \/ capped)
               PROVE  [i \in DOMAIN log |-> log[i].repo] = mapGitHubRepos(order)
    BY DEF InventoryComplete
  <2>1. TypeOK /\ VisitInv
    BY DEF Inv
  <2>2. todo = <<>> /\ Accounted
    BY <2>1 DEF VisitInv, Visiting, AtRepo, Complete
  <2>3. log \in Seq(Entries) /\ DOMAIN log = 1..Len(log) /\ Len(log) \in Nat
    BY <2>1 DEF TypeOK, Entries
  <2> DEFINE listing == mapGitHubRepos(order)
  <2>4. listing \in Seq(Repos)
    BY <2>1, ListedType DEF TypeOK
  <2>5. Len(log) = Len(listing) /\ \A i \in 1..Len(log) : log[i].repo = listing[i]
    BY <2>2, <2>3 DEF Accounted
  <2> HIDE DEF listing
  <2>6. listing = [i \in 1..Len(listing) |-> listing[i]]
    BY <2>4
  <2>7. [i \in DOMAIN log |-> log[i].repo] = [i \in 1..Len(listing) |-> listing[i]]
    BY <2>3, <2>5
  <2> QED
    BY <2>6, <2>7, Zenon DEF listing
<1> QED
  BY <1>1, InitInv, NextInv, PTL DEF Spec

\* However requests fail, links loop and the installation shifts, no repository
\* is scanned and none is counted under a skip reason unless its own files say
\* so: what could not be read never passes for something that was read.
THEOREM VerdictsDeserved == Spec => []VerdictsAreDeserved
<1>1. Inv => VerdictsAreDeserved
  BY DEF Inv
<1> QED
  BY <1>1, InitInv, NextInv, PTL DEF Spec

\* The counters of a cycle count every verdict once, and after a success that
\* nobody cut short they and the dropped ones add up to the repositories listed.
THEOREM MetricsAddUp == Spec => []MetricsReconcile
<1>1. Inv => MetricsReconcile
  <2> SUFFICES ASSUME Inv PROVE MetricsReconcile
    OBVIOUS
  <2>1. TypeOK /\ VisitInv /\ CountInv
    BY DEF Inv
  <2>2. ASSUME outcome = "success", ~cancelled PROVE Len(log) = listed
    <3>1. todo = <<>> /\ Len(log) + Len(todo) = listed
      BY <2>1, <2>2 DEF VisitInv, Visiting, AtRepo, Complete
    <3>2. Len(log) \in Nat /\ Len(<<>>) = 0
      BY <2>1 DEF TypeOK
    <3> QED
      BY <3>1, <3>2
  <2> QED
    BY <2>1, <2>2 DEF CountInv, MetricsReconcile
<1> QED
  BY <1>1, InitInv, NextInv, PTL DEF Spec
=============================================================================
