---------------------------- MODULE MCVulnWatcher ----------------------------
(* Small instances of VulnWatcher for TLC. *)
EXTENDS VulnWatcher, TLC

\* Every slice of at most two repositories: incomplete ones, both orders, and
\* the duplicates a page shift during the listing can produce.
UpToTwo == {<<>>} \cup {<<r>> : r \in Repos} \cup (Repos \X Repos)

RateLimitOnly == {"rate_limit"}

SafetySymmetry == Permutations(Triggers) \cup Permutations(Ids) \cup Permutations(Repos)
=============================================================================
