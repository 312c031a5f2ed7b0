------------------------------ MODULE MCInventory ------------------------------
(* A small instance of Inventory for TLC. *)
EXTENDS Inventory

Good == [archived |-> FALSE, foreign |-> FALSE, misnamed |-> FALSE,
         allowed |-> TRUE, gomod |-> "present", config |-> "true"]

\* An eligible repository and every one with a single fault, ...
OneFault ==
  {Good}
    \cup {[Good EXCEPT !.archived = TRUE], [Good EXCEPT !.foreign = TRUE],
          [Good EXCEPT !.misnamed = TRUE], [Good EXCEPT !.allowed = FALSE]}
    \cup {[Good EXCEPT !.gomod = g] : g \in GoMods}
    \cup {[Good EXCEPT !.config = c] : c \in Configs}

\* ... and those two filters or both reads object to.
TwoFaults ==
  {[Good EXCEPT !.allowed = FALSE, !.config = "absent"],
   [Good EXCEPT !.allowed = FALSE, !.gomod = "absent"],
   [Good EXCEPT !.gomod = "absent", !.config = "false"],
   [Good EXCEPT !.gomod = "unreadable", !.config = "broken"]}

\* One repository is eligible, the other anything.
SomeHubs ==
  {h \in [Repos -> OneFault \cup TwoFaults] : \E r \in Repos : h[r] = Good}
=============================================================================
