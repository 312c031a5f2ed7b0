---------------------------- MODULE DurableCursor ----------------------------
(***************************************************************************)
(* What the poll cycle is promised of the cursor file: one register that a *)
(* load reads and a save replaces in a single step or not at all.  A save  *)
(* that reports an error has changed nothing; one that is cut off by a     *)
(* crash may or may not have happened.  Damage from outside empties it.    *)
(***************************************************************************)
CONSTANTS Values, Empty

VARIABLES
  disk,     \* the cursor a load would return
  phase,    \* "idle", "loading", "saving", "committed"
  cursor,   \* the cursor in the caller's memory
  reply     \* the answer to the last call: "none", "loaded", "saved", "failed"

vars == <<disk, phase, cursor, reply>>

Init ==
  /\ disk \in Values
  /\ phase = "idle"
  /\ cursor = Empty
  /\ reply = "none"

CallLoad ==
  /\ phase = "idle"
  /\ phase' = "loading"
  /\ reply' = "none"
  /\ UNCHANGED <<disk, cursor>>

CallSave ==
  /\ phase = "idle"
  /\ phase' = "saving"
  /\ cursor' \in Values
  /\ reply' = "none"
  /\ UNCHANGED disk

Loaded ==
  /\ phase = "loading"
  /\ phase' = "idle"
  /\ cursor' = disk
  /\ reply' = "loaded"
  /\ UNCHANGED disk

Commit ==
  /\ phase = "saving"
  /\ phase' = "committed"
  /\ disk' = cursor
  /\ UNCHANGED <<cursor, reply>>

Saved ==
  /\ phase = "committed"
  /\ phase' = "idle"
  /\ reply' = "saved"
  /\ UNCHANGED <<disk, cursor>>

Failed ==
  /\ phase \in {"loading", "saving"}
  /\ phase' = "idle"
  /\ reply' = "failed"
  /\ UNCHANGED <<disk, cursor>>

Crash ==
  /\ phase' = "idle"
  /\ cursor' = Empty
  /\ reply' = "none"
  /\ UNCHANGED disk

Damage ==
  /\ disk' = Empty
  /\ UNCHANGED <<phase, cursor, reply>>

Next ==
  \/ CallLoad \/ CallSave \/ Loaded \/ Commit \/ Saved \/ Failed
  \/ Crash \/ Damage

Spec == Init /\ [][Next]_vars
=============================================================================
