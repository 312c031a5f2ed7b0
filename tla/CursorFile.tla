------------------------------ MODULE CursorFile ------------------------------
(***************************************************************************)
(* LoadCursor and SaveCursor against the file system, one system call per  *)
(* step: the cursor file, its .tmp and its .corrupt sibling.  The process  *)
(* may crash between any two steps (what it wrote stays), every call may   *)
(* fail, and the file may be damaged or removed from outside.              *)
(*                                                                         *)
(* Marshalling is left out: a map of strings always marshals, and JSON     *)
(* without a repos key is the empty cursor.                                *)
(***************************************************************************)
CONSTANTS
  Values,   \* the cursors: what a well-formed file can hold
  Empty,    \* the cursor without entries
  Missing,  \* there is no such file
  Torn      \* the file holds something that is not JSON

ASSUME EmptyAssumption   == Empty \in Values
ASSUME MissingAssumption == Missing \notin Values /\ Torn \notin Values \cup {Missing}

VARIABLES
  file,     \* <path>
  tmp,      \* <path>.tmp
  corrupt,  \* <path>.corrupt
  pc,       \* the next system call
  cursor,   \* the cursor in the caller's memory
  reply,    \* the answer to the last call
  damaged   \* history: the file is as an outsider left it

vars == <<file, tmp, corrupt, pc, cursor, reply, damaged>>

Contents == Values \cup {Missing, Torn}

Init ==
  /\ file = Missing
  /\ tmp = Missing
  /\ corrupt = Missing
  /\ pc = "idle"
  /\ cursor = Empty
  /\ reply = "none"
  /\ damaged = FALSE

Call(label) ==
  /\ pc = "idle"
  /\ pc' = label
  /\ reply' = "none"

Answer(answer) ==
  /\ pc' = "idle"
  /\ reply' = answer

-----------------------------------------------------------------------------
CallLoad ==
  /\ Call("read")
  /\ UNCHANGED <<file, tmp, corrupt, cursor, damaged>>

\* A well-formed file, or none: a cold start.
Read ==
  /\ pc = "read"
  /\ file # Torn
  /\ cursor' = IF file = Missing THEN Empty ELSE file
  /\ Answer("loaded")
  /\ UNCHANGED <<file, tmp, corrupt, damaged>>

ReadFails ==
  /\ pc = "read"
  /\ Answer("failed")
  /\ UNCHANGED <<file, tmp, corrupt, cursor, damaged>>

ReadTorn ==
  /\ pc = "read"
  /\ file = Torn
  /\ pc' = "set_aside"
  /\ UNCHANGED <<file, tmp, corrupt, cursor, reply, damaged>>

\* The load cold-starts whether or not the rename to .corrupt succeeds.
SetAside ==
  /\ pc = "set_aside"
  /\ \/ file # Missing /\ corrupt' = file /\ file' = Missing /\ damaged' = FALSE
     \/ UNCHANGED <<file, corrupt, damaged>>
  /\ cursor' = Empty
  /\ Answer("loaded")
  /\ UNCHANGED tmp

-----------------------------------------------------------------------------
\* The caller has brought its cursor up to date and saves it.
CallSave ==
  /\ Call("create")
  /\ cursor' \in Values
  /\ UNCHANGED <<file, tmp, corrupt, damaged>>

\* Mutant: the file is written in place.
CreateTmp_InPlace ==
  /\ pc = "create"
  /\ file' = Torn
  /\ pc' = "write"
  /\ UNCHANGED <<tmp, corrupt, cursor, reply, damaged>>

\* os.WriteFile opens and truncates the temporary file ...
CreateTmp ==
  /\ pc = "create"
  /\ tmp' = Torn
  /\ pc' = "write"
  /\ UNCHANGED <<file, corrupt, cursor, reply, damaged>>

\* Mutant: a short write goes unnoticed.
WriteTmp_Short ==
  /\ pc = "write"
  /\ pc' = "rename"
  /\ UNCHANGED <<file, tmp, corrupt, cursor, reply, damaged>>

\* ... and fills it.
WriteTmp ==
  /\ pc = "write"
  /\ tmp' = cursor
  /\ pc' = "rename"
  /\ UNCHANGED <<file, corrupt, cursor, reply, damaged>>

\* The error is returned; a temporary file already created is left behind.
WriteTmpFails ==
  /\ pc \in {"create", "write"}
  /\ Answer("failed")
  /\ UNCHANGED <<file, tmp, corrupt, cursor, damaged>>

\* Mutant: the temporary file is copied instead of renamed.
RenameTmp_Copies ==
  /\ pc = "rename"
  /\ file' = tmp
  /\ damaged' = FALSE
  /\ pc' = "renamed"
  /\ UNCHANGED <<tmp, corrupt, cursor, reply>>

RenameTmp ==
  /\ pc = "rename"
  /\ file' = tmp
  /\ tmp' = Missing
  /\ damaged' = FALSE
  /\ pc' = "renamed"
  /\ UNCHANGED <<corrupt, cursor, reply>>

ReturnSaved ==
  /\ pc = "renamed"
  /\ Answer("saved")
  /\ UNCHANGED <<file, tmp, corrupt, cursor, damaged>>

\* Mutant: a failed rename is not reported.
RenameTmpFails_Unreported ==
  /\ pc = "rename"
  /\ pc' = "renamed"
  /\ UNCHANGED <<file, tmp, corrupt, cursor, reply, damaged>>

RenameTmpFails ==
  /\ pc = "rename"
  /\ pc' = "remove"
  /\ UNCHANGED <<file, tmp, corrupt, cursor, reply, damaged>>

\* The temporary file is removed if it can be; the rename's error is returned.
RemoveTmp ==
  /\ pc = "remove"
  /\ tmp' \in {tmp, Missing}
  /\ Answer("failed")
  /\ UNCHANGED <<file, corrupt, cursor, damaged>>

-----------------------------------------------------------------------------
Crash ==
  /\ pc # "idle"
  /\ pc' = "idle"
  /\ cursor' = Empty
  /\ reply' = "none"
  /\ UNCHANGED <<file, tmp, corrupt, damaged>>

\* The file is overwritten with garbage, or removed.
Damage ==
  /\ file' \in {Torn, Missing}
  /\ damaged' = TRUE
  /\ UNCHANGED <<tmp, corrupt, pc, cursor, reply>>

Next ==
  \/ CallLoad \/ Read \/ ReadFails \/ ReadTorn \/ SetAside
  \/ CallSave \/ CreateTmp \/ WriteTmp \/ WriteTmpFails
  \/ RenameTmp \/ ReturnSaved \/ RenameTmpFails \/ RemoveTmp
  \/ Crash \/ Damage

Spec == Init /\ [][Next]_vars

-----------------------------------------------------------------------------
\* Types; and what is about to be renamed is the complete new cursor.
TypeOK ==
  /\ file \in Contents
  /\ tmp \in Contents
  /\ corrupt \in Contents
  /\ pc \in {"idle", "read", "set_aside", "create", "write", "rename", "renamed",
             "remove"}
  /\ cursor \in Values
  /\ reply \in {"none", "loaded", "saved", "failed"}
  /\ damaged \in BOOLEAN
  /\ pc = "rename" => tmp = cursor

\* No crash and no failed call leaves a half-written cursor file: only an
\* outsider's damage is ever set aside as .corrupt.
OnlyDamageTears == file = Torn => damaged

\* No .tmp file survives a successful save, not even one that an earlier crash
\* or failed save had left behind.
NoTmpAfterSave == pc = "idle" /\ reply = "saved" => tmp = Missing

Recoverable == IF file \in Values THEN file ELSE Empty
Phase == CASE pc = "idle" -> "idle"
           [] pc \in {"read", "set_aside"} -> "loading"
           [] pc \in {"create", "write", "rename", "remove"} -> "saving"
           [] pc = "renamed" -> "committed"

Abstract == INSTANCE DurableCursor WITH disk <- Recoverable, phase <- Phase

\* The sequence of system calls is one atomic register to the poll cycle, whatever
\* crashes between them.
ImplementsDurableCursor == Abstract!Spec
=============================================================================
