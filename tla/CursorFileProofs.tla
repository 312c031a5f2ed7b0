--------------------------- MODULE CursorFileProofs ---------------------------
(* CursorFile keeps its invariants and implements DurableCursor. *)
EXTENDS CursorFile, TLAPS

LEMMA InitTypeOK == Init => TypeOK
  BY EmptyAssumption DEF Init, TypeOK, Contents

LEMMA NextTypeOK == TypeOK /\ [Next]_vars => TypeOK'
<1> SUFFICES ASSUME TypeOK, [Next]_vars PROVE TypeOK'
  OBVIOUS
<1> USE EmptyAssumption DEF TypeOK, Contents
<1>1. CASE CallLoad \/ Read \/ ReadFails \/ ReadTorn \/ SetAside
  BY <1>1 DEF CallLoad, Read, ReadFails, ReadTorn, SetAside, Call, Answer
<1>2. CASE CallSave \/ CreateTmp \/ WriteTmp \/ WriteTmpFails
  BY <1>2 DEF CallSave, CreateTmp, WriteTmp, WriteTmpFails, Call, Answer
<1>3. CASE RenameTmp \/ ReturnSaved \/ RenameTmpFails \/ RemoveTmp
  BY <1>3 DEF RenameTmp, ReturnSaved, RenameTmpFails, RemoveTmp, Answer
<1>4. CASE Crash \/ Damage
  BY <1>4 DEF Crash, Damage
<1>5. CASE UNCHANGED vars
  BY <1>5 DEF vars
<1> QED
  BY <1>1, <1>2, <1>3, <1>4, <1>5 DEF Next

\* The file system variables keep their types, and a rename only ever publishes
\* the complete new cursor.
THEOREM TypeCorrect == Spec => []TypeOK
  BY InitTypeOK, NextTypeOK, PTL DEF Spec

\* SaveCursor's claim: a crash mid-write never leaves a half-written file.
THEOREM NeverHalfWritten == Spec => []OnlyDamageTears
<1>1. Init => OnlyDamageTears
  BY MissingAssumption DEF Init, OnlyDamageTears
<1>2. TypeOK /\ OnlyDamageTears /\ [Next]_vars => OnlyDamageTears'
  <2> SUFFICES ASSUME TypeOK, OnlyDamageTears, [Next]_vars PROVE OnlyDamageTears'
    OBVIOUS
  <2> USE DEF OnlyDamageTears
  <2>1. CASE RenameTmp
    BY <2>1, MissingAssumption DEF RenameTmp, TypeOK
  <2>2. CASE SetAside
    BY <2>2, MissingAssumption DEF SetAside
  <2>3. CASE Damage
    BY <2>3 DEF Damage
  <2>4. ASSUME UNCHANGED <<file, damaged>> PROVE OnlyDamageTears'
    BY <2>4
  <2> QED
    BY <2>1, <2>2, <2>3, <2>4
    DEF Next, CallLoad, Read, ReadFails, ReadTorn, CallSave, CreateTmp, WriteTmp,
        WriteTmpFails, ReturnSaved, RenameTmpFails, RemoveTmp, Crash, vars
<1> QED
  BY <1>1, <1>2, TypeCorrect, PTL DEF Spec

\* Between the rename and the return nobody creates the temporary file anew.
TmpRenamed == pc = "renamed" => tmp = Missing

LEMMA NextNoTmp ==
  ASSUME TypeOK, TmpRenamed, NoTmpAfterSave, [Next]_vars
  PROVE  (TmpRenamed /\ NoTmpAfterSave)'
<1> USE DEF TmpRenamed, NoTmpAfterSave
<1>1. CASE CallLoad \/ Read \/ ReadFails \/ ReadTorn \/ SetAside
  BY <1>1 DEF CallLoad, Read, ReadFails, ReadTorn, SetAside, Call, Answer
<1>2. CASE CallSave \/ CreateTmp \/ WriteTmp \/ WriteTmpFails
  BY <1>2 DEF CallSave, CreateTmp, WriteTmp, WriteTmpFails, Call, Answer
<1>3. CASE RenameTmp \/ ReturnSaved \/ RenameTmpFails \/ RemoveTmp
  BY <1>3 DEF RenameTmp, ReturnSaved, RenameTmpFails, RemoveTmp, Answer
<1>4. CASE Crash \/ Damage \/ UNCHANGED vars
  BY <1>4 DEF Crash, Damage, vars
<1> QED
  BY <1>1, <1>2, <1>3, <1>4 DEF Next

\* A successful save leaves no temporary file, its own or an earlier one's.
THEOREM NoTmpLeft == Spec => []NoTmpAfterSave
<1>1. Init => TmpRenamed /\ NoTmpAfterSave
  BY DEF Init, TmpRenamed, NoTmpAfterSave
<1> QED
  BY <1>1, NextNoTmp, TypeCorrect, PTL DEF Spec

\* A file set aside, or about to be, is not a cursor any load would return.
AsideIsLost == pc = "set_aside" => file \notin Values

LEMMA NextAsideIsLost == TypeOK /\ AsideIsLost /\ [Next]_vars => AsideIsLost'
  BY MissingAssumption
  DEF AsideIsLost, TypeOK, Contents, Next, vars, CallLoad, Read, ReadFails, ReadTorn,
      SetAside, CallSave, CreateTmp, WriteTmp, WriteTmpFails, RenameTmp, ReturnSaved,
      RenameTmpFails, RemoveTmp, Crash, Damage, Call, Answer

\* Every step of the system calls is a step of the register, or none.
LEMMA StepRefines ==
  ASSUME TypeOK, TypeOK', AsideIsLost, [Next]_vars
  PROVE  [Abstract!Next]_(Abstract!vars)
<1> USE EmptyAssumption, MissingAssumption DEF Phase, Recoverable, Contents
<1>1. CASE CallLoad
  <2>1. Abstract!CallLoad
    BY <1>1 DEF CallLoad, Call, Abstract!CallLoad
  <2> QED
    BY <2>1 DEF Abstract!Next
<1>2. CASE Read \/ SetAside
  <2>1. Abstract!Loaded
    BY <1>2 DEF Read, SetAside, Answer, TypeOK, AsideIsLost, Abstract!Loaded
  <2> QED
    BY <2>1 DEF Abstract!Next
<1>3. CASE CallSave
  <2>1. Abstract!CallSave
    BY <1>3 DEF CallSave, Call, Abstract!CallSave
  <2> QED
    BY <2>1 DEF Abstract!Next
<1>4. CASE RenameTmp
  <2>1. Abstract!Commit
    BY <1>4 DEF RenameTmp, TypeOK, Abstract!Commit
  <2> QED
    BY <2>1 DEF Abstract!Next
<1>5. CASE ReturnSaved
  <2>1. Abstract!Saved
    BY <1>5 DEF ReturnSaved, Answer, Abstract!Saved
  <2> QED
    BY <2>1 DEF Abstract!Next
<1>6. CASE ReadFails \/ WriteTmpFails \/ RemoveTmp
  <2>1. Abstract!Failed
    BY <1>6 DEF ReadFails, WriteTmpFails, RemoveTmp, Answer, Abstract!Failed
  <2> QED
    BY <2>1 DEF Abstract!Next
<1>7. CASE Crash
  <2>1. Abstract!Crash
    BY <1>7 DEF Crash, Abstract!Crash
  <2> QED
    BY <2>1 DEF Abstract!Next
<1>8. CASE Damage
  <2>1. Abstract!Damage
    BY <1>8 DEF Damage, Abstract!Damage
  <2> QED
    BY <2>1 DEF Abstract!Next
<1>9. CASE ReadTorn \/ CreateTmp \/ WriteTmp \/ RenameTmpFails \/ UNCHANGED vars
  BY <1>9 DEF ReadTorn, CreateTmp, WriteTmp, RenameTmpFails, vars, Abstract!vars
<1> QED
  BY <1>1, <1>2, <1>3, <1>4, <1>5, <1>6, <1>7, <1>8, <1>9 DEF Next

\* LoadCursor and SaveCursor implement the atomic register VulnWatcher uses.
THEOREM Refinement == Spec => ImplementsDurableCursor
<1>1. Init => Abstract!Init
  BY EmptyAssumption, MissingAssumption
  DEF Init, Abstract!Init, Phase, Recoverable
<1>2. Init => AsideIsLost
  BY DEF Init, AsideIsLost
<1>3. Spec => []AsideIsLost
  BY <1>2, NextAsideIsLost, TypeCorrect, PTL DEF Spec
<1> QED
  BY <1>1, <1>3, StepRefines, TypeCorrect, PTL
  DEF Spec, ImplementsDurableCursor, Abstract!Spec
=============================================================================
