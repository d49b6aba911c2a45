----------------------------- MODULE OpenProofs -----------------------------
(***************************************************************************)
(* Proofs about Open, for any number of processes.                         *)
(***************************************************************************)
EXTENDS Open, TLAPS

\* What holds of the file at rest: a version comes with its shape and a whole
\* header, and a file without one is new.
FileOK ==
  /\ file.version = 0 => file.shape \in {0, SCHEMA_VERSION} /\ ~file.dangling /\ file.migrated = 0
  /\ file.version # 0 => file.there /\ file.shape = file.version /\ file.salt # 0
  /\ file.salt = file.verifier
  /\ file.dangling => file.migrated = 0

\* What a process knows of the file, by how far it got.
Creating == {"connect", "create", "header"}
Migrating == {"migrate", "rebuild", "recheck"}
ProcOK(p) ==
  /\ proc[p].pc \in Creating => file.version \in {0, SCHEMA_VERSION}
  /\ proc[p].pc \in {"create", "header"} => file.there
  /\ proc[p].pc = "header" => file.shape = SCHEMA_VERSION
  /\ proc[p].pc \in Migrating => file.version \in {1, SCHEMA_VERSION}
  /\ proc[p].pc = "rebuild" /\ file.version # SCHEMA_VERSION => proc[p].snap = file
  /\ proc[p].pc = "recheck" => lock = p /\ proc[p].snap = file
  /\ proc[p].pc \in InUse => file.version = SCHEMA_VERSION

IInv == TypeOK /\ FileOK /\ \A p \in Proc : ProcOK(p)

\* The rows of nobody and of nothing are typed.
LEMMA ConstantsTyped == NoFile \in Files /\ Gone \in Procs
  BY OpenConstants DEF NoFile, Gone, Files, Procs, Epoch, Versions, SCHEMA_VERSION, Pcs, Causes

\* What Goto and Refuse do to the processes.
LEMMA GotoEffect ==
  ASSUME TypeOK, NEW p \in Proc, NEW pc \in Pcs, Goto(p, pc)
  PROVE  /\ proc' \in [Proc -> Procs]
         /\ proc'[p].pc = pc /\ proc'[p].snap = proc[p].snap /\ proc'[p].cause = proc[p].cause
         /\ \A q \in Proc \ {p} : proc'[q] = proc[q]
  BY DEF TypeOK, Goto, Procs

\* So does a process that is refused.
LEMMA RefuseEffect ==
  ASSUME TypeOK, NEW p \in Proc, NEW why \in Causes, Refuse(p, why)
  PROVE  /\ proc' \in [Proc -> Procs]
         /\ proc'[p].pc = "refused" /\ proc'[p].snap = proc[p].snap /\ proc'[p].cause = why
         /\ \A q \in Proc \ {p} : proc'[q] = proc[q]
  BY DEF TypeOK, Refuse, Procs, Pcs

\* The way an open goes, version by version.
LEMMA AfterVersions ==
  /\ AfterVersion(0) = "no format" /\ AfterVersion(1) = "migrate"
  /\ AfterVersion(2) = "salt" /\ AfterVersion(3) = "newer"
  BY DEF AfterVersion, SCHEMA_VERSION

\* The invariant holds of a file as any release leaves it.
LEMMA InitInv == Init => IInv
<1> SUFFICES ASSUME Init PROVE IInv
  OBVIOUS
<1>1. file \in Files
  <2>1. CASE file = NoFile
    BY <2>1, ConstantsTyped
  <2>2. CASE file # NoFile
    <3>1. PICK v \in 1..(SCHEMA_VERSION + 1), r \in SUBSET Row, d \in BOOLEAN :
            file = [there |-> TRUE, shape |-> v, version |-> v, salt |-> 1, verifier |-> 1,
                    rows |-> r, migrated |-> 0, dangling |-> d]
      BY <2>2 DEF Init
    <3>2. v \in Versions /\ 1 \in Epoch /\ 0 \in Nat
      BY OpenConstants DEF Epoch, Versions
    <3> QED BY <3>1, <3>2 DEF Files
  <2> QED BY <2>1, <2>2
<1>2. TypeOK
  BY <1>1, ConstantsTyped DEF Init, TypeOK
<1>3. FileOK
  BY DEF Init, FileOK, NoFile, SCHEMA_VERSION
<1>4. \A p \in Proc : ProcOK(p)
  BY DEF Init, ProcOK, Gone, Creating, Migrating, InUse
<1> QED BY <1>2, <1>3, <1>4 DEF IInv

\* And every step of every process keeps it.
LEMMA NextInv == IInv /\ [Next]_vars => IInv'
<1> SUFFICES ASSUME IInv, [Next]_vars PROVE IInv'
  OBVIOUS
<1>0. TypeOK /\ FileOK /\ \A p \in Proc : ProcOK(p)
  BY DEF IInv
<1>1. ASSUME NEW p \in Proc, CreateCheck(p) PROVE IInv'
  <2>2. /\ proc' \in [Proc -> Procs]
        /\ \A q \in Proc \ {p} : proc'[q] = proc[q]
    BY <1>0, <1>1, GotoEffect, RefuseEffect DEF CreateCheck, Pcs, Causes
  <2>3. TypeOK'
    BY <1>0, <1>1, <2>2 DEF TypeOK, CreateCheck
  <2>4. FileOK'
    BY <1>0, <1>1 DEF FileOK, CreateCheck
  <2>5. ProcOK(p)'
    BY <1>0, <1>1, GotoEffect, RefuseEffect
       DEF ProcOK, FileOK, CreateCheck, Creating, Migrating, InUse, Pcs, Causes
  <2>6. ASSUME NEW q \in Proc \ {p} PROVE ProcOK(q)'
    BY <1>0, <1>1, <2>2 DEF ProcOK, CreateCheck
  <2> QED BY <2>3, <2>4, <2>5, <2>6 DEF IInv
<1>2. ASSUME NEW p \in Proc, CreateFile(p) PROVE IInv'
  <2>0. file.there => file' = file
    BY <1>0, <1>2 DEF CreateFile, TypeOK, Files
  <2>1. file' \in Files
    BY <1>0, <1>2 DEF CreateFile, TypeOK, Files
  <2>2. /\ proc' \in [Proc -> Procs]
        /\ \A q \in Proc \ {p} : proc'[q] = proc[q]
    BY <1>0, <1>2, GotoEffect DEF CreateFile, Pcs
  <2>3. TypeOK'
    BY <1>0, <1>2, <2>1, <2>2 DEF TypeOK, CreateFile
  <2>4. FileOK'
    BY <1>0, <1>2 DEF FileOK, CreateFile
  <2>5. ProcOK(p)'
    BY <1>0, <1>2, GotoEffect
       DEF ProcOK, CreateFile, Creating, Migrating, InUse, TypeOK, Files, Pcs
  <2>6. ASSUME NEW q \in Proc \ {p} PROVE ProcOK(q)'
    <3>1. CASE file.there
      BY <1>0, <1>2, <2>0, <2>2, <3>1 DEF ProcOK, CreateFile
    <3>2. CASE ~file.there
      <4>1. file.version = 0 /\ file'.version = 0 /\ file'.there /\ file'.shape = file.shape
        BY <1>0, <1>2, <3>2 DEF FileOK, CreateFile
      <4> QED BY <1>0, <1>2, <2>2, <4>1 DEF ProcOK, CreateFile, Migrating, SCHEMA_VERSION
    <3> QED BY <3>1, <3>2
  <2> QED BY <2>3, <2>4, <2>5, <2>6 DEF IInv
<1>3. ASSUME NEW p \in Proc, CreateTables(p) PROVE IInv'
  <2>1. file' \in Files
    BY <1>0, <1>3 DEF CreateTables, TypeOK, Versions, SCHEMA_VERSION, Files
  <2>2. /\ proc' \in [Proc -> Procs]
        /\ \A q \in Proc \ {p} : proc'[q] = proc[q]
    BY <1>0, <1>3, GotoEffect DEF CreateTables, Pcs
  <2>3. TypeOK'
    BY <1>0, <1>3, <2>1, <2>2 DEF TypeOK, CreateTables
  <2>4. FileOK'
    BY <1>0, <1>3 DEF FileOK, CreateTables
  <2>5. ProcOK(p)'
    BY <1>0, <1>3, GotoEffect
       DEF ProcOK, FileOK, CreateTables, Creating, Migrating, InUse, TypeOK, Files, Pcs
  <2>6. ASSUME NEW q \in Proc \ {p} PROVE ProcOK(q)'
    BY <1>0, <1>3, <2>2, OpenConstants
       DEF ProcOK, CreateTables, Writable, Creating, Migrating, SCHEMA_VERSION
  <2> QED BY <2>3, <2>4, <2>5, <2>6 DEF IInv
<1>4. ASSUME NEW p \in Proc, CreateHeader(p) PROVE IInv'
  <2>0. file.salt + 1 \in Epoch
    BY <1>0, <1>4, OpenConstants DEF CreateHeader, TypeOK, Files, Epoch
  <2>1. file' \in Files
    <3>1. SCHEMA_VERSION \in Versions
      BY DEF SCHEMA_VERSION, Versions
    <3> QED BY <1>0, <1>4, <2>0, <3>1 DEF CreateHeader, TypeOK, Files
  <2>2. /\ proc' \in [Proc -> Procs]
        /\ \A q \in Proc \ {p} : proc'[q] = proc[q]
    BY <1>0, <1>4, GotoEffect DEF CreateHeader, Pcs
  <2>3. TypeOK'
    BY <1>0, <1>4, <2>1, <2>2 DEF TypeOK, CreateHeader
  <2>4. FileOK'
    BY <1>0, <1>4 DEF FileOK, ProcOK, CreateHeader, TypeOK, Files, Epoch
  <2>5. ProcOK(p)'
    BY <1>0, <1>4, GotoEffect DEF ProcOK, CreateHeader, TypeOK, Files, Pcs
  <2>6. ASSUME NEW q \in Proc \ {p} PROVE ProcOK(q)'
    BY <1>0, <1>4, <2>2, OpenConstants
       DEF ProcOK, CreateHeader, Writable, Creating, SCHEMA_VERSION
  <2> QED BY <2>3, <2>4, <2>5, <2>6 DEF IInv
<1>5. ASSUME NEW p \in Proc, OpenVersion(p) PROVE IInv'
  <2>0. \/ \E why \in {"no such file", "no format"} : Refuse(p, why)
        \/ file.version > SCHEMA_VERSION /\ Refuse(p, "newer")
        \/ file.version = SCHEMA_VERSION /\ Goto(p, "salt")
        \/ file.version = 1 /\ Goto(p, "migrate")
    <3>1. file.version \in {0, 1, 2, 3}
      BY <1>0 DEF TypeOK, Files, Versions, SCHEMA_VERSION
    <3>2. CASE ~file.there
      BY <1>5, <3>2 DEF OpenVersion, Causes
    <3>3. CASE file.there /\ file.version = 0
      BY <1>5, <3>3, AfterVersions DEF OpenVersion, Causes
    <3>4. CASE file.there /\ file.version = 1
      BY <1>5, <3>4, AfterVersions DEF OpenVersion, Causes
    <3>5. CASE file.there /\ file.version = 2
      BY <1>5, <3>5, AfterVersions DEF OpenVersion, Causes, SCHEMA_VERSION
    <3>6. CASE file.there /\ file.version = 3
      <4>1. file.version > SCHEMA_VERSION
        BY <3>6 DEF SCHEMA_VERSION
      <4>2. Refuse(p, "newer")
        BY <1>5, <3>6, AfterVersions DEF OpenVersion, Causes
      <4> QED BY <4>1, <4>2
    <3> QED BY <3>1, <3>2, <3>3, <3>4, <3>5, <3>6
  <2>2. /\ proc' \in [Proc -> Procs]
        /\ \A q \in Proc \ {p} : proc'[q] = proc[q]
    BY <1>0, <2>0, GotoEffect, RefuseEffect DEF Pcs, Causes
  <2>3. TypeOK'
    BY <1>0, <1>5, <2>2 DEF TypeOK, OpenVersion
  <2>4. FileOK'
    BY <1>0, <1>5 DEF FileOK, OpenVersion
  <2>5. ProcOK(p)'
    BY <1>0, <1>5, <2>0, GotoEffect, RefuseEffect
       DEF ProcOK, OpenVersion, Creating, Migrating, InUse, Pcs, Causes
  <2>6. ASSUME NEW q \in Proc \ {p} PROVE ProcOK(q)'
    BY <1>0, <1>5, <2>2 DEF ProcOK, OpenVersion
  <2> QED BY <2>3, <2>4, <2>5, <2>6 DEF IInv
<1>6. ASSUME NEW p \in Proc, MigrateBegin(p) PROVE IInv'
  <2>2. /\ proc' \in [Proc -> Procs]
        /\ \A q \in Proc \ {p} : proc'[q] = proc[q]
    BY <1>0, <1>6 DEF MigrateBegin, TypeOK, Procs, Pcs
  <2>3. TypeOK'
    BY <1>0, <1>6, <2>2 DEF TypeOK, MigrateBegin
  <2>4. FileOK'
    BY <1>0, <1>6 DEF FileOK, MigrateBegin
  <2>5. ProcOK(p)'
    BY <1>0, <1>6, <2>2 DEF ProcOK, MigrateBegin, Creating, Migrating, InUse
  <2>6. ASSUME NEW q \in Proc \ {p} PROVE ProcOK(q)'
    BY <1>0, <1>6, <2>2 DEF ProcOK, MigrateBegin
  <2> QED BY <2>3, <2>4, <2>5, <2>6 DEF IInv
<1>7. ASSUME NEW p \in Proc, MigrateWrite(p) PROVE IInv'
  <2>2. /\ proc' \in [Proc -> Procs]
        /\ \A q \in Proc \ {p} : proc'[q] = proc[q]
    BY <1>0, <1>7, GotoEffect, RefuseEffect DEF MigrateWrite, Pcs, Causes
  <2>3. TypeOK'
    BY <1>0, <1>7, <2>2 DEF TypeOK, MigrateWrite
  <2>4. FileOK'
    BY <1>0, <1>7 DEF FileOK, MigrateWrite
  <2>5. ProcOK(p)'
    BY <1>0, <1>7, GotoEffect, RefuseEffect
       DEF ProcOK, MigrateWrite, Addable, Current, Creating, Migrating, InUse, Pcs, Causes
  <2>6. ASSUME NEW q \in Proc \ {p} PROVE ProcOK(q)'
    BY <1>0, <1>7, <2>2, OpenConstants DEF ProcOK, MigrateWrite, Writable
  <2> QED BY <2>3, <2>4, <2>5, <2>6 DEF IInv
<1>8. ASSUME NEW p \in Proc, MigrateCommit(p) PROVE IInv'
  <2>1. proc[p].snap = file /\ lock = p /\ file.version \in {1, SCHEMA_VERSION}
    BY <1>0, <1>8 DEF MigrateCommit, ProcOK, Migrating
  <2>2. lock' = Nobody /\ \A q \in Proc \ {p} : proc[q].pc # "recheck"
    BY <1>0, <1>8 DEF MigrateCommit, ProcOK
  <2>3. CASE ~KeysHold(file)
    <3>1. Refuse(p, "migration") /\ file' = file /\ file.dangling
      BY <1>8, <2>1, <2>3 DEF MigrateCommit, KeysHold
    <3>2. /\ proc' \in [Proc -> Procs]
          /\ proc'[p].pc = "refused" /\ proc'[p].cause = "migration"
          /\ \A q \in Proc \ {p} : proc'[q] = proc[q]
      BY <1>0, <3>1, RefuseEffect DEF Causes
    <3>3. TypeOK' /\ FileOK'
      BY <1>0, <2>2, <3>1, <3>2 DEF TypeOK, FileOK
    <3>4. ProcOK(p)'
      BY <3>1, <3>2 DEF ProcOK, Creating, Migrating, InUse
    <3>5. ASSUME NEW q \in Proc \ {p} PROVE ProcOK(q)'
      BY <1>0, <2>2, <3>1, <3>2 DEF ProcOK
    <3> QED BY <3>3, <3>4, <3>5 DEF IInv
  <2>4. CASE KeysHold(file)
    <3>1. /\ file' = [Rebuilt(file) EXCEPT !.version = SCHEMA_VERSION, !.migrated = @ + 1]
          /\ proc' = [proc EXCEPT ![p].pc = "salt", ![p].snap = NoFile]
      BY <1>8, <2>1, <2>4 DEF MigrateCommit
    <3>2. /\ file' \in Files /\ ~file'.dangling
          /\ file'.version = SCHEMA_VERSION /\ file'.shape = SCHEMA_VERSION
          /\ file'.there = file.there /\ file'.salt = file.salt /\ file'.verifier = file.verifier
      <4>1. SCHEMA_VERSION \in Versions
        BY DEF SCHEMA_VERSION, Versions
      <4>2. /\ Rebuilt(file) \in Files /\ Rebuilt(file).dangling = file.dangling
            /\ Rebuilt(file).shape = SCHEMA_VERSION /\ Rebuilt(file).there = file.there
            /\ Rebuilt(file).salt = file.salt /\ Rebuilt(file).verifier = file.verifier
        BY <1>0, <4>1 DEF Rebuilt, TypeOK, Files
      <4>3. \A f \in Files : [f EXCEPT !.version = SCHEMA_VERSION, !.migrated = @ + 1] \in Files
        <5> TAKE f \in Files
        <5>1. f.migrated + 1 \in Nat
          BY DEF Files
        <5> QED BY <4>1, <5>1 DEF Files
      <4> QED BY <2>4, <3>1, <4>2, <4>3 DEF KeysHold, Files
    <3>3. /\ proc' \in [Proc -> Procs] /\ proc'[p].pc = "salt"
          /\ \A q \in Proc \ {p} : proc'[q] = proc[q]
      BY <1>0, <3>1, ConstantsTyped DEF TypeOK, Procs, Pcs
    <3>4. TypeOK' /\ FileOK'
      BY <1>0, <2>1, <2>2, <3>2, <3>3 DEF TypeOK, FileOK, SCHEMA_VERSION
    <3>5. ProcOK(p)'
      BY <3>2, <3>3 DEF ProcOK
    <3>6. ASSUME NEW q \in Proc \ {p} PROVE ProcOK(q)'
      <4>1. file.there
        BY <1>0, <2>1 DEF FileOK, SCHEMA_VERSION
      <4> QED BY <2>2, <3>2, <3>3, <4>1 DEF ProcOK
    <3> QED BY <3>4, <3>5, <3>6 DEF IInv
  <2> QED BY <2>3, <2>4
<1>9. ASSUME NEW p \in Proc, ReadSalt(p) PROVE IInv'
  <2>2. /\ proc' \in [Proc -> Procs]
        /\ \A q \in Proc \ {p} : proc'[q] = proc[q]
    BY <1>0, <1>9, ConstantsTyped DEF ReadSalt, TypeOK, Procs, Pcs, Files
  <2>3. TypeOK'
    BY <1>0, <1>9, <2>2 DEF TypeOK, ReadSalt
  <2>4. FileOK'
    BY <1>0, <1>9 DEF FileOK, ReadSalt
  <2>5. ProcOK(p)'
    BY <1>0, <1>9, <2>2 DEF ProcOK, ReadSalt, InUse
  <2>6. ASSUME NEW q \in Proc \ {p} PROVE ProcOK(q)'
    BY <1>0, <1>9, <2>2 DEF ProcOK, ReadSalt
  <2> QED BY <2>3, <2>4, <2>5, <2>6 DEF IInv
<1>10. ASSUME NEW p \in Proc, ReadVerifier(p) PROVE IInv'
  <2>2. /\ proc' \in [Proc -> Procs]
        /\ \A q \in Proc \ {p} : proc'[q] = proc[q]
    BY <1>0, <1>10, ConstantsTyped DEF ReadVerifier, TypeOK, Procs, Pcs, Files
  <2>3. TypeOK'
    BY <1>0, <1>10, <2>2 DEF TypeOK, ReadVerifier
  <2>4. FileOK'
    BY <1>0, <1>10 DEF FileOK, ReadVerifier
  <2>5. ProcOK(p)'
    BY <1>0, <1>10, <2>2 DEF ProcOK, ReadVerifier, InUse
  <2>6. ASSUME NEW q \in Proc \ {p} PROVE ProcOK(q)'
    BY <1>0, <1>10, <2>2 DEF ProcOK, ReadVerifier
  <2> QED BY <2>3, <2>4, <2>5, <2>6 DEF IInv
<1>11. ASSUME NEW p \in Proc, Unseal(p) PROVE IInv'
  <2>2. /\ proc' \in [Proc -> Procs]
        /\ \A q \in Proc \ {p} : proc'[q] = proc[q]
    BY <1>0, <1>11, GotoEffect, RefuseEffect DEF Unseal, Pcs, Causes
  <2>3. TypeOK'
    BY <1>0, <1>11, <2>2 DEF TypeOK, Unseal
  <2>4. FileOK'
    BY <1>0, <1>11 DEF FileOK, Unseal
  <2>5. ProcOK(p)'
    BY <1>0, <1>11, GotoEffect, RefuseEffect DEF ProcOK, Unseal, InUse, Pcs, Causes
  <2>6. ASSUME NEW q \in Proc \ {p} PROVE ProcOK(q)'
    BY <1>0, <1>11, <2>2 DEF ProcOK, Unseal
  <2> QED BY <2>3, <2>4, <2>5, <2>6 DEF IInv
<1>12. ASSUME NEW p \in Proc, Work(p) PROVE IInv'
  <2>1. file' \in Files
    BY <1>0, <1>12 DEF Work, TypeOK, Files
  <2>2. /\ proc' \in [Proc -> Procs]
        /\ \A q \in Proc \ {p} : proc'[q] = proc[q]
    BY <1>0, <1>12 DEF Work, TypeOK
  <2>3. TypeOK'
    BY <1>0, <1>12, <2>1 DEF TypeOK, Work
  <2>4. FileOK'
    BY <1>0, <1>12 DEF FileOK, Work
  <2>5. ProcOK(p)'
    BY <1>0, <1>12 DEF ProcOK, Work
  <2>6. ASSUME NEW q \in Proc \ {p} PROVE ProcOK(q)'
    BY <1>0, <1>12, OpenConstants DEF ProcOK, Work, Writable, InUse
  <2> QED BY <2>3, <2>4, <2>5, <2>6 DEF IInv
<1>13. ASSUME NEW p \in Proc, Rotate(p) PROVE IInv'
  <2>0. file.salt + 1 \in Epoch
    BY <1>0, <1>13, OpenConstants DEF Rotate, TypeOK, Files, Epoch
  <2>1. file' \in Files
    BY <1>0, <1>13, <2>0 DEF Rotate, TypeOK, Files
  <2>2. /\ proc' \in [Proc -> Procs]
        /\ \A q \in Proc \ {p} : proc'[q] = proc[q]
    BY <1>0, <1>13, <2>0 DEF Rotate, TypeOK, Procs
  <2>3. TypeOK'
    BY <1>0, <1>13, <2>1, <2>2 DEF TypeOK, Rotate
  <2>4. FileOK'
    BY <1>0, <1>13 DEF FileOK, Rotate, TypeOK, Files, Epoch
  <2>5. ProcOK(p)'
    BY <1>0, <1>13, <2>2 DEF ProcOK, Rotate
  <2>6. ASSUME NEW q \in Proc \ {p} PROVE ProcOK(q)'
    BY <1>0, <1>13, <2>2, OpenConstants DEF ProcOK, Rotate, Writable, InUse
  <2> QED BY <2>3, <2>4, <2>5, <2>6 DEF IInv
<1>14. ASSUME NEW p \in Proc, End(p) PROVE IInv'
  <2>2. /\ proc' \in [Proc -> Procs]
        /\ \A q \in Proc \ {p} : proc'[q] = proc[q]
    BY <1>0, <1>14, ConstantsTyped DEF End, TypeOK
  <2>3. TypeOK'
    BY <1>0, <1>14, <2>2 DEF TypeOK, End
  <2>4. FileOK'
    BY <1>0, <1>14 DEF FileOK, End
  <2>5. ProcOK(p)'
    BY <1>14, <2>2 DEF ProcOK, End, Creating, Migrating, InUse, Gone
  <2>6. ASSUME NEW q \in Proc \ {p} PROVE ProcOK(q)'
    BY <1>0, <1>14 DEF ProcOK, End
  <2> QED BY <2>3, <2>4, <2>5, <2>6 DEF IInv
<1>15. CASE UNCHANGED vars
  BY <1>15 DEF vars, IInv, TypeOK, FileOK, ProcOK
<1> QED
  BY <1>1, <1>2, <1>3, <1>4, <1>5, <1>6, <1>7, <1>8, <1>9, <1>10, <1>11, <1>12, <1>13, <1>14,
     <1>15
     DEF Next, Create, OpenStep, Migrate

\* A version in the file comes with its columns and a whole header, and each
\* process has what it may rely on by how far it got.
THEOREM FileSound == Spec => []IInv
<1> QED BY InitInv, NextInv, PTL DEF Spec

\* TypeOK of Open.
THEOREM FileTyped == Spec => []TypeOK
<1>1. IInv => TypeOK
  BY DEF IInv
<1> QED BY <1>1, FileSound, PTL

\* OpenedCurrent: whoever got past the migration is on a whole file of this
\* schema.  A version always comes with its shape and a header, and only a
\* migration or a creation changes it, to this schema's.
THEOREM OpenedIsCurrent == Spec => []OpenedCurrent
<1>1. IInv => OpenedCurrent
  BY DEF IInv, ProcOK, FileOK, OpenedCurrent, SCHEMA_VERSION
<1> QED BY <1>1, FileSound, PTL

\* FailureLeavesFile: no process leaves a trace of a migration that may not go
\* through.
THEOREM FailedMigrationLeavesFile == Spec => []FailureLeavesFile
<1>1. IInv => FailureLeavesFile
  BY DEF IInv, FileOK, FailureLeavesFile
<1> QED BY <1>1, FileSound, PTL

\* RefusedForCause: whoever is refused could tell why from the file and its lock.
\* A snapshot of the old version is out of date only when the file has been
\* migrated: nobody writes to a file of an earlier release but to migrate it.
THEOREM RefusalHasCause == Spec => RefusedForCause
<1> DEFINE Why(p) ==
             /\ proc'[p].cause = "newer" => file.version > SCHEMA_VERSION
             /\ proc'[p].cause = "migration" => file.dangling
             /\ proc'[p].cause = "busy" => lock \notin {Nobody, p} \/ file.version = SCHEMA_VERSION
           Caused == \A p \in Proc : proc[p].pc # "refused" /\ proc'[p].pc = "refused" => Why(p)
<1>1. IInv /\ [Next]_vars => [Caused]_vars
  <2> SUFFICES ASSUME IInv, NEW q \in Proc,
                      Create(q) \/ OpenStep(q) \/ Unseal(q) \/ Work(q) \/ Rotate(q) \/ End(q),
                      NEW p \in Proc, proc[p].pc # "refused", proc'[p].pc = "refused"
               PROVE  Why(p)
    BY DEF Next, vars
  <2>0. TypeOK /\ file \in Files /\ ProcOK(p)
    BY DEF IInv, TypeOK
  <2>1. p = q
    BY <2>0 DEF Create, OpenStep, Migrate, CreateCheck, CreateFile, CreateTables, CreateHeader,
       OpenVersion, MigrateBegin, MigrateWrite, MigrateCommit, ReadSalt, ReadVerifier, Unseal,
       Work, Rotate, End, Goto, Refuse, TypeOK
  <2>2. CASE CreateCheck(p) \/ Unseal(p)
    BY <2>0, <2>2, RefuseEffect, GotoEffect DEF CreateCheck, Unseal, Pcs, Causes
  <2>3. CASE OpenVersion(p)
    <3>1. file.version \in {0, 1, 2, 3}
      BY <2>0 DEF Files, Versions, SCHEMA_VERSION
    <3>2. CASE ~file.there
      BY <2>0, <2>3, <3>2, RefuseEffect DEF OpenVersion, Causes
    <3>3. CASE file.there /\ file.version \in {0, 3}
      <4>1. file.version = 3 => file.version > SCHEMA_VERSION
        BY DEF SCHEMA_VERSION
      <4>2. /\ file.version = 3 => Refuse(p, "newer")
            /\ file.version = 0 => Refuse(p, "no format")
        BY <2>3, <3>3, AfterVersions DEF OpenVersion, Causes
      <4>3. proc'[p].cause = IF file.version = 3 THEN "newer" ELSE "no format"
        BY <2>0, <3>3, <4>2, RefuseEffect DEF Causes
      <4> QED BY <4>1, <4>3
    <3>4. CASE file.there /\ file.version \in {1, 2}
      <4>1. proc'[p].pc \in {"migrate", "salt"}
        BY <2>0, <2>3, <3>4, AfterVersions, GotoEffect DEF OpenVersion, Causes, Pcs
      <4> QED BY <4>1
    <3> QED BY <3>1, <3>2, <3>3, <3>4
  <2>4. CASE MigrateWrite(p)
    <3>1. Refuse(p, "busy") /\ (Busy(p) \/ ~Current(p))
      BY <2>0, <2>4, GotoEffect DEF MigrateWrite, Addable, Pcs
    <3>2. proc'[p].cause = "busy"
      BY <2>0, <3>1, RefuseEffect DEF Causes
    <3>3. lock \notin {Nobody, p} \/ file.version = SCHEMA_VERSION
      BY <2>0, <2>4, <3>1 DEF MigrateWrite, Busy, Writable, Current, ProcOK
    <3> QED BY <3>2, <3>3
  <2>5. CASE MigrateCommit(p)
    <3>1. proc[p].snap = file
      BY <2>0, <2>5 DEF MigrateCommit, ProcOK
    <3>2. CASE ~KeysHold(file)
      BY <2>0, <2>5, <3>1, <3>2, RefuseEffect DEF MigrateCommit, KeysHold, Causes
    <3>3. CASE KeysHold(file)
      BY <2>0, <2>5, <3>1, <3>3 DEF MigrateCommit, TypeOK, Procs
    <3> QED BY <3>2, <3>3
  <2>6. CASE \/ CreateFile(p) \/ CreateTables(p) \/ CreateHeader(p) \/ MigrateBegin(p)
             \/ ReadSalt(p) \/ ReadVerifier(p) \/ Work(p) \/ Rotate(p) \/ End(p)
    BY <2>0, <2>6 DEF CreateFile, CreateTables, CreateHeader, MigrateBegin, ReadSalt, ReadVerifier,
       Work, Rotate, End, Goto, Gone, TypeOK, Procs
  <2> QED
    BY <2>1, <2>2, <2>3, <2>4, <2>5, <2>6 DEF Create, OpenStep, Migrate
<1> QED BY <1>1, FileSound, PTL DEF Spec, RefusedForCause

\* HistoryKept: what a migration copies is the newest file, because it writes
\* under SQLite's lock on the snapshot it read.
THEOREM MigrationKeepsHistory == Spec => HistoryKept
<1>1. IInv /\ [Next]_vars => [file.rows \subseteq file'.rows]_vars
  <2> SUFFICES ASSUME IInv, NEW p \in Proc, Create(p) \/ OpenStep(p) \/ Unseal(p)
                        \/ Work(p) \/ Rotate(p) \/ End(p)
               PROVE  file.rows \subseteq file'.rows
    BY DEF Next, vars
  <2>0. file \in Files /\ ProcOK(p)
    BY DEF IInv, TypeOK
  <2>1. CASE MigrateCommit(p)
    BY <2>0, <2>1 DEF MigrateCommit, Rebuilt, ProcOK, Files
  <2>2. CASE CreateFile(p) \/ CreateTables(p) \/ CreateHeader(p) \/ Work(p) \/ Rotate(p)
    BY <2>0, <2>2 DEF CreateFile, CreateTables, CreateHeader, Work, Rotate, Files
  <2>3. CASE UNCHANGED file
    BY <2>3
  <2> QED
    BY <2>1, <2>2, <2>3 DEF Create, OpenStep, Migrate, CreateCheck, OpenVersion, MigrateBegin,
       MigrateWrite, ReadSalt, ReadVerifier, Unseal, End
<1> QED BY <1>1, FileSound, PTL DEF Spec, HistoryKept
=============================================================================
