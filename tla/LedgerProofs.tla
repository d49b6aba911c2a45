---------------------------- MODULE LedgerProofs ----------------------------
(***************************************************************************)
(* Theorems about Ledger, for any number of processes and audit runs, and  *)
(* ledgers of any length.                                                  *)
(***************************************************************************)
EXTENDS Ledger, FiniteSetTheorems, WellFoundedInduction, TLAPS

(* The inductive invariant.  An intact chain stays intact because a process *)
(* that read a head some time ago still finds that record where it was, and *)
(* because the numbers have no gap: the first free number after a record of *)
(* the ledger is the end of the ledger.                                     *)

Gapless == \A r \in audit : \A m \in 1..r.n : \E q \in audit : q.n = m
HasLast == \E r \in audit : \A q \in audit : q.n <= r.n
RowsOK ==
  /\ \A r \in audit : r.n \in Nat /\ r = Record(r.n, r.what, r.prev)
  /\ Intact /\ HasLast /\ Gapless

\* A head that some SELECT returned names a record that is still there.
Names(h) == \E q \in audit : q.n = h.n /\ q.hash = h.hash

ProcsOK ==
  /\ proc = [p \in Proc |-> [pc |-> proc[p].pc, what |-> proc[p].what, head |-> proc[p].head]]
  /\ \A p \in Proc :
       /\ proc[p].pc \in {"now", "snapshot", "decrypt"} => Names(proc[p].head)
       /\ proc[p].pc \in {"write", "decrypt"} <=> lock = p
       /\ proc[p].pc = "decrypt" => proc[p].head = head

ChainOK == RowsOK /\ ProcsOK

\* The head is the last record.
LEMMA HeadIsLast ==
  ASSUME RowsOK
  PROVE  /\ Names(head) /\ ~Taken(head.n + 1)
         /\ \A q \in audit : q.n <= head.n
<1>. DEFINE last == Last(audit)
<1>1. last \in audit /\ \A q \in audit : q.n <= last.n
  BY DEF RowsOK, HasLast, Last
<1>2. head.n = last.n /\ head.hash = last.hash
  BY <1>1 DEF head, Head
<1>3. \A q \in audit : q.n \in Nat
  BY DEF RowsOK
<1>. QED
  BY <1>1, <1>2, <1>3 DEF Names, Taken

\* An append after a head that names a record, at a number that is free, makes
\* the chain one record longer.
LEMMA AppendKeeps ==
  ASSUME RowsOK, NEW what, NEW h, Names(h), ~Taken(h.n + 1), audit' = Appended(what, h)
  PROVE  RowsOK'
<1>. DEFINE new == Record(h.n + 1, what, h.hash)
<1>0. PICK last \in audit : last.n = h.n /\ last.hash = h.hash
  BY DEF Names
<1>1. /\ \A r \in audit : r.n \in Nat /\ r.n >= 1 /\ Follows(r)
                          /\ r.hash = compute_hash(r.n, r.what, r.prev)
                          /\ r = Record(r.n, r.what, r.prev)
      /\ \A q, r \in audit : q.n = r.n => q = r
  BY DEF RowsOK, Intact
<1>2. audit' = audit \cup {new}
  BY DEF Appended
<1>3. /\ new.n = h.n + 1 /\ new.what = what /\ new.prev = h.hash
      /\ new.hash = compute_hash(new.n, new.what, new.prev)
  BY DEF Record
<1>4. new.n \in Nat /\ new.n > 1 /\ last.n = new.n - 1
  BY <1>0, <1>1, <1>3
<1>5. \A r \in audit : r.n <= h.n
  <2>1. \A r \in audit : \A m \in 1..r.n : m # h.n + 1
    BY DEF RowsOK, Gapless, Taken
  <2>. QED
    BY <2>1, <1>0, <1>1
<1>6. new = Record(new.n, new.what, new.prev)
  BY <1>3
<1>. HIDE DEF new
<1>7. \A r \in audit' : r.n \in Nat /\ r = Record(r.n, r.what, r.prev)
  BY <1>1, <1>2, <1>4, <1>6
<1>8. Intact'
  <2>1. \A r \in audit : Follows(r)'
    BY <1>1, <1>2 DEF Follows
  <2>2. Follows(new)'
    BY <1>0, <1>2, <1>3, <1>4 DEF Follows
  <2>3. \A q, r \in audit' : q.n = r.n => q = r
    BY <1>0, <1>1, <1>2, <1>4, <1>5
  <2>. QED
    BY <1>1, <1>2, <1>3, <1>4, <2>1, <2>2, <2>3 DEF Intact
<1>9. HasLast'
  BY <1>0, <1>1, <1>2, <1>4, <1>5 DEF HasLast
<1>10. Gapless'
  <2>1. ASSUME NEW m \in 1..new.n PROVE \E q \in audit' : q.n = m
    <3>1. CASE m = new.n
      BY <1>2, <3>1
    <3>2. CASE m \in 1..last.n
      BY <1>0, <1>2, <3>2 DEF RowsOK, Gapless
    <3>. QED
      BY <1>1, <1>0, <1>4, <3>1, <3>2
  <2>. QED
    BY <1>2, <2>1 DEF RowsOK, Gapless
<1>. QED
  BY <1>7, <1>8, <1>9, <1>10 DEF RowsOK

\* What an older copy of an intact ledger says is intact.
LEMMA RestoreKeeps ==
  ASSUME RowsOK, NEW k \in {r.n : r \in audit} \ {1}, audit' = {r \in audit : r.n < k}
  PROVE  RowsOK'
<1>1. /\ \A r \in audit : r.n \in Nat /\ r.n >= 1 /\ Follows(r)
                          /\ r.hash = compute_hash(r.n, r.what, r.prev)
                          /\ r = Record(r.n, r.what, r.prev)
      /\ \A q, r \in audit : q.n = r.n => q = r
  BY DEF RowsOK, Intact
<1>2. k \in Nat /\ k > 1
  BY <1>1
<1>3. Intact'
  <2>1. \A r \in audit' : Follows(r)'
    BY <1>1, <1>2 DEF Follows
  <2>. QED
    BY <1>1, <2>1 DEF Intact
<1>4. Gapless'
  BY <1>1, <1>2 DEF RowsOK, Gapless
<1>5. HasLast'
  <2>1. PICK q \in audit : q.n = k - 1
    BY <1>1, <1>2 DEF RowsOK, Gapless
  <2>. QED
    BY <1>1, <1>2, <2>1 DEF HasLast
<1>. QED
  BY <1>1, <1>3, <1>4, <1>5 DEF RowsOK

\* The step of one process leaves the local state of the others alone.
LEMMA OthersStay ==
  ASSUME ProcsOK, NEW p \in Proc, NEW v, proc' = [proc EXCEPT ![p] = v],
         v = [pc |-> v.pc, what |-> v.what, head |-> v.head]
  PROVE  /\ proc' = [x \in Proc |-> [pc |-> proc'[x].pc, what |-> proc'[x].what,
                                     head |-> proc'[x].head]]
         /\ proc'[p] = v /\ \A x \in Proc \ {p} : proc'[x] = proc[x]
<1>1. /\ proc' = [x \in Proc |-> proc'[x]]
      /\ proc'[p] = v /\ \A x \in Proc \ {p} : proc'[x] = proc[x]
  BY DEF ProcsOK
<1>2. \A x \in Proc : proc'[x] = [pc |-> proc'[x].pc, what |-> proc'[x].what,
                                  head |-> proc'[x].head]
  BY <1>1 DEF ProcsOK
<1>. QED
  BY <1>1, <1>2

\* Going somewhere with the same local variables, or with a head just read.
LEMMA GotoMoves ==
  ASSUME ProcsOK, NEW p \in Proc, NEW pc, Goto(p, pc)
  PROVE  /\ proc' = [x \in Proc |-> [pc |-> proc'[x].pc, what |-> proc'[x].what,
                                     head |-> proc'[x].head]]
         /\ proc'[p].pc = pc /\ proc'[p].head = proc[p].head
         /\ \A x \in Proc \ {p} : proc'[x] = proc[x]
<1>. DEFINE v == [pc |-> pc, what |-> proc[p].what, head |-> proc[p].head]
<1>1. proc' = [proc EXCEPT ![p] = v]
  <2>1. proc[p] = [pc |-> proc[p].pc, what |-> proc[p].what, head |-> proc[p].head]
    BY DEF ProcsOK
  <2>2. [proc[p] EXCEPT !.pc = pc] = v
    BY <2>1
  <2>. QED
    BY <2>2 DEF Goto
<1>2. v = [pc |-> v.pc, what |-> v.what, head |-> v.head]
  OBVIOUS
<1>3. v.pc = pc /\ v.head = proc[p].head
  OBVIOUS
<1>. HIDE DEF v
<1>. QED
  BY <1>1, <1>2, <1>3, OthersStay

\* A process that moves on with the head it read leaves the others alone.
LEMMA GotoWithHeadMoves ==
  ASSUME ProcsOK, NEW p \in Proc, NEW pc, NEW what, GotoWithHead(p, pc, what)
  PROVE  /\ proc' = [x \in Proc |-> [pc |-> proc'[x].pc, what |-> proc'[x].what,
                                     head |-> proc'[x].head]]
         /\ proc'[p].pc = pc /\ proc'[p].head = head
         /\ \A x \in Proc \ {p} : proc'[x] = proc[x]
<1>. DEFINE v == [pc |-> pc, what |-> what, head |-> head]
<1>1. proc' = [proc EXCEPT ![p] = v]
  BY DEF GotoWithHead
<1>2. v = [pc |-> v.pc, what |-> v.what, head |-> v.head] /\ v.pc = pc /\ v.head = head
  OBVIOUS
<1>. HIDE DEF v
<1>. QED
  BY <1>1, <1>2, OthersStay

\* Every step of a process keeps the chain, and loses no record of it.
LEMMA ProcStepKeeps ==
  ASSUME ChainOK, NEW p \in Proc, ProcStep(p)
  PROVE  ChainOK' /\ audit \subseteq audit'
<1>0. RowsOK /\ ProcsOK /\ Nobody \notin Proc
  BY LedgerConstants DEF ChainOK
<1>a. /\ Names(head) /\ ~Taken(head.n + 1)
  BY <1>0, HeadIsLast
<1>b. \A x \in Proc :
        /\ proc[x].pc \in {"now", "snapshot", "decrypt"} => Names(proc[x].head)
        /\ proc[x].pc \in {"write", "decrypt"} <=> lock = x
        /\ proc[x].pc = "decrypt" => proc[x].head = head
  BY <1>0 DEF ProcsOK
<1>c. ASSUME UNCHANGED audit PROVE RowsOK' /\ head' = head /\ \A h : Names(h) => Names(h)'
  BY <1>0, <1>c DEF RowsOK, Intact, HasLast, Gapless, Follows, head, Names
<1>d. ASSUME audit \subseteq audit' PROVE \A h : Names(h) => Names(h)'
  BY <1>d DEF Names
<1>1. CASE NowHead(p) \/ ReadSnapshot(p) \/ ReadErrorHead(p)
  <2>1. PICK pc \in {"now", "snapshot"}, what \in Kinds : GotoWithHead(p, pc, what)
    BY <1>1 DEF NowHead, ReadSnapshot, ReadErrorHead, Kinds
  <2>2. UNCHANGED <<audit, lock>> /\ proc[p].pc \in {"idle", "failed"}
    BY <1>1 DEF NowHead, ReadSnapshot, ReadErrorHead
  <2>3. ProcsOK'
    BY <1>0, <1>a, <1>b, <1>c, <2>1, <2>2, GotoWithHeadMoves DEF ProcsOK
  <2>. QED
    BY <1>c, <2>2, <2>3 DEF ChainOK
<1>2. CASE NowInsert(p)
  <2>1. Goto(p, "idle") /\ UNCHANGED lock /\ proc[p].pc = "now"
    BY <1>2 DEF NowInsert
  <2>2. CASE UNCHANGED audit
    <3>1. ProcsOK'
      BY <1>0, <1>b, <1>c, <2>1, <2>2, GotoMoves DEF ProcsOK
    <3>. QED
      BY <1>c, <2>2, <3>1 DEF ChainOK
  <2>3. CASE LockFree /\ ~Taken(proc[p].head.n + 1)
             /\ audit' = Appended(proc[p].what, proc[p].head)
    <3>1. RowsOK' /\ audit \subseteq audit'
      BY <1>0, <1>b, <2>1, <2>3, AppendKeeps DEF Appended
    <3>2. ProcsOK'
      BY <1>0, <1>b, <1>d, <2>1, <2>3, <3>1, GotoMoves DEF ProcsOK, LockFree
    <3>. QED
      BY <3>1, <3>2 DEF ChainOK
  <2>. QED
    BY <1>2, <2>2, <2>3 DEF NowInsert
<1>3. CASE BeginWrite(p)
  <2>1. Goto(p, "write") /\ lock' = p /\ UNCHANGED audit /\ lock = Nobody
    BY <1>3 DEF BeginWrite, LockFree
  <2>2. ProcsOK'
    BY <1>0, <1>b, <1>c, <2>1, GotoMoves DEF ProcsOK
  <2>. QED
    BY <1>c, <2>1, <2>2 DEF ChainOK
<1>4. CASE CommitWrite(p) \/ ReadCommit(p)
  <2>1. PICK pc \in {"idle", "return"} : Goto(p, pc)
    BY <1>4 DEF CommitWrite, ReadCommit
  <2>2. lock' = Nobody /\ lock = p
    BY <1>4, <1>b DEF CommitWrite, ReadCommit
  <2>3. UNCHANGED audit \/ \E what \in Kinds : audit' = Appended(what, head)
    BY <1>4, <1>b DEF CommitWrite, ReadCommit, Committed, Kinds
  <2>4. RowsOK' /\ audit \subseteq audit'
    BY <1>0, <1>a, <1>c, <2>3, AppendKeeps DEF Appended
  <2>5. ProcsOK'
    BY <1>0, <1>b, <1>d, <2>1, <2>2, <2>4, GotoMoves DEF ProcsOK
  <2>. QED
    BY <2>4, <2>5 DEF ChainOK
<1>5. CASE ReadInsert(p)
  <2>1. UNCHANGED audit /\ proc[p].pc = "snapshot"
    BY <1>5 DEF ReadInsert
  <2>2. CASE LockFree /\ Current(p) /\ lock' = p /\ Goto(p, "decrypt")
    <3>1. ProcsOK'
      BY <1>0, <1>b, <1>c, <2>1, <2>2, GotoMoves DEF ProcsOK, LockFree, Current
    <3>. QED
      BY <1>c, <2>1, <3>1 DEF ChainOK
  <2>3. CASE Goto(p, "idle") /\ UNCHANGED lock
    <3>1. ProcsOK'
      BY <1>0, <1>b, <1>c, <2>1, <2>3, GotoMoves DEF ProcsOK
    <3>. QED
      BY <1>c, <2>1, <3>1 DEF ChainOK
  <2>. QED
    BY <1>5, <2>2, <2>3 DEF ReadInsert
<1>6. CASE ReadReturn(p) \/ ReadRollback(p) \/ Crash(p)
  <2>1. UNCHANGED audit /\ lock' = IF lock = p THEN Nobody ELSE lock
    BY <1>6, <1>0, <1>b DEF ReadReturn, ReadRollback, Crash, others
  <2>2. PICK pc \in {"idle", "failed"} : Goto(p, pc)
    BY <1>6 DEF ReadReturn, ReadRollback, Crash
  <2>3. ProcsOK'
    BY <1>0, <1>b, <1>c, <2>1, <2>2, GotoMoves DEF ProcsOK
  <2>. QED
    BY <1>c, <2>1, <2>3 DEF ChainOK
<1>. QED
  BY <1>1, <1>2, <1>3, <1>4, <1>5, <1>6 DEF ProcStep

\* No step breaks the chain.
LEMMA ChainOKStep == ASSUME ChainOK, [Next]_vars PROVE ChainOK'
<1>1. ASSUME UNCHANGED <<audit, lock, proc>> PROVE ChainOK'
  BY <1>1 DEF ChainOK, RowsOK, ProcsOK, Intact, HasLast, Gapless, Follows, head, Names
<1>2. CASE Restore
  <2>1. RowsOK'
    BY <1>2, RestoreKeeps DEF Restore, ChainOK
  <2>2. ProcsOK'
    BY <1>2 DEF Restore, ChainOK, ProcsOK
  <2>. QED
    BY <2>1, <2>2 DEF ChainOK
<1>3. ASSUME NEW d \in Auditor, AuditStep(d) PROVE ChainOK'
  BY <1>1, <1>3 DEF AuditStep, AuditVerify, AuditCheck, AuditTake, AuditWrite, AuditQuit
<1>. QED
  BY <1>1, <1>2, <1>3, ProcStepKeeps DEF Next, vars

\* The ledger of a new vault is a chain.
LEMMA InitChainOK == Init => ChainOK
<1>. SUFFICES ASSUME Init PROVE ChainOK
  OBVIOUS
<1>. DEFINE r == Record(1, "op", Zero)
<1>1. audit = {r} /\ r.n = 1 /\ r.what = "op" /\ r.prev = Zero
      /\ r.hash = compute_hash(r.n, r.what, r.prev) /\ r = Record(r.n, r.what, r.prev)
  BY DEF Init, Record
<1>. HIDE DEF r
<1>2. RowsOK
  BY <1>1 DEF RowsOK, Intact, HasLast, Gapless, Follows
<1>3. ProcsOK
  BY LedgerConstants DEF Init, ProcsOK
<1>. QED
  BY <1>2, <1>3 DEF ChainOK

\* However many processes append, fail and crash, and whatever copies are put
\* back, `bsc audit` finds the chain intact.
THEOREM AlwaysIntact == Spec => []ChainIntact
<1>1. ChainOK => ChainIntact
  BY DEF ChainOK, RowsOK, ChainIntact
<1>. QED
  BY <1>1, InitChainOK, ChainOKStep, PTL DEF Spec

(***************************************************************************)
(* Alarms.                                                                 *)
(***************************************************************************)
\* As long as no older copy was put back, every anchor agrees, the ones that a
\* run still has to write down included.
AnchorsOK ==
  /\ restored \in Nat
  /\ run = [d \in Auditor |-> [pc |-> run[d].pc, head |-> run[d].head, past |-> run[d].past]]
  /\ restored = 0 =>
       /\ \A a \in anchors : Agrees(a)
       /\ \A d \in Auditor : run[d].pc = "write" => Names(run[d].head)

AlarmOK == ChainOK /\ AnchorsOK /\ NoFalseAlarm

\* A run of bsc audit that moves on leaves the others alone.
LEMMA RunGotoMoves ==
  ASSUME AnchorsOK, NEW d \in Auditor, NEW pc, RunGoto(d, pc)
  PROVE  /\ run' = [x \in Auditor |-> [pc |-> run'[x].pc, head |-> run'[x].head,
                                       past |-> run'[x].past]]
         /\ run'[d].pc = pc
         /\ \A x \in Auditor \ {d} : run'[x] = run[x]
<1>. DEFINE v == [pc |-> pc, head |-> run[d].head, past |-> run[d].past]
<1>1. run' = [run EXCEPT ![d] = v]
  <2>1. run[d] = [pc |-> run[d].pc, head |-> run[d].head, past |-> run[d].past]
    BY DEF AnchorsOK
  <2>2. [run[d] EXCEPT !.pc = pc] = v
    BY <2>1
  <2>. QED
    BY <2>2 DEF RunGoto
<1>2. /\ \A x \in Auditor : run'[x] = IF x = d THEN v ELSE run[x]
      /\ run' = [x \in Auditor |-> run'[x]]
  BY <1>1 DEF AnchorsOK
<1>3. \A x \in Auditor : run[x] = [pc |-> run[x].pc, head |-> run[x].head, past |-> run[x].past]
  BY DEF AnchorsOK
<1>4. v = [pc |-> v.pc, head |-> v.head, past |-> v.past] /\ v.pc = pc
  OBVIOUS
<1>. HIDE DEF v
<1>5. \A x \in Auditor : run'[x] = [pc |-> run'[x].pc, head |-> run'[x].head, past |-> run'[x].past]
  BY <1>2, <1>3, <1>4
<1>. QED
  BY <1>2, <1>4, <1>5

\* No step of bsc audit writes a false anchor or raises a false alarm.
LEMMA AuditStepKeeps ==
  ASSUME AlarmOK, NEW d \in Auditor, AuditStep(d)
  PROVE  AnchorsOK' /\ NoFalseAlarm'
<1>0. ChainOK /\ AnchorsOK /\ NoFalseAlarm /\ Intact /\ Names(head)
  BY HeadIsLast DEF AlarmOK, ChainOK, RowsOK
<1>1. UNCHANGED <<audit, restored>>
  BY DEF AuditStep, AuditVerify, AuditCheck, AuditTake, AuditWrite, AuditQuit
<1>2. /\ \A a : Agrees(a) => Agrees(a)'
      /\ \A h : Names(h) => Names(h)'
  BY <1>1 DEF Agrees, Names
<1>3. CASE AuditVerify(d) \/ AuditCheck(d) \/ AuditQuit(d)
  <2>1. UNCHANGED anchors
    BY <1>3 DEF AuditVerify, AuditCheck, AuditQuit
  <2>2. UNCHANGED run \/ \E pc \in {"idle", "check", "take"} : RunGoto(d, pc)
    BY <1>3 DEF AuditVerify, AuditCheck, AuditQuit
  <2>3. AnchorsOK'
    BY <1>0, <1>1, <1>2, <2>1, <2>2, RunGotoMoves DEF AnchorsOK
  <2>4. UNCHANGED alarm \/ \E a \in anchors : ~Agrees(a)
    BY <1>0, <1>3 DEF AuditVerify, AuditCheck, AuditQuit
  <2>. QED
    BY <1>0, <1>1, <2>3, <2>4 DEF NoFalseAlarm, AnchorsOK
<1>4. CASE AuditTake(d)
  <2>. DEFINE v == [pc |-> "write", head |-> head, past |-> Contents(head.n)]
  <2>1. run' = [run EXCEPT ![d] = v] /\ UNCHANGED <<anchors, alarm>>
    BY <1>4 DEF AuditTake, Anchored
  <2>2. v = [pc |-> v.pc, head |-> v.head, past |-> v.past] /\ v.head = head
    OBVIOUS
  <2>. HIDE DEF v
  <2>3. /\ \A x \in Auditor : run'[x] = IF x = d THEN v ELSE run[x]
        /\ run' = [x \in Auditor |-> run'[x]]
    BY <1>0, <2>1 DEF AnchorsOK
  <2>4. \A x \in Auditor : run[x] = [pc |-> run[x].pc, head |-> run[x].head, past |-> run[x].past]
    BY <1>0 DEF AnchorsOK
  <2>5. \A x \in Auditor : run'[x] = [pc |-> run'[x].pc, head |-> run'[x].head, past |-> run'[x].past]
    BY <2>2, <2>3, <2>4
  <2>. QED
    BY <1>0, <1>1, <1>2, <2>1, <2>2, <2>3, <2>5 DEF AnchorsOK, NoFalseAlarm
<1>5. CASE AuditWrite(d)
  <2>. DEFINE new == [len |-> run[d].head.n, head |-> run[d].head.hash, past |-> run[d].past]
  <2>1. anchors' = anchors \cup {new} /\ RunGoto(d, "idle") /\ UNCHANGED alarm /\ run[d].pc = "write"
    BY <1>5 DEF AuditWrite
  <2>2. Names(run[d].head) => Agrees(new)
    BY DEF Names, Agrees
  <2>. HIDE DEF new
  <2>. QED
    BY <1>0, <1>1, <1>2, <2>1, <2>2, RunGotoMoves DEF AnchorsOK, NoFalseAlarm
<1>. QED
  BY <1>3, <1>4, <1>5 DEF AuditStep

\* Neither does any other step.
LEMMA AlarmOKStep == ASSUME AlarmOK, [Next]_vars PROVE AlarmOK'
<1>0. ChainOK /\ AnchorsOK /\ NoFalseAlarm /\ ChainOK'
  BY ChainOKStep DEF AlarmOK
<1>1. ASSUME audit \subseteq audit', UNCHANGED <<anchors, run, alarm, restored>> PROVE AlarmOK'
  <2>1. /\ \A a : Agrees(a) => Agrees(a)'
        /\ \A h : Names(h) => Names(h)'
    BY <1>1 DEF Agrees, Names
  <2>. QED
    BY <1>0, <1>1, <2>1 DEF AlarmOK, AnchorsOK, NoFalseAlarm
<1>2. ASSUME NEW p \in Proc, ProcStep(p) PROVE AlarmOK'
  <2>1. audit \subseteq audit'
    BY <1>0, <1>2, ProcStepKeeps
  <2>2. UNCHANGED <<anchors, run, alarm, restored>>
    BY <1>2 DEF ProcStep, NowHead, NowInsert, BeginWrite, CommitWrite, ReadSnapshot, ReadInsert,
       ReadCommit, ReadReturn, ReadRollback, ReadErrorHead, Crash, others
  <2>. QED
    BY <1>1, <2>1, <2>2
<1>3. ASSUME NEW d \in Auditor, AuditStep(d) PROVE AlarmOK'
  BY <1>0, <1>3, AuditStepKeeps DEF AlarmOK
<1>4. CASE Restore
  <2>1. UNCHANGED run /\ restored' = restored + 1
    BY <1>4 DEF Restore
  <2>. QED
    BY <1>0, <2>1 DEF AlarmOK, AnchorsOK, NoFalseAlarm
<1>5. CASE UNCHANGED vars
  BY <1>1, <1>5 DEF vars
<1>. QED
  BY <1>2, <1>3, <1>4, <1>5 DEF Next

\* An alarm of `bsc audit` means that an older copy was put back: no
\* interleaving of appends, reads, crashes and other audit runs causes one.
THEOREM AlarmMeansRestored == Spec => []NoFalseAlarm
<1>1. Init => AlarmOK
  BY InitChainOK DEF Init, AlarmOK, AnchorsOK, NoFalseAlarm
<1>2. AlarmOK => NoFalseAlarm
  BY DEF AlarmOK
<1>. QED
  BY <1>1, <1>2, AlarmOKStep, PTL DEF Spec

(***************************************************************************)
(* Anchors.                                                                *)
(***************************************************************************)
\* A set of records that makes a whole chain, from the first record to one of
\* number len and hash h.
Chain(C, len, h) ==
  /\ \A r \in C : /\ r.n \in Nat /\ 1 <= r.n /\ r.n <= len
                  /\ r = Record(r.n, r.what, r.prev)
                  /\ r.n # 1 => \E q \in C : q.n = r.n - 1 /\ q.hash = r.prev
  /\ \A q, r \in C : q.n = r.n => q = r
  /\ \A m \in 1..len : \E r \in C : r.n = m
  /\ \E r \in C : r.n = len /\ r.hash = h

Said(C) == {[n |-> r.n, what |-> r.what] : r \in C}

\* What an anchor says was said by some chain with that head.
Pinned(len, h, past) == \E C : Chain(C, len, h) /\ past = Said(C)

PinnedOK ==
  /\ AlarmOK
  /\ \A a \in anchors : Pinned(a.len, a.head, a.past)
  /\ \A d \in Auditor :
       run[d].pc = "write" => Pinned(run[d].head.n, run[d].head.hash, run[d].past)

\* A hash tells what was hashed.
LEMMA HashTells ==
  ASSUME NEW n, NEW what, NEW prev, NEW m, NEW that, NEW before,
         Record(n, what, prev).hash = Record(m, that, before).hash
  PROVE  n = m /\ what = that /\ prev = before
<1>1. compute_hash(n, what, prev) = compute_hash(m, that, before)
  BY DEF Record
<1>2. QED
  BY <1>1 DEF compute_hash

\* A set of natural numbers that is not empty has a largest one, if it has a bound.
LEMMA LargestIn ==
  ASSUME NEW k \in Nat, NEW S \in SUBSET (1..k), S # {}
  PROVE  \E n \in S : \A m \in S : m <= n
<1> DEFINE T == {k - m : m \in S}
<1>0. \A m \in S : k - m \in Nat
  OBVIOUS
<1>1. T \in SUBSET Nat /\ T # {}
  BY <1>0
<1>2. PICK l \in T : \A m \in T : ~ (<<m, l>> \in OpToRel(<, Nat))
  <2> HIDE DEF T
  <2> QED
    BY <1>1, WFMin, NatLessThanWellFounded, Zenon
<1>3. \A m \in T : ~(m < l)
  <2> HIDE DEF T
  <2> QED
    BY <1>1, <1>2, Zenon DEF OpToRel
<1>4. PICK n \in S : l = k - n
  BY <1>2
<1>5. ASSUME NEW m \in S PROVE m <= n
  <2>1. ~(k - m < l)
    BY <1>3
  <2>2. QED
    BY <1>4, <2>1
<1>6. QED
  BY <1>5

\* One hash pins a whole chain: two chains with the same head are the same.
LEMMA HeadPins ==
  ASSUME NEW C, NEW D, NEW len \in Nat, NEW h, Chain(C, len, h), Chain(D, len, h)
  PROVE  C = D
<1> DEFINE S == {m \in 1..len : \E r \in C, q \in D : r.n = m /\ q.n = m /\ r # q}
<1>1. S = {}
  <2>1. SUFFICES ASSUME S # {} PROVE FALSE
    OBVIOUS
  <2>2. PICK m \in S : \A l \in S : l <= m
    BY <2>1, LargestIn
  <2>3. PICK r \in C, q \in D : r.n = m /\ q.n = m /\ r # q
    OBVIOUS
  <2>4. /\ m \in Nat /\ 1 <= m /\ m <= len
        /\ r = Record(m, r.what, r.prev) /\ q = Record(m, q.what, q.prev)
    BY <2>3 DEF Chain
  <2>5. r.hash # q.hash
    <3>1. SUFFICES ASSUME r.hash = q.hash PROVE FALSE
      OBVIOUS
    <3>2. Record(m, r.what, r.prev).hash = Record(m, q.what, q.prev).hash
      BY <2>4, <3>1
    <3>3. r.what = q.what /\ r.prev = q.prev
      BY <3>2, HashTells
    <3>4. QED
      BY <2>3, <2>4, <3>3
  <2>6. CASE m = len
    <3>1. r.hash = h /\ q.hash = h
      BY <2>3, <2>6 DEF Chain
    <3>2. QED
      BY <2>5, <3>1
  <2>7. CASE m # len
    <3>1. m + 1 \in 1..len /\ m + 1 # 1 /\ ~(m + 1 <= m) /\ (m + 1) - 1 = m
      BY <2>4, <2>7
    <3>2. PICK x \in C, y \in D : x.n = m + 1 /\ y.n = m + 1
      BY <3>1 DEF Chain
    <3>3. x = y
      BY <2>2, <3>1, <3>2
    <3>4. PICK u \in C, v \in D : u.n = m /\ u.hash = x.prev /\ v.n = m /\ v.hash = y.prev
      BY <3>1, <3>2 DEF Chain
    <3>5. u = r /\ v = q
      BY <2>3, <3>4 DEF Chain
    <3>6. QED
      BY <2>5, <3>3, <3>4, <3>5
  <2>8. QED
    BY <2>6, <2>7
<1>2. ASSUME NEW r \in C PROVE r \in D
  <2>1. r.n \in 1..len
    BY DEF Chain
  <2>2. PICK q \in D : q.n = r.n
    BY <2>1 DEF Chain
  <2>3. r = q
    BY <1>1, <2>1, <2>2
  <2>4. QED
    BY <2>3
<1>3. ASSUME NEW q \in D PROVE q \in C
  <2>1. q.n \in 1..len
    BY DEF Chain
  <2>2. PICK r \in C : q.n = r.n
    BY <2>1 DEF Chain
  <2>3. r = q
    BY <1>1, <2>1, <2>2
  <2>4. QED
    BY <2>3
<1>4. QED
  BY <1>2, <1>3

\* The ledger up to one of its records is a chain that says what Contents says.
LEMMA LedgerIsChain ==
  ASSUME RowsOK, NEW r \in audit
  PROVE  /\ r.n \in Nat
         /\ Chain({q \in audit : q.n <= r.n}, r.n, r.hash)
         /\ Contents(r.n) = Said({q \in audit : q.n <= r.n})
<1> DEFINE C == {q \in audit : q.n <= r.n}
<1>1. \A q \in audit : /\ q.n \in Nat /\ 1 <= q.n /\ q = Record(q.n, q.what, q.prev)
                       /\ q.n # 1 => \E x \in audit : x.n = q.n - 1 /\ x.hash = q.prev
  BY DEF RowsOK, Intact, Follows
<1>2. \A q \in C : q.n # 1 => \E x \in C : x.n = q.n - 1 /\ x.hash = q.prev
  <2>1. SUFFICES ASSUME NEW q \in C, q.n # 1 PROVE \E x \in C : x.n = q.n - 1 /\ x.hash = q.prev
    OBVIOUS
  <2>2. PICK x \in audit : x.n = q.n - 1 /\ x.hash = q.prev
    BY <1>1, <2>1
  <2>3. x.n <= r.n
    BY <1>1, <2>1, <2>2
  <2>4. QED
    BY <2>2, <2>3
<1>3. \A q, x \in C : q.n = x.n => q = x
  BY DEF RowsOK, Intact
<1>4. \A m \in 1..r.n : \E q \in C : q.n = m
  <2>1. SUFFICES ASSUME NEW m \in 1..r.n PROVE \E q \in C : q.n = m
    OBVIOUS
  <2>2. PICK q \in audit : q.n = m
    BY DEF RowsOK, Gapless
  <2>3. q.n <= r.n
    BY <1>1, <2>2
  <2>4. QED
    BY <2>2, <2>3
<1>5. r \in C
  BY <1>1
<1>6. Chain(C, r.n, r.hash)
  BY <1>1, <1>2, <1>3, <1>4, <1>5 DEF Chain
<1>7. Contents(r.n) = Said(C)
  BY DEF Contents, Said
<1>8. QED
  BY <1>1, <1>6, <1>7

\* The head of the ledger pins what the ledger says.
LEMMA HeadPinned ==
  ASSUME RowsOK
  PROVE  Pinned(head.n, head.hash, Contents(head.n))
<1>1. PICK r \in audit : r.n = head.n /\ r.hash = head.hash
  BY HeadIsLast DEF Names
<1>2. Chain({q \in audit : q.n <= head.n}, head.n, head.hash)
      /\ Contents(head.n) = Said({q \in audit : q.n <= head.n})
  BY <1>1, LedgerIsChain
<1>3. QED
  BY <1>2 DEF Pinned

\* Anchors are taken from the ledger, and no later step changes what they say.
LEMMA PinnedStep == ASSUME PinnedOK, [Next]_vars PROVE PinnedOK'
<1>0. AlarmOK /\ AlarmOK' /\ AnchorsOK /\ RowsOK
  BY AlarmOKStep DEF PinnedOK, AlarmOK, ChainOK
<1>1. ASSUME UNCHANGED <<anchors, run>> PROVE PinnedOK'
  BY <1>0, <1>1 DEF PinnedOK, Pinned
<1>2. ASSUME NEW d \in Auditor, AuditVerify(d) \/ AuditCheck(d) \/ AuditQuit(d) PROVE PinnedOK'
  <2>1. UNCHANGED anchors
    BY <1>2 DEF AuditVerify, AuditCheck, AuditQuit
  <2>2. UNCHANGED run \/ \E pc \in {"idle", "check", "take"} : RunGoto(d, pc)
    BY <1>2 DEF AuditVerify, AuditCheck, AuditQuit
  <2>3. QED
    BY <1>0, <2>1, <2>2, RunGotoMoves DEF PinnedOK, Pinned
<1>3. ASSUME NEW d \in Auditor, AuditTake(d) PROVE PinnedOK'
  <2> DEFINE v == [pc |-> "write", head |-> head, past |-> Contents(head.n)]
  <2>1. run' = [run EXCEPT ![d] = v] /\ UNCHANGED anchors
    BY <1>3 DEF AuditTake, Anchored
  <2>2. Pinned(v.head.n, v.head.hash, v.past)
    BY <1>0, HeadPinned
  <2> HIDE DEF v
  <2>3. \A x \in Auditor : run'[x] = IF x = d THEN v ELSE run[x]
    BY <1>0, <2>1 DEF AnchorsOK
  <2>4. QED
    BY <1>0, <2>1, <2>2, <2>3 DEF PinnedOK, Pinned
<1>4. ASSUME NEW d \in Auditor, AuditWrite(d) PROVE PinnedOK'
  <2> DEFINE new == [len |-> run[d].head.n, head |-> run[d].head.hash, past |-> run[d].past]
  <2>1. anchors' = anchors \cup {new} /\ RunGoto(d, "idle") /\ run[d].pc = "write"
    BY <1>4 DEF AuditWrite
  <2>2. Pinned(new.len, new.head, new.past)
    BY <2>1 DEF PinnedOK
  <2> HIDE DEF new
  <2>3. QED
    BY <1>0, <2>1, <2>2, RunGotoMoves DEF PinnedOK, Pinned
<1>5. ASSUME NEW p \in Proc, ProcStep(p) PROVE UNCHANGED <<anchors, run>>
  BY <1>5 DEF ProcStep, NowHead, NowInsert, BeginWrite, CommitWrite, ReadSnapshot, ReadInsert,
     ReadCommit, ReadReturn, ReadRollback, ReadErrorHead, Crash, others
<1>6. CASE Restore \/ UNCHANGED vars
  BY <1>1, <1>6 DEF Restore, vars
<1>7. QED
  BY <1>1, <1>2, <1>3, <1>4, <1>5, <1>6 DEF Next, AuditStep

\* An anchor that agrees pins every record up to its length, of a ledger of any
\* length, after any interleaving of appends and runs and any copies put back
\* (audit.rs:192-203; THREAT_MODEL A6).
THEOREM AnchorsPin == Spec => []AnchorPinsHistory
<1>1. Init => PinnedOK
  BY InitChainOK DEF Init, PinnedOK, AlarmOK, AnchorsOK, NoFalseAlarm
<1>2. PinnedOK => AnchorPinsHistory
  <2> SUFFICES ASSUME PinnedOK, NEW a \in anchors, Agrees(a) PROVE Contents(a.len) = a.past
    BY DEF AnchorPinsHistory
  <2>1. RowsOK /\ Pinned(a.len, a.head, a.past)
    BY DEF PinnedOK, AlarmOK, ChainOK
  <2>2. PICK C : Chain(C, a.len, a.head) /\ a.past = Said(C)
    BY <2>1 DEF Pinned
  <2>3. a.len # 0
    BY <2>2 DEF Chain
  <2>4. PICK r \in audit : r.n = a.len /\ r.hash = a.head
    BY <2>3 DEF Agrees
  <2> DEFINE D == {q \in audit : q.n <= a.len}
  <2>5. a.len \in Nat /\ Chain(D, a.len, a.head) /\ Contents(a.len) = Said(D)
    BY <2>1, <2>4, LedgerIsChain
  <2> HIDE DEF D
  <2>6. C = D
    BY <2>2, <2>5, HeadPins
  <2>7. QED
    BY <2>2, <2>5, <2>6
<1>3. QED
  BY <1>1, <1>2, PinnedStep, PTL DEF Spec

(***************************************************************************)
(* Reads.                                                                  *)
(***************************************************************************)
\* The processes that committed the record of a read and did not return yet,
\* and the records of reads.
Returning == {p \in Proc : proc[p].pc = "return"}
Reads == {r \in audit : r.what = "read"}

\* Finitely many were made so far, and every value that left, or is about to,
\* has its record.
ReadsOK ==
  /\ AlarmOK /\ ReadsRecorded
  /\ out \in Nat /\ IsFiniteSet(audit) /\ IsFiniteSet(Returning)

\* A step of a process: it commits the record of a read, or returns what was
\* recorded, or neither.
LEMMA ReadSteps ==
  ASSUME ChainOK, NEW p \in Proc, ProcStep(p)
  PROVE  \/ /\ p \notin Returning /\ Returning' = Returning \cup {p}
            /\ out' = out
            /\ \E x : x.what = "read" /\ x \notin audit /\ audit' = audit \cup {x}
         \/ /\ p \in Returning /\ Returning' = Returning \ {p}
            /\ out' = out + 1 /\ audit' = audit
         \/ /\ Returning' \subseteq Returning /\ out' = out
            /\ audit' = audit \/ \E x : audit' = audit \cup {x}
<1>0. RowsOK /\ ProcsOK
  BY DEF ChainOK
<1>1. ASSUME NEW pc, Goto(p, pc) \/ \E what : GotoWithHead(p, pc, what), pc # "return"
      PROVE  Returning' \subseteq Returning /\ (p \in Returning => Returning' = Returning \ {p})
  <2>1. proc'[p].pc = pc /\ \A x \in Proc \ {p} : proc'[x] = proc[x]
    BY <1>0, <1>1, GotoMoves, GotoWithHeadMoves
  <2>2. QED
    BY <1>1, <2>1 DEF Returning
<1>2. CASE ReadCommit(p)
  <2>1. /\ p \notin Returning /\ Goto(p, "return") /\ out' = out
        /\ audit' = audit \cup {Record(proc[p].head.n + 1, "read", proc[p].head.hash)}
        /\ proc[p].pc = "decrypt"
    BY <1>2 DEF ReadCommit, Committed, Appended, Returning, others
  <2>2. proc'[p].pc = "return" /\ \A x \in Proc \ {p} : proc'[x] = proc[x]
    BY <1>0, <2>1, GotoMoves
  <2>3. Returning' = Returning \cup {p}
    BY <2>2 DEF Returning
  <2>4. ~Taken(proc[p].head.n + 1)
    BY <1>0, <2>1, HeadIsLast DEF ProcsOK
  <2>5. /\ Record(proc[p].head.n + 1, "read", proc[p].head.hash).what = "read"
        /\ Record(proc[p].head.n + 1, "read", proc[p].head.hash).n = proc[p].head.n + 1
    BY DEF Record
  <2>6. Record(proc[p].head.n + 1, "read", proc[p].head.hash) \notin audit
    BY <2>4, <2>5 DEF Taken
  <2>7. QED
    BY <2>1, <2>3, <2>5, <2>6
<1>3. CASE ReadReturn(p)
  <2>1. p \in Returning /\ Goto(p, "idle") /\ out' = out + 1 /\ audit' = audit
    BY <1>3 DEF ReadReturn, Returning
  <2>2. QED
    BY <1>1, <2>1
<1>4. CASE NowInsert(p) \/ CommitWrite(p)
  <2>1. Goto(p, "idle") /\ out' = out /\ (audit' = audit \/ \E x : audit' = audit \cup {x})
    BY <1>4 DEF NowInsert, CommitWrite, Appended, others
  <2>2. QED
    BY <1>1, <2>1
<1>5. CASE NowHead(p) \/ ReadSnapshot(p) \/ ReadErrorHead(p) \/ BeginWrite(p) \/ ReadInsert(p)
        \/ ReadRollback(p) \/ Crash(p)
  <2>1. /\ out' = out /\ audit' = audit
        /\ \E pc \in {"now", "snapshot", "write", "decrypt", "idle", "failed"} :
             Goto(p, pc) \/ \E what : GotoWithHead(p, pc, what)
    BY <1>5 DEF NowHead, ReadSnapshot, ReadErrorHead, BeginWrite, ReadInsert, ReadRollback, Crash, others
  <2>2. QED
    BY <1>1, <2>1
<1>6. QED
  BY <1>2, <1>3, <1>4, <1>5 DEF ProcStep

\* The arithmetic of one step.
LEMMA ReadsCounted ==
  ASSUME NEW o \in Nat, NEW w \in Nat, NEW n \in Nat, NEW o2, NEW w2 \in Nat, NEW n2 \in Nat,
         o + w <= n,
         \/ o2 = o /\ w2 = w + 1 /\ n2 = n + 1
         \/ o2 = o + 1 /\ w2 = w - 1 /\ n2 = n
         \/ o2 = o /\ w2 <= w /\ n <= n2
  PROVE  o2 + w2 <= n2
OBVIOUS

\* No step returns a value that has no record.
LEMMA ReadsOKStep == ASSUME ReadsOK, [Next]_vars PROVE ReadsOK'
<1>0. AlarmOK /\ AlarmOK' /\ ChainOK /\ AnchorsOK
  BY AlarmOKStep DEF ReadsOK, AlarmOK
<1>1. /\ out \in Nat /\ IsFiniteSet(audit) /\ IsFiniteSet(Returning) /\ Reads \subseteq audit
      /\ restored = 0 => out + Cardinality(Returning) <= Cardinality(Reads)
  BY DEF ReadsOK, ReadsRecorded, Returning, Reads
<1>2. IsFiniteSet(Reads) /\ Cardinality(Reads) \in Nat /\ Cardinality(Returning) \in Nat
  BY <1>1, FS_Subset, FS_CardinalityType
<1>3. ASSUME UNCHANGED <<audit, proc, out, restored>> PROVE ReadsOK'
  BY <1>0, <1>3 DEF ReadsOK, ReadsRecorded, Returning
<1>4. ASSUME NEW d \in Auditor, AuditStep(d) PROVE ReadsOK'
  BY <1>3, <1>4 DEF AuditStep, AuditVerify, AuditCheck, AuditTake, AuditWrite, AuditQuit
<1>5. CASE Restore
  <2>1. /\ audit' \subseteq audit /\ UNCHANGED <<proc, out>> /\ restored' = restored + 1
        /\ restored \in Nat
    BY <1>0, <1>5 DEF Restore, AnchorsOK
  <2>2. IsFiniteSet(audit')
    BY <1>1, <2>1, FS_Subset
  <2>3. restored' # 0
    BY <2>1
  <2>4. QED
    BY <1>0, <1>1, <2>1, <2>2, <2>3 DEF ReadsOK, ReadsRecorded, Returning
<1>6. ASSUME NEW p \in Proc, ProcStep(p) PROVE ReadsOK'
  <2>1. restored' = restored
    BY <1>6 DEF ProcStep, NowHead, NowInsert, BeginWrite, CommitWrite, ReadSnapshot, ReadInsert,
       ReadCommit, ReadReturn, ReadRollback, ReadErrorHead, Crash, others
  <2>2. SUFFICES /\ out' \in Nat /\ IsFiniteSet(audit') /\ IsFiniteSet(Returning')
                 /\ \/ /\ out' = out /\ Cardinality(Returning') = Cardinality(Returning) + 1
                       /\ Cardinality(Reads') = Cardinality(Reads) + 1
                    \/ /\ out' = out + 1 /\ Cardinality(Returning') = Cardinality(Returning) - 1
                       /\ Cardinality(Reads') = Cardinality(Reads)
                    \/ /\ out' = out /\ Cardinality(Returning') <= Cardinality(Returning)
                       /\ Cardinality(Reads) <= Cardinality(Reads')
    <3>1. IsFiniteSet(Reads')
      BY <2>2, FS_Subset DEF Reads
    <3>2. Cardinality(Reads') \in Nat /\ Cardinality(Returning') \in Nat
      BY <2>2, <3>1, FS_CardinalityType
    <3>3. restored' = 0 => out' + Cardinality(Returning') <= Cardinality(Reads')
      BY <1>1, <1>2, <2>1, <2>2, <3>2, ReadsCounted
    <3>4. QED
      BY <1>0, <2>2, <3>3 DEF ReadsOK, ReadsRecorded, Returning, Reads
  <2>3. CASE /\ p \notin Returning /\ Returning' = Returning \cup {p}
             /\ out' = out
             /\ \E x : x.what = "read" /\ x \notin audit /\ audit' = audit \cup {x}
    <3>1. PICK x : x.what = "read" /\ x \notin audit /\ audit' = audit \cup {x}
      BY <2>3
    <3>2. Reads' = Reads \cup {x} /\ x \notin Reads
      BY <3>1 DEF Reads
    <3>3. QED
      BY <1>1, <1>2, <2>3, <3>1, <3>2, FS_AddElement
  <2>4. CASE /\ p \in Returning /\ Returning' = Returning \ {p}
             /\ out' = out + 1 /\ audit' = audit
    <3>1. Reads' = Reads
      BY <2>4 DEF Reads
    <3>2. QED
      BY <1>1, <1>2, <2>4, <3>1, FS_RemoveElement
  <2>5. CASE /\ Returning' \subseteq Returning /\ out' = out
             /\ audit' = audit \/ \E x : audit' = audit \cup {x}
    <3>1. IsFiniteSet(audit') /\ Reads \subseteq Reads'
      BY <1>1, <2>5, FS_AddElement DEF Reads
    <3>2. IsFiniteSet(Reads')
      BY <3>1, FS_Subset DEF Reads
    <3>3. QED
      BY <1>1, <1>2, <2>5, <3>1, <3>2, FS_Subset
  <2>6. QED
    BY <1>0, <1>6, <2>3, <2>4, <2>5, ReadSteps
<1>7. CASE UNCHANGED vars
  BY <1>3, <1>7 DEF vars
<1>8. QED
  BY <1>4, <1>5, <1>6, <1>7 DEF Next

\* However many processes read, fail and crash between commit and return: no
\* value leaves without its record (vault.rs:567-571, 622-650).
THEOREM ReadsLeaveRecords == Spec => []ReadsRecorded
<1>1. Init => ReadsOK
  <2> SUFFICES ASSUME Init PROVE ReadsOK
    OBVIOUS
  <2>1. AlarmOK
    BY InitChainOK DEF Init, AlarmOK, AnchorsOK, NoFalseAlarm
  <2>2. Returning = {} /\ out = 0 /\ IsFiniteSet(audit)
    BY FS_Singleton DEF Init, Returning
  <2>3. IsFiniteSet(Reads)
    BY <2>2, FS_Subset DEF Reads
  <2>4. Cardinality(Reads) \in Nat /\ Cardinality(Returning) = 0 /\ IsFiniteSet(Returning)
    BY <2>2, <2>3, FS_CardinalityType, FS_EmptySet
  <2>5. out + Cardinality(Returning) <= Cardinality(Reads)
    BY <2>2, <2>4
  <2>6. QED
    BY <2>1, <2>2, <2>4, <2>5 DEF ReadsOK, ReadsRecorded, Returning, Reads
<1>2. ReadsOK => ReadsRecorded
  BY DEF ReadsOK
<1>3. QED
  BY <1>1, <1>2, ReadsOKStep, PTL DEF Spec
=============================================================================
