------------------------------- MODULE Ledger -------------------------------
(***************************************************************************)
(* The hash-chained ledger: table audit, the processes that append to it   *)
(* and `bsc audit`, which walks the chain and compares it with anchors     *)
(* kept in a file outside the vault.                                       *)
(*                                                                         *)
(* The daemon, `bsc import` and `bsc export` are processes with a          *)
(* connection each; a process does one thing at a time on it.  A record is *)
(* appended by a SELECT of the head and an INSERT, and how far apart the   *)
(* two are depends on the caller:                                          *)
(*                                                                         *)
(*   audit_now      two statements of their own, without a transaction;    *)
(*   a write        a transaction that has written before, so that it      *)
(*                  holds SQLite's write lock when it reads the head;      *)
(*   read_version   a transaction that reads the head first, and has to    *)
(*                  take the lock on the snapshot it read.                 *)
(*                                                                         *)
(* SHA-256 is taken to be injective: a hash is the tuple of what it hashes. *)
(***************************************************************************)
EXTENDS Integers, FiniteSets

CONSTANTS
  Proc,         \* processes that have the vault file open
  Auditor,      \* `bsc audit --anchor-file` runs that can overlap
  Nobody,       \* the write lock is free
  MaxLen,       \* bound: nothing is begun on a ledger this long
  MaxReads,     \* bound: values returned
  MaxRestores   \* bound: copies put back

ASSUME LedgerConstants ==
  /\ Nobody \notin Proc
  /\ MaxLen \in Nat /\ MaxReads \in Nat /\ MaxRestores \in Nat

VARIABLES
  audit,     \* table audit
  lock,      \* the process that holds SQLite's write lock
  proc,      \* where each process is, and the head it has read
  out,       \* history: values that read_version returned
  anchors,   \* the anchor file; past is history: what the ledger said then
  run,       \* `bsc audit` runs
  alarm,     \* history: some run reported a broken, cut or rewritten chain
  restored   \* history: how often an older copy of the vault was put back

vars == <<audit, lock, proc, out, anchors, run, alarm, restored>>

Zero == << >>
Kinds == {"op", "read", "error"}
ProcPcs == {"idle", "now", "write", "snapshot", "decrypt", "return", "failed"}
RunPcs == {"idle", "check", "take", "write"}

\* Fault: the previous record is not hashed.
compute_hash_Unlinked(n, what, prev) == <<n, what, Zero>>

compute_hash(n, what, prev) == <<n, what, prev>>

Record(n, what, prev) ==
  [n |-> n, what |-> what, prev |-> prev, hash |-> compute_hash(n, what, prev)]

------------------------------------------------------------------------------
(* Reading the table.                                                        *)

\* The row with the largest n; of an empty table, 32 zero bytes and length 0.
Last(rows) == CHOOSE r \in rows : \A q \in rows : q.n <= r.n
Head(rows) ==
  IF rows = {} THEN [n |-> 0, hash |-> Zero]
  ELSE [n |-> Last(rows).n, hash |-> Last(rows).hash]

head == Head(audit)

\* ChainStatus::Intact: the walk finds 1, 2, 3 ..., every record names the hash
\* of the one before, and every hash recomputes.
Follows(r) ==
  IF r.n = 1 THEN r.prev = Zero ELSE \E q \in audit : q.n = r.n - 1 /\ q.hash = r.prev
Intact ==
  /\ \A r \in audit : /\ r.n >= 1 /\ Follows(r)
                      /\ r.hash = compute_hash(r.n, r.what, r.prev)
  /\ \A q, r \in audit : q.n = r.n => q = r

\* One anchor against the table; an anchor of the empty ledger is skipped.
Agrees(a) == a.len = 0 \/ \E r \in audit : r.n = a.len /\ r.hash = a.head

\* What the first k records say.
Contents(k) == {[n |-> r.n, what |-> r.what] : r \in {q \in audit : q.n <= k}}

Init ==
  /\ audit = {Record(1, "op", Zero)}       \* vault_created
  /\ lock = Nobody
  /\ proc = [p \in Proc |-> [pc |-> "idle", what |-> "op", head |-> Head({})]]
  /\ out = 0 /\ anchors = {}
  /\ run = [d \in Auditor |-> [pc |-> "idle", head |-> Head({}), past |-> {}]]
  /\ alarm = FALSE /\ restored = 0

------------------------------------------------------------------------------
(* Appending.                                                                *)

Room == Cardinality(audit) < MaxLen
LockFree == lock = Nobody
Goto(p, pc) == proc' = [proc EXCEPT ![p].pc = pc]
GotoWithHead(p, pc, what) == proc' = [proc EXCEPT ![p] = [pc |-> pc, what |-> what, head |-> head]]
others == <<out, anchors, run, alarm, restored>>

\* The INSERT of append on the head h that was read before.
Appended(what, h) == audit \cup {Record(h.n + 1, what, h.hash)}

\* Fault: the column n is no primary key.
Taken_Never(n) == FALSE

\* n is the primary key of the table.
Taken(n) == \E r \in audit : r.n = n

\* audit_now: the SELECT.
NowHead(p) ==
  /\ proc[p].pc = "idle" /\ Room
  /\ GotoWithHead(p, "now", "op")
  /\ UNCHANGED <<audit, lock, others>>

\* audit_now: the INSERT, or its failure.
NowInsert(p) ==
  /\ proc[p].pc = "now"
  /\ \/ LockFree /\ ~Taken(proc[p].head.n + 1) /\ audit' = Appended(proc[p].what, proc[p].head)
     \/ (~LockFree \/ Taken(proc[p].head.n + 1)) /\ UNCHANGED audit
  /\ Goto(p, "idle")
  /\ UNCHANGED <<lock, others>>

\* put, add_version, mint_token and the rest: the first write of the transaction.
BeginWrite(p) ==
  /\ proc[p].pc = "idle" /\ Room /\ LockFree
  /\ lock' = p
  /\ Goto(p, "write")
  /\ UNCHANGED <<audit, others>>

\* Its append, on the head it finds now, and its commit; or its failure.
CommitWrite(p) ==
  /\ proc[p].pc = "write"
  /\ \/ audit' = Appended("op", head)
     \/ UNCHANGED audit
  /\ lock' = Nobody
  /\ Goto(p, "idle")
  /\ UNCHANGED others

\* read_version: the SELECT of append opens a snapshot.
ReadSnapshot(p) ==
  /\ proc[p].pc = "idle" /\ Room /\ out < MaxReads
  /\ GotoWithHead(p, "snapshot", "read")
  /\ UNCHANGED <<audit, lock, others>>

\* SQLite refuses a write on a snapshot that is not the last one.
Current(p) == proc[p].head = head

\* Its INSERT, not yet committed; or SQLITE_BUSY, which ends the read.
ReadInsert(p) ==
  /\ proc[p].pc = "snapshot"
  /\ \/ LockFree /\ Current(p) /\ lock' = p /\ Goto(p, "decrypt")
     \/ (~LockFree \/ ~Current(p)) /\ Goto(p, "idle") /\ UNCHANGED lock
  /\ UNCHANGED <<audit, others>>

\* Fault: the transaction is dropped, not committed.
Committed_Not(p) == audit

\* The table after the commit of the record of a read.
Committed(p) == Appended("read", proc[p].head)

\* The body opens: the record is committed, then the value is returned.
ReadCommit(p) ==
  /\ proc[p].pc = "decrypt"
  /\ audit' = Committed(p)
  /\ lock' = Nobody
  /\ Goto(p, "return")
  /\ UNCHANGED others

ReadReturn(p) ==
  /\ proc[p].pc = "return"
  /\ out' = out + 1
  /\ Goto(p, "idle")
  /\ UNCHANGED <<audit, lock, anchors, run, alarm, restored>>

\* The body does not open: the record is rolled back.  A body too short to be a
\* ciphertext ends the read here (Sealed::from_slice).
ReadRollback(p) ==
  /\ proc[p].pc = "decrypt"
  /\ lock' = Nobody
  /\ Goto(p, "failed") \/ Goto(p, "idle")
  /\ UNCHANGED <<audit, others>>

\* The error record is appended like that of audit_now.
ReadErrorHead(p) ==
  /\ proc[p].pc = "failed"
  /\ GotoWithHead(p, "now", "error")
  /\ UNCHANGED <<audit, lock, others>>

\* A process dies: SQLite undoes what it did not commit.
Crash(p) ==
  /\ proc[p].pc # "idle"
  /\ Goto(p, "idle")
  /\ lock' = IF lock = p THEN Nobody ELSE lock
  /\ UNCHANGED <<audit, others>>

\* With everything stopped, an older copy of the file is put back.
Restore ==
  /\ restored < MaxRestores
  /\ \A p \in Proc : proc[p].pc = "idle"
  /\ \E k \in {r.n : r \in audit} \ {1} : audit' = {r \in audit : r.n < k}
  /\ restored' = restored + 1
  /\ UNCHANGED <<lock, proc, out, anchors, run, alarm>>

------------------------------------------------------------------------------
(* bsc audit --anchor-file.  Each of its reads sees the last commit.         *)

RunGoto(d, pc) == run' = [run EXCEPT ![d].pc = pc]

AuditVerify(d) ==
  /\ run[d].pc = "idle"
  /\ \/ Intact /\ RunGoto(d, "check") /\ UNCHANGED alarm
     \/ ~Intact /\ alarm' = TRUE /\ UNCHANGED run
  /\ UNCHANGED <<audit, lock, proc, out, anchors, restored>>

AuditCheck(d) ==
  /\ run[d].pc = "check"
  /\ \/ (\A a \in anchors : Agrees(a)) /\ RunGoto(d, "take") /\ UNCHANGED alarm
     \/ (\E a \in anchors : ~Agrees(a)) /\ alarm' = TRUE /\ RunGoto(d, "idle")
  /\ UNCHANGED <<audit, lock, proc, out, anchors, restored>>

\* Fault: the number of the next record is written down.
Anchored_OffByOne(d) == [n |-> head.n + 1, hash |-> head.hash]

\* anchor_now: the head, in one read.
Anchored(d) == head

AuditTake(d) ==
  /\ run[d].pc = "take"
  /\ run' = [run EXCEPT ![d] = [pc |-> "write", head |-> Anchored(d),
                                past |-> Contents(head.n)]]
  /\ UNCHANGED <<audit, lock, proc, out, anchors, alarm, restored>>

AuditWrite(d) ==
  /\ run[d].pc = "write"
  /\ anchors' = anchors \cup {[len |-> run[d].head.n, head |-> run[d].head.hash,
                               past |-> run[d].past]}
  /\ RunGoto(d, "idle")
  /\ UNCHANGED <<audit, lock, proc, out, alarm, restored>>

AuditQuit(d) ==
  /\ run[d].pc # "idle"
  /\ RunGoto(d, "idle")
  /\ UNCHANGED <<audit, lock, proc, out, anchors, alarm, restored>>

ProcStep(p) ==
  \/ NowHead(p) \/ NowInsert(p) \/ BeginWrite(p) \/ CommitWrite(p)
  \/ ReadSnapshot(p) \/ ReadInsert(p) \/ ReadCommit(p) \/ ReadReturn(p)
  \/ ReadRollback(p) \/ ReadErrorHead(p) \/ Crash(p)

AuditStep(d) ==
  \/ AuditVerify(d) \/ AuditCheck(d) \/ AuditTake(d) \/ AuditWrite(d) \/ AuditQuit(d)

Next ==
  \/ \E p \in Proc : ProcStep(p)
  \/ \E d \in Auditor : AuditStep(d)
  \/ Restore

Spec == Init /\ [][Next]_vars

------------------------------------------------------------------------------
(* Properties.                                                               *)

\* However the appends of several processes interleave, fail and crash, and
\* whatever copy is put back, `bsc audit` finds the chain intact: no fork, no
\* gap (audit.rs:95-143).
ChainIntact == Intact

\* An alarm means that history was changed: no interleaving of appends, reads
\* and audit runs makes an anchor disagree (audit.rs:228-262).
NoFalseAlarm == alarm => restored > 0

\* An anchor of one head pins all that came before: when it still agrees, every
\* record up to its length says what it said when the anchor was taken
\* (audit.rs:192-203; THREAT_MODEL A6).
AnchorPinsHistory ==
  \A a \in anchors : Agrees(a) => Contents(a.len) = a.past

\* No value leaves without its record: unless an older copy was put back, the
\* ledger has at least as many committed reads as values were returned
\* (vault.rs:567-571, 622-650).
ReadsRecorded ==
  restored = 0 =>
    out + Cardinality({p \in Proc : proc[p].pc = "return"})
      <= Cardinality({r \in audit : r.what = "read"})
=============================================================================
