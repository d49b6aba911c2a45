-------------------------------- MODULE Open --------------------------------
(***************************************************************************)
(* How a vault file comes to be and is opened.  `bsc init` creates it in   *)
(* several commits; every other command is a process of its own that       *)
(* starts with Vault::open, which brings an older file up to the schema of *)
(* this binary (schema::migrate, one transaction) and reads the header row *)
(* by row.  Nothing but SQLite keeps these processes apart: a transaction  *)
(* writes on the snapshot of its first read or not at all, and one writes  *)
(* at a time.                                                              *)
(***************************************************************************)
EXTENDS Integers

CONSTANTS
  Proc,      \* slots for processes at work on the file
  Row,       \* ids of approvals, the history a migration copies
  MaxEpoch,  \* bound: headers written (creations and passphrase changes)
  Nobody     \* no process, no answer

ASSUME OpenConstants == MaxEpoch \in Nat \ {0} /\ Nobody \notin Proc

VARIABLES
  file,  \* the vault file, as committed
  lock,  \* SQLite's write lock on it
  proc   \* the processes

vars == <<file, lock, proc>>

SCHEMA_VERSION == 2
Epoch == 0..MaxEpoch
Versions == 0..(SCHEMA_VERSION + 1)

(* Field version is the row of table meta (0: no row yet; it is written    *)
(* together with row format), shape the version whose columns and          *)
(* constraints the tables have (0: no tables), salt and verifier the       *)
(* header's, by epoch, rows the approvals, migrated the records            *)
(* schema_migrated in the ledger, dangling whether a foreign key of the    *)
(* file leads nowhere.                                                     *)
Files == [there: BOOLEAN, shape: Versions, version: Versions, salt: Epoch, verifier: Epoch,
          rows: SUBSET Row, migrated: Nat, dangling: BOOLEAN]
NoFile == [there |-> FALSE, shape |-> 0, version |-> 0, salt |-> 0, verifier |-> 0,
           rows |-> {}, migrated |-> 0, dangling |-> FALSE]

Causes == {"path exists", "no such file", "no format", "newer", "busy", "migration", "passphrase"}
Pcs == {"none", "connect", "create", "header", "migrate", "rebuild", "recheck",
        "salt", "verifier", "opened", "unsealed", "created", "refused"}
Procs == [pc: Pcs, snap: Files, salt: Epoch, verifier: Epoch, cause: Causes \cup {Nobody}]
Gone == [pc |-> "none", snap |-> NoFile, salt |-> 0, verifier |-> 0, cause |-> Nobody]

TypeOK ==
  /\ file \in Files
  /\ lock \in Proc \cup {Nobody}
  /\ proc \in [Proc -> Procs]

\* No file, or one that this, the earlier or a later release left behind.
Init ==
  /\ \/ file = NoFile
     \/ \E v \in 1..(SCHEMA_VERSION + 1), r \in SUBSET Row, d \in BOOLEAN :
          file = [there |-> TRUE, shape |-> v, version |-> v, salt |-> 1, verifier |-> 1,
                  rows |-> r, migrated |-> 0, dangling |-> d]
  /\ lock = Nobody
  /\ proc = [p \in Proc |-> Gone]

------------------------------------------------------------------------------
Goto(p, pc) == proc' = [proc EXCEPT ![p].pc = pc]
Refuse(p, why) == proc' = [proc EXCEPT ![p].pc = "refused", ![p].cause = why]

\* A statement that writes waits for the lock, for the busy timeout at most.
Writable(p) == lock \in {Nobody, p}
Busy(p) == ~Writable(p)

------------------------------------------------------------------------------
(* bsc init.                                                                 *)

\* The path must be free when it is looked at.
CreateCheck(p) ==
  /\ proc[p].pc = "none"
  /\ IF file.there THEN Refuse(p, "path exists") ELSE Goto(p, "connect")
  /\ UNCHANGED <<file, lock>>

\* Connection::open makes the file, or takes the one that is there by now.
CreateFile(p) ==
  /\ proc[p].pc = "connect"
  /\ file' = [file EXCEPT !.there = TRUE]
  /\ Goto(p, "create")
  /\ UNCHANGED lock

\* CREATE TABLE IF NOT EXISTS, each on its own.
CreateTables(p) ==
  /\ proc[p].pc = "create" /\ Writable(p)
  /\ file' = [file EXCEPT !.shape = IF @ = 0 THEN SCHEMA_VERSION ELSE @]
  /\ Goto(p, "header")
  /\ UNCHANGED lock

\* Format, version, a fresh salt and its verifier, and the first record.  The
\* first statement of the transaction writes, so it has no older snapshot.
CreateHeader(p) ==
  /\ proc[p].pc = "header" /\ Writable(p) /\ file.salt < MaxEpoch
  /\ file' = [file EXCEPT !.version = SCHEMA_VERSION,
                          !.salt = @ + 1, !.verifier = file.salt + 1]
  /\ Goto(p, "created")
  /\ UNCHANGED lock

------------------------------------------------------------------------------
(* Vault::open.                                                              *)

\* Fault: an older schema is taken as it is.
AfterVersion_AsIs(v) == IF v = 0 THEN "no format" ELSE IF v > SCHEMA_VERSION THEN "newer" ELSE "salt"

\* What open goes on to when it has read format and schema_version.
AfterVersion(v) ==
  CASE v = 0 -> "no format"
    [] v > SCHEMA_VERSION -> "newer"
    [] v = SCHEMA_VERSION -> "salt"
    [] OTHER -> "migrate"

OpenVersion(p) ==
  /\ proc[p].pc = "none"
  /\ LET next == IF file.there THEN AfterVersion(file.version) ELSE "no such file" IN
     IF next \in Causes THEN Refuse(p, next) ELSE Goto(p, next)
  /\ UNCHANGED <<file, lock>>

\* has_column, the first read of the transaction: its snapshot.
MigrateBegin(p) ==
  /\ proc[p].pc = "migrate"
  /\ proc' = [proc EXCEPT ![p].pc = "rebuild", ![p].snap = file]
  /\ UNCHANGED <<file, lock>>

\* SQLite: nobody may have committed since the snapshot was taken.
Current(p) == proc[p].snap = file

\* Fault: the columns are added whether or not they are there.
Addable_Fresh(f) == f.shape = 1

\* ALTER TABLE ADD COLUMN only for a column the snapshot does not have.
Addable(f) == TRUE

\* The first write of v1_to_v2; it needs the lock and the newest snapshot.
MigrateWrite(p) ==
  /\ proc[p].pc = "rebuild"
  /\ \/ Writable(p) /\ Current(p) /\ Addable(proc[p].snap) /\ lock' = p /\ Goto(p, "recheck")
     \/ (Busy(p) \/ ~Current(p)) /\ Refuse(p, "busy") /\ UNCHANGED lock
     \/ Writable(p) /\ Current(p) /\ ~Addable(proc[p].snap)
          /\ Refuse(p, "migration") /\ UNCHANGED lock
  /\ UNCHANGED file

\* Fault: a step up from whatever version is found.
Rebuilt_Step(f) == [f EXCEPT !.shape = @ + 1]

\* Fault: approval_v2 takes the place of approval, and nothing was copied.
Rebuilt_Empty(f) == [f EXCEPT !.shape = SCHEMA_VERSION, !.rows = {}]

\* The columns are added and the two tables rebuilt, row for row.
Rebuilt(f) == [f EXCEPT !.shape = SCHEMA_VERSION]

\* Fault: the foreign keys are not looked at.
KeysHold_Unchecked(f) == TRUE

\* pragma_foreign_key_check after the rebuild.
KeysHold(f) == ~f.dangling

\* The version, the check, the record and the commit; or the rollback.
MigrateCommit(p) ==
  /\ proc[p].pc = "recheck"
  /\ lock' = Nobody
  /\ \/ /\ KeysHold(proc[p].snap)
        /\ file' = [Rebuilt(proc[p].snap) EXCEPT !.version = SCHEMA_VERSION, !.migrated = @ + 1]
        /\ proc' = [proc EXCEPT ![p].pc = "salt", ![p].snap = NoFile]
     \/ /\ ~KeysHold(proc[p].snap)
        /\ Refuse(p, "migration") /\ UNCHANGED file

\* The header, row by row and in no transaction.
ReadSalt(p) ==
  /\ proc[p].pc = "salt"
  /\ proc' = [proc EXCEPT ![p].pc = "verifier", ![p].salt = file.salt]
  /\ UNCHANGED <<file, lock>>
ReadVerifier(p) ==
  /\ proc[p].pc = "verifier"
  /\ proc' = [proc EXCEPT ![p].pc = "opened", ![p].verifier = file.verifier]
  /\ UNCHANGED <<file, lock>>

------------------------------------------------------------------------------
(* Afterwards.                                                               *)

\* check_verifier: a KEK is of one passphrase and its salt, so a header that was
\* read on both sides of a passphrase change opens with no passphrase at all.
Verified(p, pass) == pass = proc[p].verifier /\ proc[p].salt = proc[p].verifier

\* unseal and unseal_unattended, with the passphrase of any time so far.
Unseal(p) ==
  /\ proc[p].pc = "opened"
  /\ \E pass \in 1..file.salt :
       IF Verified(p, pass) THEN Goto(p, "unsealed") ELSE Refuse(p, "passphrase")
  /\ UNCHANGED <<file, lock>>

\* request_approval, for an agent of a daemon.
Work(p) ==
  /\ proc[p].pc = "unsealed" /\ Writable(p)
  /\ \E r \in Row \ file.rows : file' = [file EXCEPT !.rows = @ \cup {r}]
  /\ UNCHANGED <<lock, proc>>

\* rotate_passphrase, of a daemon: what the file has under a key must open under
\* the one it unsealed with.
Rotate(p) ==
  /\ proc[p].pc = "unsealed" /\ Writable(p)
  /\ proc[p].verifier = file.verifier /\ file.salt < MaxEpoch
  /\ file' = [file EXCEPT !.salt = @ + 1, !.verifier = file.salt + 1]
  /\ proc' = [proc EXCEPT ![p].salt = file.salt + 1, ![p].verifier = file.salt + 1]
  /\ UNCHANGED lock

\* It ends, fails, or is killed wherever it is: SQLite rolls back what is open.
End(p) ==
  /\ proc[p].pc # "none"
  /\ proc' = [proc EXCEPT ![p] = Gone]
  /\ lock' = IF lock = p THEN Nobody ELSE lock
  /\ UNCHANGED file

Create(p) == CreateCheck(p) \/ CreateFile(p) \/ CreateTables(p) \/ CreateHeader(p)
Migrate(p) == MigrateBegin(p) \/ MigrateWrite(p) \/ MigrateCommit(p)
OpenStep(p) == OpenVersion(p) \/ Migrate(p) \/ ReadSalt(p) \/ ReadVerifier(p)

Next == \E p \in Proc :
  Create(p) \/ OpenStep(p) \/ Unseal(p) \/ Work(p) \/ Rotate(p) \/ End(p)

Spec == Init /\ [][Next]_vars

------------------------------------------------------------------------------
(* Properties.                                                               *)

InUse == {"salt", "verifier", "opened", "unsealed"}

\* Whoever got past the migration works on a file of this schema, complete
\* with its header, whatever the others migrate, create, abandon or refuse
\* meanwhile (vault.rs:201-223; the failure docs/M6_VALIDATION.md:109 tells of).
OpenedCurrent ==
  \A p \in Proc : proc[p].pc \in InUse =>
    /\ file.there /\ file.version = SCHEMA_VERSION /\ file.shape = SCHEMA_VERSION
    /\ file.salt # 0 /\ file.verifier = file.salt

\* No commit of anybody loses a row: a second process that read the old
\* version migrates again, on a file the first one works on (schema.rs:90-118).
HistoryKept == [][file.rows \subseteq file'.rows]_vars

\* A migration that may not go through leaves the file of the earlier release
\* as it was, columns, version and ledger, whoever tries, gives up or dies on
\* it (schema.rs:19-21, 44-51).
FailureLeavesFile ==
  file.dangling => file.version = file.shape /\ file.migrated = 0

\* When a process refuses a vault there is a cause in the file as it is then: it is
\* of a newer release, or a row of it points nowhere; or, for a migration that is
\* refused as busy, somebody else is writing or has migrated it meanwhile, so that
\* to open it again needs no migration (schema.rs:22-31, 44-51, 81-86).
RefusedForCause ==
  [][\A p \in Proc : proc[p].pc # "refused" /\ proc'[p].pc = "refused" =>
       /\ proc'[p].cause = "newer" => file.version > SCHEMA_VERSION
       /\ proc'[p].cause = "migration" => file.dangling
       /\ proc'[p].cause = "busy" => lock \notin {Nobody, p} \/ file.version = SCHEMA_VERSION]_vars
=============================================================================
