-------------------------------- MODULE Keys --------------------------------
(***************************************************************************)
(* Who holds which key.  Everything encrypted in the vault file is under a *)
(* key-encryption key (KEK) derived from the passphrase and the salt in    *)
(* the header; changing the passphrase re-encrypts the rows and replaces   *)
(* the header.  The daemon keeps header and KEK in memory, and so does     *)
(* every `bsc export` or `bsc import`, which is a process of its own on    *)
(* the same file.  Passphrases and KEKs are numbered by epoch: rotation    *)
(* number n starts epoch n + 1.                                            *)
(*                                                                         *)
(* A human call authenticates (touch_human_session), lets go, and works in *)
(* one hold of the vault mutex; seal and passphrase change end with        *)
(* clear_human_sessions, after the mutex was dropped; a login opens its    *)
(* session after it, too.  The handlers of a login and of a passphrase     *)
(* change wait for a blocking thread at an await.  A client that hangs up  *)
(* there ends the handler and not the thread, whose work stands; what the  *)
(* handler would have done next is not done.                               *)
(***************************************************************************)
EXTENDS Integers, Sequences

CONSTANTS
  Call,        \* slots for human calls being served concurrently
  Cookie,      \* slots for sessions, each a new random id when it is filled
  Cli,         \* export and import processes that can run at a time
  Item,        \* item ids that put can draw
  Holder,      \* token and session ids that can be drawn
  MaxEpoch,    \* bound: passphrases
  MaxVersion,  \* bound: versions per item
  MaxImport    \* bound: writes of one import

ASSUME KeysConstants ==
  MaxEpoch \in Nat \ {0} /\ MaxVersion \in Nat \ {0} /\ MaxImport \in Nat

VARIABLES
  header,   \* epoch of the salt and verifier in table meta
  item,     \* tables item and version: the epoch of each ciphertext
  label,    \* tables token and session: the epoch of label_ct and scope_ct
  daemon,   \* Vault of the daemon: verifier read at open, KEK (0: sealed)
  cookie,   \* AppState::human: the sessions that are live
  call,     \* human calls in progress
  cli       \* export and import processes

vars == <<header, item, label, daemon, cookie, call, cli>>
rows == <<item, label>>

Epoch == 1..MaxEpoch
Pcs == {"idle", "left", "verify", "open", "seal", "rotate", "rotated", "write", "clear"}
Items == [fields: 0..MaxEpoch, deks: Seq(Epoch), notes: Seq(0..MaxEpoch)]
Calls == [pc: Pcs, pass: 0..MaxEpoch]
Clis == [pc: {"none", "opened", "export", "import"}, verifier: 0..MaxEpoch, left: 0..MaxImport]
NoItem == [fields |-> 0, deks |-> << >>, notes |-> << >>]
NoCall == [pc |-> "idle", pass |-> 0]
NoCli == [pc |-> "none", verifier |-> 0, left |-> 0]

TypeOK ==
  /\ header \in Epoch
  /\ item \in [Item -> Items]
  /\ label \in [Holder -> 0..MaxEpoch]
  /\ daemon \in [verifier: Epoch, keys: 0..MaxEpoch]
  /\ cookie \subseteq Cookie
  /\ call \in [Call -> Calls]
  /\ cli \in [Cli -> Clis]

\* A vault that was just created, and a daemon that opened it.
Init ==
  /\ header = 1
  /\ item = [i \in Item |-> NoItem]
  /\ label = [h \in Holder |-> 0]
  /\ \E k \in {0, 1} : daemon = [verifier |-> 1, keys |-> k]
  /\ cookie = {}
  /\ call = [c \in Call |-> NoCall]
  /\ cli = [p \in Cli |-> NoCli]

------------------------------------------------------------------------------
(* Rows.                                                                     *)

Exists(i) == item[i].fields # 0
All(s, e) == \A n \in DOMAIN s : s[n] = e

\* Every ciphertext that rotate_passphrase touches opens under e.
OpensUnder(e) ==
  /\ \A i \in Item : Exists(i) => item[i].fields = e /\ All(item[i].deks, e)
  /\ \A h \in Holder : label[h] \in {0, e}

\* put, add_version, mint_token and open_session under the KEK k.
PutUnder(k) ==
  \E i \in Item :
    /\ ~Exists(i)
    /\ item' = [item EXCEPT ![i] = [fields |-> k, deks |-> <<k>>, notes |-> <<0>>]]
    /\ UNCHANGED label
AddVersionUnder(k) ==
  \E i \in Item, note \in {0, k} :
    /\ Exists(i) /\ Len(item[i].deks) < MaxVersion
    /\ item' = [item EXCEPT ![i].deks = Append(@, k), ![i].notes = Append(@, note)]
    /\ UNCHANGED label
LabelUnder(k) ==
  \E h \in Holder :
    /\ label[h] = 0
    /\ label' = [label EXCEPT ![h] = k] /\ UNCHANGED item
Delete ==
  \E i \in Item :
    /\ Exists(i)
    /\ item' = [item EXCEPT ![i] = NoItem] /\ UNCHANGED label

\* Fault: the wrapped DEKs of old versions are left behind.
Rewrapped_Current(it, e) ==
  IF it.fields = 0 THEN it ELSE [it EXCEPT !.fields = e, !.deks[Len(it.deks)] = e]

\* An item after rotation: path, name, tags, use and every wrapped DEK.  The
\* note of a version is not among the columns.
Rewrapped(it, e) ==
  IF it.fields = 0 THEN it
  ELSE [it EXCEPT !.fields = e, !.deks = [n \in DOMAIN it.deks |-> e]]

\* Fault: the verifier in memory is not replaced.
Installed_KeysOnly(e) == [daemon EXCEPT !.keys = e]

\* Fault: the verifier in memory is wiped.
Installed_Wiped(e) == [verifier |-> 0, keys |-> e]

\* self.params, self.verifier and self.state after the commit.
Installed(e) == [verifier |-> e, keys |-> e]

------------------------------------------------------------------------------
(* Human calls.                                                              *)

Goto(c, pc) == call' = [call EXCEPT ![c] = [pc |-> pc, pass |-> 0]]
Answer(c) == call' = [call EXCEPT ![c] = NoCall]

Free(c) == call[c].pc \in {"idle", "left"}

\* POST /v1/vault/unseal, up to the blocking thread.
Login(c) ==
  /\ Free(c)
  /\ \E p \in 0..MaxEpoch : call' = [call EXCEPT ![c] = [pc |-> "verify", pass |-> p]]
  /\ UNCHANGED <<header, rows, daemon, cookie, cli>>

\* Fault: any passphrase of the past will do.
Accepted_Old(p) == p \in 1..daemon.verifier

\* envelope::check_verifier on the KEK derived from this passphrase.
Accepted(p) == p = daemon.verifier

\* A write of the daemon fails while another process keeps the file's lock.
FileBusy == \E p \in Cli : cli[p].pc # "none"

\* On the blocking thread: unseal, or verify_passphrase when unsealed.  Without
\* its record in the ledger neither goes through.
Verify(c) ==
  /\ call[c].pc = "verify"
  /\ \/ /\ Accepted(call[c].pass)
        /\ daemon' = [daemon EXCEPT !.keys = daemon.verifier]
        /\ Goto(c, "open")
     \/ /\ ~Accepted(call[c].pass) \/ FileBusy
        /\ Answer(c) /\ UNCHANGED daemon
  /\ UNCHANGED <<header, rows, cookie, cli>>

\* open_human_session, after the blocking thread.
OpenHumanSession(c) ==
  /\ call[c].pc = "open"
  /\ \E k \in Cookie \ cookie : cookie' = cookie \cup {k}
  /\ Answer(c)
  /\ UNCHANGED <<header, rows, daemon, cli>>

\* auth::human for a handler that goes on to change the vault.
TouchHumanSession(c) ==
  /\ Free(c) /\ cookie # {}
  /\ \E pc \in {"seal", "rotate", "write"}, p \in 0..MaxEpoch :
       /\ pc # "rotate" => p = 0
       /\ call' = [call EXCEPT ![c] = [pc |-> pc, pass |-> p]]
  /\ UNCHANGED <<header, rows, daemon, cookie, cli>>

\* A session found idle for human_idle is removed.
IdleOut(k) ==
  /\ k \in cookie /\ cookie' = cookie \ {k}
  /\ UNCHANGED <<header, rows, daemon, call, cli>>

\* The keys go first.  If the record of it cannot be written the call ends there.
Seal(c) ==
  /\ call[c].pc = "seal"
  /\ daemon' = [daemon EXCEPT !.keys = 0]
  /\ \/ Goto(c, "clear")
     \/ daemon.keys # 0 /\ FileBusy /\ Answer(c)
  /\ UNCHANGED <<header, rows, cookie, cli>>

\* rotate_passphrase: one transaction.  A wrong passphrase, a row that does not
\* open under the old KEK, or a file another process is writing leaves all as
\* it was; so does the bound on epochs.
Rotate(c) ==
  /\ call[c].pc = "rotate"
  /\ \/ LET e == header + 1 IN
        /\ Accepted(call[c].pass) /\ OpensUnder(daemon.verifier)
        /\ header < MaxEpoch
        /\ header' = e
        /\ item' = [i \in Item |-> Rewrapped(item[i], e)]
        /\ label' = [h \in Holder |-> IF label[h] = 0 THEN 0 ELSE e]
        /\ daemon' = Installed(e)
        /\ Goto(c, "rotated")
     \/ /\ \/ ~Accepted(call[c].pass) \/ ~OpensUnder(daemon.verifier)
           \/ FileBusy \/ header = MaxEpoch
        /\ Answer(c) /\ UNCHANGED <<header, rows, daemon>>
  /\ UNCHANGED <<cookie, cli>>

\* Fault: the map is left as it is.
Cleared_Not == cookie

Cleared == {}

\* clear_human_sessions, after a seal or a passphrase change.
ClearHumanSessions(c) ==
  /\ call[c].pc \in {"clear", "rotated"}
  /\ cookie' = Cleared
  /\ Answer(c)
  /\ UNCHANGED <<header, rows, daemon, cli>>

\* The client has hung up while the handler waited for the blocking thread: the
\* thread has done its work all the same, and the handler does not get its turn.
\* Between seal and clear nothing is awaited.
Disconnect(c) ==
  /\ \/ call[c].pc = "open" /\ Answer(c)
     \/ call[c].pc = "rotated" /\ Goto(c, "left")
  /\ UNCHANGED <<header, rows, daemon, cookie, cli>>

\* create_item, add_version, mint_token, open_session and delete_item, which
\* need the KEK; or the refusal of a sealed vault.
Write(c) ==
  /\ call[c].pc = "write"
  /\ \/ /\ daemon.keys # 0
        /\ \/ PutUnder(daemon.keys) \/ AddVersionUnder(daemon.keys)
           \/ LabelUnder(daemon.keys) \/ Delete
     \/ UNCHANGED rows
  /\ Answer(c)
  /\ UNCHANGED <<header, daemon, cookie, cli>>

\* The daemon dies and is started again, sealed or with an unattended source.
Restart ==
  /\ \E k \in {0, header} : daemon' = [verifier |-> header, keys |-> k]
  /\ cookie' = Cleared
  /\ call' = [c \in Call |-> NoCall]
  /\ UNCHANGED <<header, rows, cli>>

------------------------------------------------------------------------------
(* bsc export, bsc import.                                                   *)

\* Vault::open reads the header, then the passphrases are asked for.
CliOpen(p) ==
  /\ cli[p].pc = "none"
  /\ cli' = [cli EXCEPT ![p] = [pc |-> "opened", verifier |-> header, left |-> 0]]
  /\ UNCHANGED <<header, rows, daemon, cookie, call>>

\* unseal with the passphrase of the header that was read; any other ends it.
CliUnseal(p) ==
  /\ cli[p].pc = "opened"
  /\ \/ \E pc \in {"export", "import"} :
          cli' = [cli EXCEPT ![p].pc = pc, ![p].left = IF pc = "import" THEN MaxImport ELSE 0]
     \/ cli' = [cli EXCEPT ![p] = NoCli]
  /\ UNCHANGED <<header, rows, daemon, cookie, call>>

\* import_all, one commit: put of an item or add_version of a later version.
CliImport(p) ==
  /\ cli[p].pc = "import" /\ cli[p].left > 0
  /\ PutUnder(cli[p].verifier) \/ AddVersionUnder(cli[p].verifier)
  /\ cli' = [cli EXCEPT ![p].left = @ - 1]
  /\ UNCHANGED <<header, daemon, cookie, call>>

\* Done, failed or killed.
CliExit(p) ==
  /\ cli[p].pc \in {"export", "import"}
  /\ cli' = [cli EXCEPT ![p] = NoCli]
  /\ UNCHANGED <<header, rows, daemon, cookie, call>>

CallStep(c) ==
  \/ Verify(c) \/ OpenHumanSession(c) \/ Seal(c) \/ Rotate(c)
  \/ ClearHumanSessions(c) \/ Write(c)

Next ==
  \/ \E c \in Call : Login(c) \/ TouchHumanSession(c) \/ Disconnect(c) \/ CallStep(c)
  \/ \E k \in Cookie : IdleOut(k)
  \/ Restart
  \/ \E p \in Cli : CliOpen(p) \/ CliUnseal(p) \/ CliImport(p) \/ CliExit(p)

Spec == Init /\ [][Next]_vars
FairSpec == Spec /\ \A c \in Call : WF_vars(CallStep(c))

------------------------------------------------------------------------------
(* Properties.                                                               *)

\* What the daemon keeps in memory is what the file says: the passphrase that
\* opens the vault after any rotation, restart or seal is the one of the header
\* (vault.rs:1141-1147, 209-254).
MemoryMatchesHeader == daemon.verifier = header /\ daemon.keys \in {0, header}

\* Item fields, wrapped DEKs, labels and scopes that open under the header's KEK
\* go on to, through rotations, writes, restarts and imports (vault.rs:985-1149).
\* One step takes that away: an import process that read the header before a
\* rotation writes its next row after it, under the KEK it has (main.rs:594-617).
ReadableKept ==
  [][OpensUnder(header) =>
       OpensUnder(header)' \/ \E p \in Cli : CliImport(p) /\ cli[p].verifier < header]_vars

\* A sealed daemon gets its KEK back only from a start with an unattended
\* source or from a call that brought the passphrase of the header, whichever
\* logins, seals and rotations overlap (human.rs:121-129, 173-177).
UnsealedByPassphrase ==
  [][daemon.keys = 0 /\ daemon.keys' # 0 =>
       Restart \/ \E c \in Call : call[c].pass = header /\ call[c].pc \in {"verify", "rotate"}]_vars

\* A seal or a passphrase change that got through comes to a time at which no
\* session is live, whatever other calls do meanwhile; unless the client of the
\* change hangs up before its handler goes on (human.rs:173-181, 268-269).
OldSessionsEnd ==
  \A c \in Call : call[c].pc \in {"clear", "rotated"} ~> cookie = {} \/ call[c].pc = "left"

------------------------------------------------------------------------------
(* What the documentation says and the code does not do.                     *)

\* vault.rs:979-984: rotation "re-encrypts every KEK-direct field".  The note
\* of a version is one, and is left under the old KEK.
NotesReadable ==
  \A i \in Item : \A n \in DOMAIN item[i].notes : item[i].notes[n] \in {0, header}

\* docs/API_CONTRACT.md:161-162: sessions "are all dropped on seal".  A login
\* that was verified before the seal opens its session after the drop.
SealDropsSessions ==
  daemon.keys = 0 /\ (\A c \in Call : call[c].pc # "clear") => cookie = {}
=============================================================================
