# Bastet Secret Chain in TLA+

Bastet Secret Chain keeps secrets in one encrypted SQLite file. Humans manage
them through a local web page, AI agents read them through an HTTP API with
bearer tokens, and items marked *approval required* are read only after a human
said yes. These modules model the parts in which the order of events decides
whether the product keeps its promises: who may read what and when, which key
each ciphertext is under, and what the audit ledger can be trusted to say.

Line numbers refer to `crates/` (`access.rs`, `vault.rs`, `audit.rs`,
`schema.rs`, `export.rs` in `bsc-store`; `agent.rs`, `human.rs`, `auth.rs`,
`state.rs`, `use_secret.rs`, `telegram.rs`, `notify.rs` in `bsc-daemon`;
`main.rs`, `service.rs` in `bsc`).

## 1. The system

| component | state | operations | hard behaviour | what makes it correct |
|---|---|---|---|---|
| tokens, grants, approvals, task sessions (`access.rs`) | tables `token`, `access_grant`, `approval`, `session` | mint, renew, revoke; request, decide, time out, escalate, consume; grant, revoke grant; open, close session; `consume_read` | each operation is one commit, a request is several | quota never exceeded; a grant has an approval or a human behind it and ends with its token; one open request per token and item; silence is a no |
| agent handlers (`agent.rs`, `auth.rs`) | a copy of the token row; the vault mutex guard | read, ask, poll, renew (list, search, whoami only write ledger records) | the token is copied under the mutex and used in a later hold; `tick` is called between two holds; commits before a refusal stay | what was checked before the charge holds when the value is decrypted; every request ends |
| ticker (`state.rs:287-331`) | none of its own | `timeout_approvals`, then `escalate_approvals` | runs from a task, from polls, from asks and from human decisions; late after a restart | every pending request is closed after its deadline, sealed or not |
| item store (`vault.rs`) | tables `item`, `version`, `blind_index` | put, add_version, set flags, delete, read_version | deletion touches grants and pending requests; another process (`bsc import`) writes too | a pending request or grant names an item that exists |
| keys (`vault.rs`) | `State::Sealed` or the KEK, `params`, `verifier`; header rows in `meta` | open, unseal, seal, verify, rotate | rotation re-encrypts every column under the KEK in one transaction, then replaces three fields in memory | all rows open under the key of the header; memory agrees with the file |
| human surface (`human.rs`, `state.rs:173-212`) | map of human sessions | login, seal, change passphrase, writes | login and passphrase change wait for a blocking thread, and a client that hangs up meanwhile ends the handler and not the thread; the session map is changed after the mutex was let go | a sealed vault opens only for the passphrase; old sessions end |
| export, import (`export.rs`, `main.rs`) | a `Vault` of its own: header, KEK | unseal, read all, write item by item | runs beside the daemon with keys read earlier | what was readable stays so |
| ledger (`audit.rs`) | table `audit` | append, verify, anchor, check anchors | head is read before the record is inserted, with three different kinds of transaction around it | no fork and no gap; a returned value is recorded |
| `bsc audit` (`main.rs:664-710`) | anchor file | verify, compare, take and append an anchor | separate reads while the daemon appends | no false alarm; an anchor pins all history before it |
| `use_secret` (`use_secret.rs`) | none | an approved read whose value goes to an upstream | upstream call outside the mutex; address check after charge and decryption | as a read; the quota counts what left and what did not |
| Telegram (`telegram.rs`), OS notifications (`notify.rs`) | update offset, channel | deliver, poll, handle a button | delivery tried once and possibly late; buttons old, late or handled twice; the offset is in memory | no stage announced twice or made up; old buttons decide nothing they may not; no button lost |
| rate limit and login throttle (`state.rs:217-259`) | per-token and per-client counters | check, count | login check and count are apart; the clock is read before the lock is taken; a client can hang up before its wrong passphrase is counted | how far the limits can be passed; nobody is locked out |
| scope matching (`access.rs`) | none | `covers`, `within`, `normalize_prefix` | boundaries of path prefixes | a scope never covers what its parent does not |
| `bsc service` (`service.rs`) | definition file; what the platform's supervisor knows | install, uninstall | a sequence of commands that can fail, over what an earlier install left | the daemon that runs is the one last installed |
| creation, opening, migration (`vault.rs`, `schema.rs`) | table `meta`, the schema | create, open, migrate | several commits and reads, by processes that know nothing of each other | whoever works, works on a whole file of this schema; a migration loses nothing |
| cryptography (`bsc-crypto`), MCP server (`bsc-mcp`), doctor, web page (`ui/`) | - | - | - | see section 7 |

How they interact. All handlers share one `std::sync::Mutex<Vault>`
(`state.rs:166`). It is not reentrant. Agent handlers take it once to resolve
the token, let go, and take it again for the rest; every human handler does its
work in one hold. The ticker takes it for a whole pass. Other processes
(`bsc export`, `bsc import`, `bsc audit`) share only the SQLite file: they hold
no mutex of the daemon, and conflicts are decided by SQLite's write lock. The
ticker hands new stages of approvals through an unbounded channel to the task
that calls Telegram; another task polls for buttons and decides approvals under
the same mutex as the page. The two counters of `state.rs` have locks of their
own.

## 2. Modules

| module | what it is |
|---|---|
| `Access` | tokens, grants, approvals, sessions, the agent handlers step by step, the ticker, the human operations, imports, crashes |
| `ApprovalFlow` | abstract specification: the life of one approval request |
| `MCAccess` | `Access` for TLC (escalation ladders, symmetry) |
| `AccessProofs` | theorems about `Access`: types, tables, the mutex |
| `ApprovalProofs` | theorems about `Access` that follow an approval, a grant and the quota; the refinement of `ApprovalFlow` |
| `Keys` | KEK epochs of file, daemon, command-line processes and every ciphertext; human sessions |
| `KeysProofs` | theorems about `Keys` |
| `Ledger` | table `audit`, the three ways to append, `bsc audit` with its anchor file, restored copies |
| `MCLedger` | `Ledger` for TLC (symmetry) |
| `LedgerProofs` | theorems about `Ledger` |
| `Notify` | stages of an approval from the ticker into a chat, and buttons from the chat to a decision |
| `MCNotify` | `Notify` for TLC (the ladder) |
| `NotifyProofs` | theorems about `Notify`; the refinement of `ApprovalFlow` |
| `Limits` | rate limit and login throttle |
| `LimitsProofs` | theorems about `Limits` |
| `Scope` | `normalize_prefix`, `covers`, `within` |
| `ScopeProofs` | theorems about `Scope` |
| `Service` | `bsc service install` and `uninstall` over the supervisors |
| `Open` | creation, opening and migration of the vault file by several processes |
| `OpenProofs` | theorems about `Open` |

### Access

The variables `token`, `item`, `grant`, `session` and `approval` are the tables;
`now` and `sealed` the clock and `Vault::state`; `holder` says which request has
the mutex between two steps (human handlers and ticker passes are one step and
need it free); `req` holds the local variables of the requests; `served` and
`handed` are history.

A request goes `Authenticate` (copy of the row, mutex released), then:

- read, ask: `RefuseScope`, `NotRequired`, `RefuseQuota`, or
  `RequestApproval` followed by `RequestTick` (mutex dropped first), or
  `Charge` (commit of `consume_read`) followed by `ReadVersion`;
- poll: `RequestTick`, then `PollAnswer` or `ConsumeApproval` (a commit), then
  `PollRefuse` or `PollCharge` (a commit) followed by `ReadVersion`;
- use: `RefuseScope`, `RefuseUse` (no binding, or the binding does not allow the
  request), `RequestApproval` and `RequestTick`, `RefuseQuota`, or `Charge`,
  `RecordUse` (the commit of `secret_used`), `ReadVersion`, which lets the mutex
  go with the value in the handler's frame, then `Send` or `UpstreamRefused`
  (`ssrf_check` and what else stops the call before it leaves);
- renew: `Renew`, which reads the row again.

Between commits of a request that holds the mutex only the clock, an import, a
failing statement (`StoreFails`) or a crash can come. `Tick` is a whole pass of
timeouts and escalations. A pass that fails half way is tried again at the next
tick and shows as passes that did less, or nothing, before. `Approve` and `Deny` are
`decide_approval`; the page's handler ticks before, in a hold of its own, which
is `TickerTick` followed by `Approve`.

Scopes are the sets of items they cover: prefix, tags and names of an item do
not change after `put`, so matching is a fixed relation (its rules are `Scope`).
Whether a binding allows a method and a URL, and an address is public, depends on
the request alone and is a choice. Labels, reasons, token
values and the display metadata are left out.

Of the agent handlers only `use_secret` waits for something at an `await`
(`use_secret.rs:103,199,239,260`), each time after the value was decrypted and the mutex let
go. A client that hangs up there drops the handler, which leaves the tables
as `UpstreamRefused` or `Send` does. The other agent handlers run from the first statement
to the last without one.

### Keys

A passphrase, its salt and its KEK are one epoch number; `header` is the epoch in
`meta`. For each item there is the epoch of its fields, of the wrapped DEK of
every version and of every version's note; `label` stands for a token's or
session's label and scope. `cookie` is the set of live sessions. `call` holds human calls between their holds of the
mutex: `verify` is the blocking thread of a login, `open` the moment before
`open_human_session`, `clear` and `rotated` the moment before `clear_human_sessions` of a
seal and of a passphrase change. The handlers of a login and of a passphrase change stand at an
`await` until the blocking thread is done (`human.rs:131`, `178`). When the client hangs up there the handler is
dropped and the thread goes on: `Disconnect` is the handler that does not get its turn
after the thread's work, which is the same whether the client left before or
after that work. A seal has no `await` between its two halves. `cli` is
an export or import, which read the header once at `Vault::open`.

### Open

`file` is what is committed, `lock` SQLite's write lock, `proc` the processes by how far
they got. `CreateCheck`, `CreateFile`, `CreateTables`, `CreateHeader` are the commits of
`bsc init` (the key is derived before the last). `OpenVersion` reads format and version,
which are written together; an older file goes through `MigrateBegin` (the snapshot),
`MigrateWrite` (lock, or refusal) and `MigrateCommit` (commit or rollback); `ReadSalt` and
`ReadVerifier` are separate reads. `Work` and `Rotate` stand for a daemon. A file of a
newer release is only refused. `End` is the end of a process at any point.

### Ledger

A record's hash is the tuple of what is hashed (SHA-256 taken to be injective).
`audit_now` reads the head and inserts in two statements (`NowHead`,
`NowInsert`); a write transaction holds SQLite's lock when it reads the head
(`BeginWrite`, `CommitWrite`); `read_version` opens a snapshot with the SELECT and
has to upgrade it (`ReadSnapshot`, `ReadInsert`, `ReadCommit`, `ReadReturn`, or
`ReadRollback` and `ReadErrorHead`). `Current`, SQLite's refusal to write on a
snapshot that is not the newest, is external to the repository. A run of
`bsc audit` is `AuditVerify`, `AuditCheck`, `AuditTake`, `AuditWrite`. `Restore`
puts an older copy back, with no process in the middle of an operation.

### Notify

`Tick` is `AppState::tick` with its failures: timeouts and stages are a commit
each, and of the list of new stages any part reaches the channel (a pass that fails tells
nothing, a stage without a readable approval is skipped, `state.rs:295`): `told`.
`Take`, `Land`, `Delivered` are one `Telegram::deliver`: `sendMessage`
puts a message `afloat`, from where it lands now, late or never, whatever the
call returned. `chat` holds the messages, `Tap` presses a button of any of them.
`updates` is what the service keeps, by id, until a `Poll` with a higher `offset`
(`Unconfirmed` is what it still answers); an answer can be lost. `HandleUpdate` is `handle_update` in its one hold of the
mutex, with the offset moved on before. A press comes from a message the channel sent, so from the
configured chat: the test of the chat's id (`telegram.rs:155-158`) finds nothing else in the model and
is left out. `Restart` loses channel, batch and offset.
`SetLocal`, `DeleteItem`, `Seal` and the page's `DecideHere` go on beside. Grants are
left to `Access`; both modules implement the same `ApprovalFlow`.

### Limits

A call reads the clock (`RateClock`, `LoginClock`, `CountClock`) and later takes
the lock of its map (`RateCheck`, `LoginCheck`, `CountFailed`), as the code does;
`Verify` is the blocking thread between. `Disconnect` is a client that hung up while the
handler waited for it: the passphrase was found wrong and `login_failed` is not reached
(`human.rs:121-136`). `unheard` counts these in the present window. The histories `passed` and `tried` count since
the present window began; `lateRate` and `lateLogin` count the checks made in it on a
clock read in another one. An absent entry is an entry with count 0.

### Scope

Paths and entries as sequences of characters. Pure: it has no run.

### Service

`Install` writes the definition, `Run` executes the next command of
`install_commands` or `uninstall_commands`, `Supervise` is what the supervisor
makes of it. `Login` and `DaemonEnds` are what the definitions ask for
(`RunAtLoad`, `KeepAlive`, `Restart=on-failure`, `WantedBy`, `/SC ONLOGON`). The
bind address stands for the definition.

## 3. What is checked

| run | instance | what it shows |
|---|---|---|
| `access_gate` | 1 token, item, approval, session, request; quota 1; time 0..3; crashes | one read, ask, poll or use against every human operation, ticker, import, failure and crash: `CheckedStillHolds`, `QuotaHolds`, `GrantBacked`, `GrantWithinToken`, `PendingItemLive` |
| `access_poll` | 2 requests, 2 approvals | concurrent asks and polls: `OnePendingPerPair`; and `Access` implements `ApprovalFlow` (`ImplementsApprovalFlow`) |
| `access_live` | fairness; read, poll, renew; lifetimes 2 and 3; two versions; crashes | `GrantWithinToken` under renewals, `RevokedNeverExtended`, `PendingResolved`, `RequestsFinish` |
| `keys` | 2 overlapping calls, clients that hang up, 2 cookies, 1 command-line process, 3 epochs, 2 versions | `MemoryMatchesHeader`, `ReadableKept`, `UnsealedByPassphrase`, `OldSessionsEnd` |
| `ledger` | 2 processes, 1 audit run, operations begun up to length 3, 1 restore | `ChainIntact`, `NoFalseAlarm`, `AnchorPinsHistory`, `ReadsRecorded` |
| `notify` | 1 approval, 1 item, 2 people (1 on the list), ladder 0, 1, 2, external from stage 2, 2 presses, 1 restart | `AnnouncedOnce`, `AnnouncedWasRecorded`, `NotedTruthfully`, `DecidedByButton`, `LocalStaysLocal`, `TapHandled`; and `Notify` implements `ApprovalFlow` |
| `limits` | 1 token, 1 client, 2 calls, limits of 2, windows of 2, time 0..5, clock set back once, 1 client that hangs up | `RateHolds`, `LoginHolds`, `AllowedAgain` |
| `open` | 3 processes, 2 approvals, 3 headers, a file that is new or of version 1, 2 or 3, sound or not | `OpenedCurrent`, `FailureLeavesFile`, `RefusedForCause`, `HistoryKept` |
| `consumed_handed`, `notes_rotated`, `seal_drops`, `service_reinstall` | small | what the documentation says and the code does not do, section 6 |

Every property of a passing run has a faulty variant of one definition
(`..._Uncapped`, `..._OffByOne`, marked `Fault:`) under which that run fails.

### Bounds, and why they are enough

- One token and one item: rows of different tokens and items are independent in
  every statement of `access.rs` (all have `token_id = ? AND item_id = ?`). What
  two requests can do to each other appears with one pair, and the instance with
  two requests has it. The theorems of section 5 have no such bound.
- `MaxTime = 3` with a wait of 2, grants of 2, token lifetimes of 2 and 3 and
  sessions of 1: every deadline can fall before, on and after every other one
  it is compared with, and an expired token can come back within `Grace`.
- `MaxReads = 2` with a quota of 1 (or none): a request can arrive with the last read
  left and with none. `MaxVersion`: versions 1 and 2 tell "current", an old and
  a missing version apart.
- Ids are drawn from `Approval`, `Session`, `Cookie`; when they are used up no new
  row appears. Two approvals suffice for "another one for the same pair".
- `MaxEpoch = 3`: two rotations, so that a key can be one and two rotations old.
- `MaxLen = 3`: two processes can both read one head and append up to four
  records; one restore lets a run see a chain that was cut.
- `notify`: two presses of buttons, by two people, of up to two messages (stages 2
  and 3) of one approval: enough for an old and a new button, a repeated one and
  an unconfirmed one that comes again after the restart. Approvals do not
  interact (`decide_approval` and the ticker's statements are by id). The system
  may stop when time and presses are used up, so this run does not check for
  deadlock.
- `limits`: no bound on calls or attempts. Three windows; the clock can go back
  over one or two of them. With two calls `RateHolds` is met with equality for no and
  for one late clock; `LoginHolds` for none, and within one attempt for one (the
  late call holds its slot meanwhile). `MaxLeft = 1`: one wrong passphrase per window and client
  may go uncounted; the theorem has any number. Tokens and clients have entries of their own.
- `open`: three processes, so that one can work on the file while a second and a third
  migrate again; two approvals, one from before and one from between the migrations;
  three headers, so that one process can create and two change the passphrase.
- `Crashes = FALSE` in `access_poll` to keep two requests small; the ticker and
  the approval table are crossed with crashes in the other two.

### Fairness

`access_live` assumes that time passes, that the ticker task runs
(`spawn_ticker` loops for the life of the process; tokio's interval), and that a
handler that can go on goes on (`AgentStep`). Each is weak fairness. Nothing is
assumed of humans, agents, imports, failures and crashes. Weak fairness suffices
because the mutex is held between two steps only by a request that charges a
read or spends an approval, which the bounds allow finitely often: after the
last of them it stays free. `RequestsFinish` excepts a request that wants a new
approval id when all are drawn, which is a bound of the instance. In the code this is the fairness of `std::sync::Mutex` towards
waiting threads. `keys` assumes that a call with work left goes on
(`CallStep`), and nothing of clients that hang up. `notify` assumes that the two tasks of `Telegram::run` go on and that
a poll made again and again is answered in the end (a failed poll is repeated after five
seconds); nothing of ticks, deliveries, humans or the clock. `limits` assumes that
time passes; a clock set back is bounded.

## 4. Abstract specification

`ApprovalFlow` is implemented by `Access` (agents, page, ticker) and by `Notify`
(page, buttons, ticker). It says what an approval promises: asked once; a yes only before the
deadline; a timeout only after it; spent at most once and only when approved; a
value handed over by polling at most once and only after it was spent. The
mapping reads the phase off the row (`consumed_at` set is "spent"), the deadline
off `expires_at`, and the values off the history of polls. `deny`, the deletion
of an item and the ticker all map to `No`, a tick that escalates to a stutter. In `Notify`
no value goes out, so its mapping has the status for the phase.

## 5. What is proved

Every safety property that a passing run checks is also a theorem: all invariants, the
action properties and both refinements. They hold for every value of the constants that
satisfies their assumptions, and are checked by `tlapm`:

| module | theorem | property |
|---|---|---|
| `AccessProofs` | `TypeCorrect` | `TypeOK` |
| | `GrantsEndWithToken` | `GrantWithinToken`: approvals, pre-authorizations and renewals in any order |
| | `PendingNamesLiveItem` | `PendingItemLive` |
| | `RevokedStaysRevoked` | `RevokedNeverExtended`, an action property |
| | `NothingMovesUnderTheLock` | `CheckedStillHolds`, for any number of concurrent requests |
| `ApprovalProofs` | `ReadsWithinQuota` | `QuotaHolds` |
| | `GrantsHaveOrigin` | `GrantBacked` |
| | `OneQuestionAtATime` | `OnePendingPerPair` |
| | `FlowImplemented` | `ImplementsApprovalFlow`: `Access` implements `ApprovalFlow` |
| `KeysProofs` | `TypeCorrect` | `TypeOK` |
| | `MemoryFollowsHeader` | `MemoryMatchesHeader`, for any number of overlapping calls and rotations |
| | `RowsStayReadable` | `ReadableKept`, an action property: rotations, restarts, imports |
| | `UnsealNeedsPassphrase` | `UnsealedByPassphrase`, an action property |
| `LedgerProofs` | `AlwaysIntact` | `ChainIntact`, for any number of processes and any length |
| | `AlarmMeansRestored` | `NoFalseAlarm` |
| | `AnchorsPin` | `AnchorPinsHistory` |
| | `ReadsLeaveRecords` | `ReadsRecorded` |
| `NotifyProofs` | `TypeCorrect` | `TypeOK` |
| | `EachStageOnce`, `OnlyRecordedStages` | `AnnouncedOnce`, `AnnouncedWasRecorded`, for any ladder and any number of restarts |
| | `DeliveriesHappened` | `NotedTruthfully` |
| | `ListedUsersDecide` | `DecidedByButton` |
| | `LocalItemsStayLocal` | `LocalStaysLocal`, an action property |
| | `FlowImplemented` | `ImplementsApprovalFlow`: `Notify` implements `ApprovalFlow` |
| `LimitsProofs` | `TypeCorrect` | `TypeOK` |
| | `LimitHolds` | `RateHolds`, for any limit, window, clock and number of calls |
| | `ThrottleHolds` | `LoginHolds`, likewise, and for any number of clients that hang up |
| `OpenProofs` | `FileTyped` | `TypeOK` |
| | `OpenedIsCurrent` | `OpenedCurrent` |
| | `FailedMigrationLeavesFile` | `FailureLeavesFile` |
| | `RefusalHasCause` | `RefusedForCause`, an action property |
| | `MigrationKeepsHistory` | `HistoryKept`, an action property |
| `ScopeProofs` | `SpellingsAgree` | `prod/gcp/*`, `prod/gcp/` and `prod/gcp` are one prefix (`access.rs:37-39`) |
| | `HitsItsSubtree` | an entry reaches its prefix and what is below it, and nothing beside it |
| | `WithinCovers` | a scope within another covers nothing the other does not |

The assumptions are those of each module (`ConstantsOK`, `KeysConstants`, ...): bounds are
numbers, durations are positive, the value for "nobody" is no one's name, and in `Limits`
there are finitely many calls at once. No other set is assumed to be finite: where a
proof counts members, that they are finitely many is part of the invariant.

**Access.** Types are not inductive: a poll writes the row of the approval it
names, so it has to name one. `RowsOK` adds that a request in progress works for
a minted token and names what its kind needs (`RequestsOK`), that an approval
names a minted token and an item (`ApprovalsOK`) and that the row of a token that
was not minted is empty and has no grants (`TokensOK`, without which minting could leave a
grant longer than the token). `RowsCorrect` proves it; `GrantWithinToken`,
`PendingItemLive` and `RevokedNeverExtended` then follow action by action. The
lemma `NextWriters` says once which actions write which table, so that each later
proof looks only at these. For `CheckedStillHolds` the invariant is `LockedOK`: the mutex discipline
(`MutexHeld`: a request is between two commits exactly when it holds the vault)
and `SpentOK` (a polling request past its first commit still has the approval it
spent). With the mutex held every action that could move what was checked is
disabled; those that are not (clock, import, ticks by nobody) do not touch it.

**Access, approvals and quota.** `FlowInv` of `ApprovalProofs` stands on `LockedOK`.
`QuotaInv` adds to `QuotaHolds` that the requests whose value is under way are
finitely many: the property says that what was served and what is under way together stay
below what was charged, so a charge puts one request under way and takes one read, and
handing over, failing and crashing only take it from there (`UnderWay`). `GrantBacked` needs
that an approved row is never changed again. `OnePendingPerPair` is inductive beside the row invariant,
because the look for a pending row and its insertion are in one hold (`access.rs:603-615`).
For the refinement, `SpentOnce` says that only an approved row is spent, and that once
its value was handed over no request polls on it any more. This is where the mutex is needed:
two polls that both found the row unspent cannot both be between its commits
(`MutexHeld`). `FlowStep` then takes the actions one by one: an ask is `Ask`, a pass of
the ticker closes some rows at the deadline and leaves the others, the commit of
a poll is `Spend`, its hand-over is the last step, all others are stutters.

**Ledger.** `ChainOK`: the records are numbered without a gap and linked
(`RowsOK`), and a head that a process has read names a record that is still
there; a process past its snapshot holds the lock and the head it read is the
last (`ProcsOK`). An INSERT on an old head collides with the primary key, because
with no gaps the next number is taken. `AlarmOK` adds that, as long as no copy was
put back, all anchors agree, the one a run is about to write included.
`PinnedOK` says that what the ledger said when an anchor was taken was said by some chain with the
anchor's head; `HeadPins` that there is only one chain with a given head: a hash
tells what was hashed (`HashTells`), so at the highest number where two chains differ
the records above it could not name both. An anchor that agrees finds
its head in the present ledger, whose records up to there are a chain. In
`ReadsOK` every commit of a read adds a record and a process about to return, every return
takes the process and adds a value.

**Keys.** `IInv` adds to `MemoryMatchesHeader` that a header a command-line process read is
one the file had (`CliOK`). `WriteEffect` says once what a write under a key leaves: rows that
opened under it before still do. So the daemon, whose KEK is the header's or none, breaks no row, nor does an
import whose KEK is still the header's, and
a rotation moves all that the property asks for (version notes are not among it, section 6). What
is left is an import that read the header before a rotation, which `ReadableKept` names.

**Limits.** An entry's count belongs to the window it names. `RateInv` counts for the present
window (`CountNow`): each call let through since it began is in the count, or was forgotten
when a late call began an older or newer window in the entry. `LoginInv` follows a wrong passphrase through
`Verifying` (let in), `Uncounted` (verdict known) and the count; those let in together were
let in when there was room for them, and there are at most as many as there are calls. A wrong one whose client hung up goes from
`Uncounted` to `unheard` (`LoginLeft`). The
products in both bounds are taken apart by lemmas of their own, since the solver
does linear arithmetic only.

**Notify.** `OnTheWay` follows a stage from the ticker into the chat: it is in the channel, afloat
or in the chat, at one place and once, and the row has it recorded. A pass of the ticker
hands over only stages above the recorded one, which is why it can add none twice, even
when an earlier hand-over was lost. `SendingOK` ties the sender to
what it waits for, `UpdatesOK` every press that is kept or handled to a message with buttons.
That finitely many approvals were asked for is in `RowsOK`; a pass needs it to write the list of
what is due.

**Open.** `FileOK` says that a version in the file comes with its columns and a
whole header; `ProcOK` what each process may rely on by how far it got: one that migrates
saw version 1, and the version can only have become this one's since; one past its
first write holds SQLite's lock, and its snapshot is the file (`Current`), which is why
what it copies is all there is. For `RefusalHasCause` it adds that a snapshot of an earlier
release that is out of date was overtaken by a migration. What SQLite does is an assumption of the model
(`Writable`, `Current`).

**Scope.** `Cut` and `Uncut` say what trimming leaves of a text with a given end;
`PrefixText` that a prefix is a text again, for which the least element of a set of lengths
has to exist (`LeastIn`, from the library's `WFMin`). Spellings with a star before
the last slash (`a/*/*`) are not plain names and keep their star as a character.

**Only model-checked.** `PendingResolved`, `RequestsFinish`, `OldSessionsEnd`, `TapHandled`
and `AllowedAgain`: liveness under fairness (and ENABLED) is outside this prover. The four
runs of section 6 are counterexamples, and `Service` is in one of them alone. Inductions over data are
out of reach too; the models hold counts and sets, and nothing had to be left out for it.

## 6. Where documentation and code differ

| run | the code | the words |
|---|---|---|
| `notes_rotated` | `rotate_passphrase` leaves `version.note_ct` under the old KEK; a later export cannot open it | `vault.rs:979-984`: every KEK-direct field is re-encrypted |
| `consumed_handed` | `consumed_at` is committed before scope, keys, quota and item are looked at; a refusal there leaves an approval spent with nothing handed over | `access.rs:245`, and the answer at `agent.rs:324` |
| `seal_drops` | a login verified before a seal opens its session after the sessions were dropped | `docs/API_CONTRACT.md:161` |
| `service_reinstall` | on Linux `systemctl enable --now` starts nothing when the unit runs already, so after an install for another address the old daemon goes on; `schtasks /Run` is alike. macOS boots the job out first | `service.rs:363-366`, `docs/manual/en/install.md:326` |

Met while modelling and not stated as a run:

- A request that authenticated before a revocation is served after it
  (`agent.rs:156`): one request that was in flight, and `guide.md:96` says that
  revocation takes effect immediately. `RevokedNeverExtended` and
  `CheckedStillHolds` say what does hold.
- `docs/API_CONTRACT.md:171` allows five failed attempts per client and window;
  attempts in flight together can be more, and an attempt whose client hangs up before the
  verdict is not counted (`human.rs:121-136`). `LoginHolds` has the bound with both.
- `human.rs:180` says of a passphrase change "Every other session must re-authenticate against
  the new passphrase". The sessions are ended after an `await`: when the client of the change
  hangs up there, the change stands and the sessions go on until they idle out.
  `OldSessionsEnd` says what holds otherwise.
- A seal whose record cannot be written, since another process is writing, drops the keys and
  returns before it drops the sessions (`human.rs:268`).
- A late tick records the highest stage of the ladder that is due and none below it
  (`access.rs:799`); `access.rs:790-793` says that step k is recorded once when its time
  has come, ADR 0005 section 3 that every stage is in the ledger.
- Two processes that both read version 1 migrate one after the other, and the ledger has two
  records `schema_migrated`; `CHANGELOG.md:85` says "never re-run".
  `HistoryKept` says what holds: the second run loses nothing.
- `Vault::create` fails "if the path already exists" (`vault.rs:143`), but looks at the
  path (152) before it opens it (158): two `bsc init` at once can both pass, and
  the second replaces the header of the first. One that is killed between the
  tables and the header leaves a file that `init` and `open` both refuse.
- `uninstall` forgives every failing command and reports "uninstalled"
  (`service.rs:371-394`); a failed install leaves the definition, which `bsc doctor`
  then reports as auto-start present (`is_installed` looks at the file alone).

## 7. What is not modelled

- OS notifications: fire and forget, nothing depends on them.
- Cryptography: functions over bytes; the models use what they promise (a
  ciphertext opens under its key alone, a hash is injective).
- MCP server: a stateless translation of tool calls to the HTTP API. An answer to a
  poll that is lost on the wire takes the value with it: the approval is spent.
  Web page:
  presentation. Doctor, command-line parsing: reading and set-up.
- The two writes of an anchor line (`main.rs:308-329`) are one step.
- A body too short to be a ciphertext ends a read before its error record
  (`vault.rs:643`): no program writes such a row, and damage to the file is not
  modelled.
- The human surface's `reveal` is a `read_version` of the ledger model and
  reads no grant (it waits for a blocking thread, too, `human.rs:501`, and after it there is only
  the answer); display metadata, search, list and whoami change nothing the modelled
  properties look at.
- An import that stops half way leaves the items before it (`export.rs:156`); the
  models have the partial import, and no property asks for all or nothing.
- Other failures of the disk while a file is created or opened end the process in
  `Open`; that a migration fails is modelled by the foreign-key check.
- What an upstream or a Telegram client does with what it was sent.

## 8. Plan

Done: all modules of section 2, their runs, and a theorem for every safety property a
passing run checks. Possible extensions: for `Service`, what does hold of an
install (on macOS, where the job is booted out first, the daemon that runs is the one
last installed); the hazards of `PROJECT.json` that no property covers, which
are limits of the code rather than promises it makes.

## 9. Running

    tlc -workers 2 -config access_gate.cfg MCAccess      # likewise the others
    tlapm AccessProofs.tla
    tlapm ApprovalProofs.tla
    tlapm KeysProofs.tla
    tlapm LimitsProofs.tla
    tlapm NotifyProofs.tla
    tlapm LedgerProofs.tla
    tlapm ScopeProofs.tla
    tlapm OpenProofs.tla
