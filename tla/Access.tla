------------------------------- MODULE Access -------------------------------
(***************************************************************************)
(* The agent-facing half of the vault: tokens, grants, approvals and task  *)
(* sessions as crates/bsc-store keeps them, and the HTTP handlers of       *)
(* crates/bsc-daemon that read and change them for an agent or a human.    *)
(*                                                                         *)
(* Handlers run on a thread pool and share one std::sync::Mutex around the *)
(* Vault.  An agent request therefore advances in steps:                   *)
(*                                                                         *)
(*   Authenticate   agent_token and require_live: takes the mutex, copies  *)
(*                  the token row, releases the mutex;                     *)
(*   (RequestTick)  a poll runs the ticker's pass first, a read that asked *)
(*                  for an approval runs it last, both without the mutex;  *)
(*   the locked part, from Charge or ConsumeApproval to ReadVersion, where *)
(*                  each SQLite commit is a step of its own, so that a     *)
(*                  crash can fall between two of them;                    *)
(*   (Send)         use_secret sends the value upstream without the mutex. *)
(*                                                                         *)
(* Scope matching (Scope::covers) is abstracted to "the set of items this  *)
(* scope covers": paths and tags of an item never change after put.        *)
(***************************************************************************)
EXTENDS Integers, FiniteSets, Sequences

CONSTANTS
  Token,          \* token ids that mint_token can draw
  Item,           \* item ids that put can draw
  Approval,       \* approval ids that request_approval can draw
  Session,        \* task session ids that open_session can draw
  Request,        \* slots for agent requests being served concurrently
  Kinds,          \* the endpoints the agents call: a subset of AllKinds
  Bindings,       \* whether items get a use binding: a subset of BOOLEAN
  Lifetimes,      \* token lifetimes and max_lifetimes humans mint with
  Quotas,         \* values of max_reads, NoCap for None
  GrantTtls,      \* seconds a grant is given
  Durations,      \* seconds a task session is given
  ApprovalWait,   \* Config::approval_wait
  Ladder,         \* Config::ladder, offsets from requested_at
  Grace,          \* TokenRecord::RENEWAL_GRACE
  NoCap,          \* max_reads = None
  Nobody,         \* the mutex is free / no id
  Pre,            \* access_grant.approval_id of a pre-authorization
  MaxTime,        \* bound: the clock stops here
  MaxVersion,     \* bound: versions per item
  MaxReads,       \* bound: reads charged to one token
  Crashes         \* whether the process can die in this instance

AllKinds == {"read", "ask", "poll", "renew", "use"}
Reading == {"read", "use"}   \* the endpoints that spend a read at once

ASSUME ConstantsOK ==
  /\ Kinds \subseteq AllKinds /\ Bindings \subseteq BOOLEAN
  /\ Lifetimes \subseteq Nat \ {0}
  /\ Quotas \subseteq Nat \cup {NoCap} /\ NoCap \notin Nat
  /\ GrantTtls \subseteq Nat \ {0} /\ Durations \subseteq Nat \ {0}
  /\ ApprovalWait \in Nat \ {0} /\ Grace \in Nat
  /\ Ladder \in Seq(Nat)
  /\ Nobody \notin Request \cup Item \cup Approval \cup Token
  /\ Pre \notin Approval
  /\ MaxTime \in Nat /\ MaxVersion \in Nat \ {0} /\ MaxReads \in Nat
  /\ Crashes \in BOOLEAN

VARIABLES
  now,       \* the wall clock, unix seconds
  sealed,    \* Vault::state = State::Sealed
  holder,    \* the request that holds the vault mutex between two steps
  token,     \* table token
  item,      \* table item, with its version rows
  grant,     \* table access_grant; until = 0 stands for "no row"
  session,   \* table session; expires = 0 stands for "no row"
  approval,  \* table approval; status "none" stands for "no row"
  req,       \* local variables of the requests in progress
  served,    \* history: values handed to each token, on any path
  handed     \* history: values handed over by polling each approval

vars == <<now, sealed, holder, token, item, grant, session, approval, req,
          served, handed>>
store == <<token, item, grant, session, approval>>
history == <<served, handed>>

------------------------------------------------------------------------------
(* Rows.                                                                     *)

TokenRow == [minted: BOOLEAN, scope: SUBSET Item, lifetime: Nat, expires: Nat,
             maxUntil: Nat, cap: Nat \cup {NoCap}, used: Nat, revoked: BOOLEAN]
ItemRow == [state: {"none", "live", "gone"}, gated: BOOLEAN, bound: BOOLEAN,
            current: Nat]
GrantRow == [until: Nat, by: Approval \cup {Pre, Nobody}]
SessionRow == [scope: SUBSET Item, expires: Nat, closed: BOOLEAN]
Statuses == {"none", "pending", "approved", "denied", "timeout"}
ApprovalRow == [status: Statuses, tok: Token \cup {Nobody},
                item: Item \cup {Nobody}, requested: Nat, expires: Nat,
                consumed: BOOLEAN, escalation: Nat]
Pcs == {"idle", "ready", "tick", "consumed", "charged", "used", "value"}
Locked == {"consumed", "charged", "used"}   \* between two commits, mutex held
RequestRow == [pc: Pcs, kind: AllKinds, tok: Token \cup {Nobody},
               item: Item \cup {Nobody}, version: Nat,
               apr: Approval \cup {Nobody}, scoped: BOOLEAN, at: Nat]

NoToken == [minted |-> FALSE, scope |-> {}, lifetime |-> 0, expires |-> 0,
            maxUntil |-> 0, cap |-> NoCap, used |-> 0, revoked |-> FALSE]
NoGrant == [until |-> 0, by |-> Nobody]
NoSession == [scope |-> {}, expires |-> 0, closed |-> FALSE]
NoApproval == [status |-> "none", tok |-> Nobody, item |-> Nobody,
               requested |-> 0, expires |-> 0, consumed |-> FALSE,
               escalation |-> 0]
NoItem == [state |-> "none", gated |-> FALSE, bound |-> FALSE, current |-> 0]
Idle == [pc |-> "idle", kind |-> "read", tok |-> Nobody, item |-> Nobody,
         version |-> 0, apr |-> Nobody, scoped |-> FALSE, at |-> 0]

TypeOK ==
  /\ now \in Nat /\ sealed \in BOOLEAN
  /\ holder \in Request \cup {Nobody}
  /\ token \in [Token -> TokenRow]
  /\ item \in [Item -> ItemRow]
  /\ grant \in [Token -> [Item -> GrantRow]]
  /\ session \in [Session -> SessionRow]
  /\ approval \in [Approval -> ApprovalRow]
  /\ req \in [Request -> RequestRow]
  /\ served \in [Token -> Nat] /\ handed \in [Approval -> Nat]

\* A daemon that has just started on an empty vault, sealed or unsealed by an
\* unattended source.
Init ==
  /\ now = 0 /\ sealed \in BOOLEAN /\ holder = Nobody
  /\ token = [t \in Token |-> NoToken]
  /\ item = [i \in Item |-> NoItem]
  /\ grant = [t \in Token |-> [i \in Item |-> NoGrant]]
  /\ session = [s \in Session |-> NoSession]
  /\ approval = [a \in Approval |-> NoApproval]
  /\ req = [r \in Request |-> Idle]
  /\ served = [t \in Token |-> 0] /\ handed = [a \in Approval |-> 0]

------------------------------------------------------------------------------
(* What the code asks of a row.                                              *)

Least(x, y) == IF x < y THEN x ELSE y

IsLive(t) == token[t].minted /\ ~token[t].revoked /\ now < token[t].expires

\* TokenRecord::is_renewable.
IsRenewable(t) ==
  /\ token[t].minted /\ ~token[t].revoked
  /\ now >= token[t].expires - token[t].lifetime \div 4
  /\ now <= token[t].expires + Grace
  /\ token[t].expires < token[t].maxUntil

\* Fault: the last read is compared with <=.
QuotaLeft_OffByOne(t) == token[t].cap # NoCap => token[t].used <= token[t].cap

\* TokenRecord::reads_remaining is not zero.
QuotaLeft(t) == token[t].cap # NoCap => token[t].used < token[t].cap

\* Fault: the cap is forgotten.
GrantUntil_Uncapped(t, ttl) == now + ttl

\* The end of a grant written now: capped at the token's expiry.
GrantUntil(t, ttl) == Least(now + ttl, token[t].expires)

HasGrant(t, i) == grant[t][i].until > now
ActiveSession(s) == ~session[s].closed /\ session[s].expires > now

\* needs_approval: a gated item without a live grant of this token and without
\* an open task session that covers it.
NeedsApproval(t, i) ==
  /\ item[i].gated
  /\ ~HasGrant(t, i)
  /\ \A s \in Session : ActiveSession(s) => i \notin session[s].scope

\* in_scope on the copy of the token the request authenticated with: a token
\* copied while the vault was sealed carries no scope.
InScope(r) ==
  /\ ~sealed
  /\ req[r].item \in Item /\ item[req[r].item].state = "live"
  /\ req[r].scoped /\ req[r].item \in token[req[r].tok].scope

\* Fault: the deadline is compared the wrong way round.
PendingFor_Swapped(t, i) ==
  {a \in Approval : /\ approval[a].status = "pending"
                    /\ approval[a].tok = t /\ approval[a].item = i
                    /\ approval[a].expires <= now}

PendingFor(t, i) ==
  {a \in Approval : /\ approval[a].status = "pending"
                    /\ approval[a].tok = t /\ approval[a].item = i
                    /\ approval[a].expires > now}

Fresh == {a \in Approval : approval[a].status = "none"}
Free == holder = Nobody

------------------------------------------------------------------------------
(* Agent requests.                                                           *)

Goto(r, pc) == req' = [req EXCEPT ![r].pc = pc]
Answer(r) == req' = [req EXCEPT ![r] = Idle]

\* agent_token, then require_live (renew: its own two checks) on the copy.  A
\* value that resolves to no row, a dead token and a rate_limited one are
\* answered here with no change of state, so only the requests that go on
\* appear.  The version is 0 for "current"; a poll names an approval id.
Authenticate(r) ==
  /\ Free /\ req[r].pc = "idle"
  /\ \E k \in Kinds, t \in Token, i \in Item \cup {Nobody},
        v \in 0..MaxVersion, a \in Approval \cup {Nobody} :
       /\ k \in {"read", "ask", "use"} <=> i \in Item
       /\ k # "read" => v = 0
       /\ k = "poll" <=> a \in Approval
       /\ IF k = "renew" THEN IsRenewable(t) ELSE IsLive(t)
       /\ token[t].used < MaxReads
       /\ req' = [req EXCEPT ![r] =
            [pc |-> IF k = "poll" THEN "tick" ELSE "ready", kind |-> k,
             tok |-> t, item |-> i, version |-> v, apr |-> a,
             scoped |-> ~sealed, at |-> 0]]
  /\ UNCHANGED <<now, sealed, holder, store, history>>

\* The locked part of read, ask and use when in_scope answers an error.
RefuseScope(r) ==
  /\ Free /\ req[r].pc = "ready" /\ req[r].kind \in {"read", "ask", "use"}
  /\ ~InScope(r)
  /\ Answer(r)
  /\ UNCHANGED <<now, sealed, holder, store, history>>

\* use_secret goes on only when the copy of the item it took in this hold of the
\* mutex has a binding.
BoundIfUse(r) == req[r].kind = "use" => item[req[r].item].bound

\* use_secret on an item without a binding, or on one that needs nobody when the
\* binding does not allow the method or the URL.  Nothing was charged yet.
RefuseUse(r) ==
  /\ Free /\ req[r].pc = "ready" /\ req[r].kind = "use" /\ InScope(r)
  /\ ~BoundIfUse(r) \/ ~NeedsApproval(req[r].tok, req[r].item)
  /\ Answer(r)
  /\ UNCHANGED <<now, sealed, holder, store, history>>

\* request_access on an item that needs nobody: "not_required".
NotRequired(r) ==
  /\ Free /\ req[r].pc = "ready" /\ req[r].kind = "ask"
  /\ InScope(r) /\ ~NeedsApproval(req[r].tok, req[r].item)
  /\ Answer(r)
  /\ UNCHANGED <<now, sealed, holder, store, history>>

\* Fault: the guard v lives to the end of the handler, across tick().
DropMutex_AtEnd(r) == holder' = r

\* drop(v) before state.tick().
DropMutex(r) == holder' = Nobody

\* read, ask or use on an item that needs a human: Vault::request_approval gives
\* the pending request of this token for this item back, or inserts one; the
\* mutex is dropped before the tick.
RequestApproval(r) ==
  LET t == req[r].tok  i == req[r].item IN
  /\ Free /\ req[r].pc = "ready" /\ req[r].kind \in {"read", "ask", "use"}
  /\ InScope(r) /\ BoundIfUse(r) /\ NeedsApproval(t, i)
  /\ \/ /\ PendingFor(t, i) # {}
        /\ UNCHANGED approval
     \/ /\ PendingFor(t, i) = {}
        /\ \E a \in Fresh :
             approval' = [approval EXCEPT ![a] =
               [status |-> "pending", tok |-> t, item |-> i,
                requested |-> now, expires |-> now + ApprovalWait,
                consumed |-> FALSE, escalation |-> 0]]
  /\ DropMutex(r)
  /\ Goto(r, "tick")
  /\ UNCHANGED <<now, sealed, token, item, grant, session, history>>

\* consume_read with reads left: one autocommitted UPDATE, the mutex held.
ConsumeRead(r) ==
  /\ QuotaLeft(req[r].tok)
  /\ token' = [token EXCEPT ![req[r].tok].used = @ + 1]
  /\ holder' = r

\* The locked part of read and use when nobody has to be asked.
Charge(r) ==
  /\ Free /\ req[r].pc = "ready" /\ req[r].kind \in Reading
  /\ InScope(r) /\ BoundIfUse(r) /\ ~NeedsApproval(req[r].tok, req[r].item)
  /\ ConsumeRead(r)
  /\ req' = [req EXCEPT ![r] = [@ EXCEPT !.pc = "charged", !.at = now]]
  /\ UNCHANGED <<now, sealed, item, grant, session, approval, history>>

RefuseQuota(r) ==
  /\ Free /\ req[r].pc = "ready" /\ req[r].kind \in Reading
  /\ InScope(r) /\ BoundIfUse(r) /\ ~NeedsApproval(req[r].tok, req[r].item)
  /\ ~QuotaLeft(req[r].tok)
  /\ Answer(r)
  /\ UNCHANGED <<now, sealed, holder, store, history>>

\* Fault: the UPDATE forgets "AND consumed_at IS NULL".
Unspent_Unchecked(a) == approval[a].status = "approved"

\* The rows consume_approval's UPDATE matches.
Unspent(a) == approval[a].status = "approved" /\ ~approval[a].consumed

\* check_access on a request that is unknown, another token's, not approved,
\* or consumed before.
PollAnswer(r) ==
  LET p == approval[req[r].apr] IN
  /\ Free /\ req[r].pc = "ready" /\ req[r].kind = "poll"
  /\ p.tok # req[r].tok \/ ~Unspent(req[r].apr)
  /\ Answer(r)
  /\ UNCHANGED <<now, sealed, holder, store, history>>

\* check_access on an approved request: consume_approval's UPDATE commits
\* before anything else is looked at.
ConsumeApproval(r) ==
  LET a == req[r].apr IN
  /\ Free /\ req[r].pc = "ready" /\ req[r].kind = "poll"
  /\ approval[a].tok = req[r].tok
  /\ Unspent(a)
  /\ approval' = [approval EXCEPT ![a].consumed = TRUE]
  /\ holder' = r
  /\ req' = [req EXCEPT ![r] = [@ EXCEPT !.pc = "consumed", !.item = approval[a].item]]
  /\ UNCHANGED <<now, sealed, token, item, grant, session, history>>

\* The rest of that branch: in_scope, consume_read.
PollCharge(r) ==
  /\ req[r].pc = "consumed" /\ InScope(r)
  /\ ConsumeRead(r)
  /\ req' = [req EXCEPT ![r] = [@ EXCEPT !.pc = "charged", !.at = now]]
  /\ UNCHANGED <<now, sealed, item, grant, session, approval, history>>

PollRefuse(r) ==
  /\ req[r].pc = "consumed" /\ ~(InScope(r) /\ QuotaLeft(req[r].tok))
  /\ holder' = Nobody
  /\ Answer(r)
  /\ UNCHANGED <<now, sealed, store, history>>

\* use_secret commits the record "secret_used" before it decrypts.
RecordUse(r) ==
  /\ req[r].pc = "charged" /\ req[r].kind = "use"
  /\ Goto(r, "used")
  /\ UNCHANGED <<now, sealed, holder, store, history>>

\* Vault::read_version finds the keys and the version.
Readable(r) ==
  LET i == req[r].item IN
  /\ ~sealed /\ item[i].state = "live"
  /\ req[r].version <= item[i].current

\* The value reaches the agent, or for a use the upstream.
HandOver(r) ==
  /\ served' = [served EXCEPT ![req[r].tok] = @ + 1]
  /\ handed' = IF req[r].kind = "poll"
                 THEN [handed EXCEPT ![req[r].apr] = @ + 1] ELSE handed

\* The end of the locked part: the value goes out, or to use_secret's frame, or
\* the request ends in an error with what was charged and spent.
ReadVersion(r) ==
  /\ req[r].pc = IF req[r].kind = "use" THEN "used" ELSE "charged"
  /\ \/ Readable(r) /\ req[r].kind # "use" /\ HandOver(r) /\ Answer(r)
     \/ Readable(r) /\ req[r].kind = "use" /\ Goto(r, "value") /\ UNCHANGED history
     \/ ~Readable(r) /\ Answer(r) /\ UNCHANGED history
  /\ holder' = Nobody
  /\ UNCHANGED <<now, sealed, store>>

\* use_secret's upstream request, without the mutex: it goes out, whatever
\* happened to item, token and keys meanwhile, and whatever comes back.
Send(r) ==
  /\ req[r].pc = "value" /\ HandOver(r) /\ Answer(r)
  /\ UNCHANGED <<now, sealed, holder, store>>

\* Or it never leaves: ssrf_check refuses the address, the header template is
\* malformed, the value is not text, the request cannot be built.
UpstreamRefused(r) ==
  /\ req[r].pc = "value" /\ Answer(r)
  /\ UNCHANGED <<now, sealed, holder, store, history>>

\* A statement of the locked part fails: another process keeps the write lock
\* of the file too long, or commits after the head of the ledger was read.  The
\* commits before it stay.
StoreFails(r) ==
  /\ Free \/ holder = r
  /\ req[r].pc \in {"ready"} \cup Locked
  /\ holder' = Nobody
  /\ Answer(r)
  /\ UNCHANGED <<now, sealed, store, history>>

\* Fault: renew_token trusts the copy the handler checked.
StillRenewable_Copy(t) == TRUE

\* renew_token reads the row again.
StillRenewable(t) == IsRenewable(t)

\* Fault: the limit of the token is not looked at.
Renewed_Uncapped(t) == token[t].expires + token[t].lifetime

\* The end of a renewed token.
Renewed(t) == Least(token[t].expires + token[t].lifetime, token[t].maxUntil)

\* The locked part of renew.
Renew(r) ==
  LET t == req[r].tok IN
  /\ Free /\ req[r].pc = "ready" /\ req[r].kind = "renew"
  /\ \/ /\ StillRenewable(t)
        /\ token' = [token EXCEPT ![t].expires = Renewed(t)]
     \/ ~StillRenewable(t) /\ UNCHANGED token
  /\ Answer(r)
  /\ UNCHANGED <<now, sealed, holder, item, grant, session, approval, history>>

------------------------------------------------------------------------------
(* The ticker's pass, by the ticker task or by a request.                    *)

\* escalate_approvals: how many rungs of the ladder are due for a request.
DueStep(p) == Cardinality({k \in DOMAIN Ladder : now >= p.requested + Ladder[k]})

\* Fault: a status no reader of the table knows.
Ticked_Misnamed(p) ==
  IF p.status = "pending" /\ p.expires <= now THEN [p EXCEPT !.status = "expired"] ELSE p

\* One approval under timeout_approvals and then escalate_approvals, which takes
\* the stages below the last one that is due for done.
Ticked(p) ==
  IF p.status # "pending" THEN p
  ELSE IF p.expires <= now THEN [p EXCEPT !.status = "timeout"]
  ELSE IF DueStep(p) > p.escalation THEN [p EXCEPT !.escalation = DueStep(p)]
         ELSE p

\* Fault: the pass is skipped while the vault is sealed.
Tick_Unsealed == Free /\ ~sealed /\ approval' = [a \in Approval |-> Ticked(approval[a])]

Tick == Free /\ approval' = [a \in Approval |-> Ticked(approval[a])]

TickerTick ==
  /\ Tick
  /\ UNCHANGED <<now, sealed, holder, token, item, grant, session, req, history>>

RequestTick(r) ==
  /\ req[r].pc = "tick"
  /\ Tick
  /\ IF req[r].kind = "poll" THEN Goto(r, "ready") ELSE Answer(r)
  /\ UNCHANGED <<now, sealed, holder, token, item, grant, session, history>>

------------------------------------------------------------------------------
(* The human surface.  Each handler does its work in one hold of the mutex.  *)

MintToken(t) ==
  /\ Free /\ ~sealed /\ ~token[t].minted
  /\ \E S \in (SUBSET Item) \ {{}}, l \in Lifetimes, m \in Lifetimes, c \in Quotas :
       /\ m >= l
       /\ token' = [token EXCEPT ![t] =
            [minted |-> TRUE, scope |-> S, lifetime |-> l, expires |-> now + l,
             maxUntil |-> now + m, cap |-> c, used |-> 0, revoked |-> FALSE]]
  /\ UNCHANGED <<now, sealed, holder, item, grant, session, approval, req, history>>

RevokeToken(t) ==
  /\ Free /\ token[t].minted /\ ~token[t].revoked
  /\ token' = [token EXCEPT ![t].revoked = TRUE]
  /\ UNCHANGED <<now, sealed, holder, item, grant, session, approval, req, history>>

Put(i) ==
  /\ Free /\ ~sealed /\ item[i].state = "none"
  /\ \E g \in BOOLEAN :
       item' = [item EXCEPT ![i] = [state |-> "live", gated |-> g,
                                    bound |-> FALSE, current |-> 1]]
  /\ UNCHANGED <<now, sealed, holder, token, grant, session, approval, req, history>>

AddVersion(i) ==
  /\ Free /\ ~sealed /\ item[i].state = "live" /\ item[i].current < MaxVersion
  /\ item' = [item EXCEPT ![i].current = @ + 1]
  /\ UNCHANGED <<now, sealed, holder, token, grant, session, approval, req, history>>

\* set_item_use: the binding is set or cleared.
SetUse(i) ==
  /\ Free /\ ~sealed /\ item[i].state = "live"
  /\ \E b \in Bindings : item' = [item EXCEPT ![i].bound = b]
  /\ UNCHANGED <<now, sealed, holder, token, grant, session, approval, req, history>>

\* bsc import: put, add_version and set_item_use by another process, with keys
\* of its own, whatever the daemon holds.
Import(i) ==
  /\ \/ /\ item[i].state = "none"
        /\ \E g \in BOOLEAN :
             item' = [item EXCEPT ![i] = [state |-> "live", gated |-> g,
                                          bound |-> FALSE, current |-> 1]]
     \/ /\ item[i].state = "live" /\ item[i].current < MaxVersion
        /\ item' = [item EXCEPT ![i].current = @ + 1]
     \/ /\ item[i].state = "live" /\ TRUE \in Bindings
        /\ item' = [item EXCEPT ![i].bound = TRUE]
  /\ UNCHANGED <<now, sealed, holder, token, grant, session, approval, req, history>>

\* set_item_flags, the approval_required column.
SetGated(i) ==
  /\ Free /\ item[i].state = "live"
  /\ item' = [item EXCEPT ![i].gated = ~@]
  /\ UNCHANGED <<now, sealed, holder, token, grant, session, approval, req, history>>

\* Fault: grants outlive the item.
GrantsWithout_Kept(i) == grant
\* Fault: requests for the item stay pending.
PendingDenied_Kept(i) == approval

GrantsWithout(i) == [t \in Token |-> [grant[t] EXCEPT ![i] = NoGrant]]
PendingDenied(i) ==
  [a \in Approval |->
     IF approval[a].status = "pending" /\ approval[a].item = i
       THEN [approval[a] EXCEPT !.status = "denied"] ELSE approval[a]]

\* delete_item: the row, its versions and grants go; its pending requests are
\* denied, whether overdue or not.
DeleteItem(i) ==
  /\ Free /\ ~sealed /\ item[i].state = "live"
  /\ item' = [item EXCEPT ![i] = [state |-> "gone", gated |-> FALSE,
                                  bound |-> FALSE, current |-> 0]]
  /\ grant' = GrantsWithout(i)
  /\ approval' = PendingDenied(i)
  /\ UNCHANGED <<now, sealed, holder, token, session, req, history>>

\* decide_approval for an approve: the token's row gives the cap of the grant.
\* The page's handler runs a tick in a hold of its own before (TickerTick), the
\* Telegram channel does not.
Approve(a) ==
  LET t == approval[a].tok  i == approval[a].item IN
  /\ Free /\ approval[a].status = "pending" /\ now < approval[a].expires
  /\ approval' = [approval EXCEPT ![a].status = "approved"]
  /\ \E ttl \in GrantTtls :
       grant' = [grant EXCEPT ![t][i] =
                   [until |-> GrantUntil(t, ttl), by |-> a]]
  /\ UNCHANGED <<now, sealed, holder, token, item, session, req, history>>

Deny(a) ==
  /\ Free /\ approval[a].status = "pending" /\ now < approval[a].expires
  /\ approval' = [approval EXCEPT ![a].status = "denied"]
  /\ UNCHANGED <<now, sealed, holder, token, item, grant, session, req, history>>

GrantDirect(t, i) ==
  /\ Free /\ token[t].minted /\ item[i].state = "live"
  /\ \E ttl \in GrantTtls :
       grant' = [grant EXCEPT ![t][i] =
                   [until |-> GrantUntil(t, ttl), by |-> Pre]]
  /\ UNCHANGED <<now, sealed, holder, token, item, session, approval, req, history>>

\* Fault: the row goes without the mutex.
RevokeGrant_Unlocked(t, i) ==
  /\ grant[t][i].until # 0
  /\ grant' = [grant EXCEPT ![t][i] = NoGrant]
  /\ UNCHANGED <<now, sealed, holder, token, item, session, approval, req, history>>

RevokeGrant(t, i) ==
  /\ Free /\ grant[t][i].until # 0
  /\ grant' = [grant EXCEPT ![t][i] = NoGrant]
  /\ UNCHANGED <<now, sealed, holder, token, item, session, approval, req, history>>

OpenSession(s) ==
  /\ Free /\ ~sealed /\ session[s].expires = 0
  /\ \E S \in (SUBSET Item) \ {{}}, d \in Durations :
       session' = [session EXCEPT ![s] =
                     [scope |-> S, expires |-> now + d, closed |-> FALSE]]
  /\ UNCHANGED <<now, sealed, holder, token, item, grant, approval, req, history>>

CloseSession(s) ==
  /\ Free /\ session[s].expires # 0 /\ ~session[s].closed
  /\ session' = [session EXCEPT ![s].closed = TRUE]
  /\ UNCHANGED <<now, sealed, holder, token, item, grant, approval, req, history>>

Seal ==
  /\ Free /\ ~sealed /\ sealed' = TRUE
  /\ UNCHANGED <<now, holder, store, req, history>>

Unseal ==
  /\ Free /\ sealed /\ sealed' = FALSE
  /\ UNCHANGED <<now, holder, store, req, history>>

------------------------------------------------------------------------------
(* The environment.                                                          *)

ClockAdvance ==
  /\ now < MaxTime /\ now' = now + 1
  /\ UNCHANGED <<sealed, holder, store, req, history>>

\* The process dies and is started again: requests, mutex and keys are gone,
\* every committed row stays.
Crash ==
  /\ Crashes /\ sealed' \in BOOLEAN /\ holder' = Nobody
  /\ req' = [r \in Request |-> Idle]
  /\ UNCHANGED <<now, store, history>>

AgentStep(r) ==
  \/ RefuseScope(r) \/ RefuseUse(r) \/ NotRequired(r) \/ RequestApproval(r)
  \/ Charge(r) \/ RefuseQuota(r)
  \/ PollAnswer(r) \/ ConsumeApproval(r) \/ PollCharge(r) \/ PollRefuse(r)
  \/ RecordUse(r) \/ ReadVersion(r) \/ Send(r) \/ UpstreamRefused(r)
  \/ Renew(r) \/ RequestTick(r)

HumanStep ==
  \/ \E t \in Token : MintToken(t) \/ RevokeToken(t)
  \/ \E i \in Item : Put(i) \/ AddVersion(i) \/ SetGated(i) \/ SetUse(i) \/ DeleteItem(i)
  \/ \E a \in Approval : Approve(a) \/ Deny(a)
  \/ \E t \in Token, i \in Item : GrantDirect(t, i) \/ RevokeGrant(t, i)
  \/ \E s \in Session : OpenSession(s) \/ CloseSession(s)
  \/ Seal \/ Unseal

Next ==
  \/ \E r \in Request : Authenticate(r) \/ AgentStep(r) \/ StoreFails(r)
  \/ HumanStep
  \/ \E i \in Item : Import(i)
  \/ TickerTick
  \/ ClockAdvance
  \/ Crash

Spec == Init /\ [][Next]_vars

\* The ticker task runs for the life of the process, handlers run to completion
\* once they have the mutex, and time passes.  Humans, agents and crashes owe
\* nothing.  Weak fairness is enough: the mutex is held between two steps only
\* by a request that spends a read or an approval, and the bounds make those
\* finitely many.
Fairness ==
  /\ WF_vars(ClockAdvance) /\ WF_vars(TickerTick)
  /\ \A r \in Request : WF_vars(AgentStep(r))

FairSpec == Spec /\ Fairness

------------------------------------------------------------------------------
(* Safety.                                                                   *)

\* The mutex discipline the handlers rely on: exactly the request between two
\* commits holds the vault (MutexGuard v of agent.rs:158 and agent.rs:298).
MutexHeld == \A r \in Request : holder = r <=> req[r].pc \in Locked

\* When a charged request comes to decrypt, all that was checked before the
\* charge is still so: keys, item, scope, the binding of a use, and for a gated
\* item a grant or a task session that was live at the check, or an approval this
\* request spent.  Nothing but the clock may have moved (agent.rs:159-176,
\* 320-334; use_secret.rs:141-196).
CheckedStillHolds ==
  \A r \in Request : req[r].pc \in {"charged", "used"} =>
    LET t == req[r].tok  i == req[r].item  a == req[r].apr IN
    /\ ~sealed /\ item[i].state = "live" /\ i \in token[t].scope
    /\ req[r].kind = "use" => item[i].bound
    /\ item[i].gated =>
         \/ grant[t][i].until > req[r].at
         \/ \E s \in Session : /\ ~session[s].closed /\ i \in session[s].scope
                             /\ session[s].expires > req[r].at
         \/ /\ req[r].kind = "poll" /\ approval[a].status = "approved"
            /\ approval[a].consumed /\ approval[a].tok = t /\ approval[a].item = i

\* The reads of a token that were charged and whose value is still under way.
Charged(t) ==
  {r \in Request : req[r].pc \in {"charged", "used", "value"} /\ req[r].tok = t}

\* A capped token is never handed more values than its cap, whether read,
\* polled or used, and every value that goes out was charged before, those
\* under way included: crashes, refusals and failures after the charge only
\* ever cost the agent reads (consume_read, access.rs:479-491; use_secret.rs:169).
QuotaHolds ==
  \A t \in Token :
    /\ served[t] + Cardinality(Charged(t)) <= token[t].used
    /\ token[t].cap # NoCap => token[t].used <= token[t].cap

\* A grant row has an origin a human stands behind: a pre-authorization, or an
\* approved request of the same token for the same item (access.rs:714-761,
\* 840-871); and it never outlives the item (vault.rs:958).
GrantBacked ==
  \A t \in Token, i \in Item : grant[t][i].until # 0 =>
    /\ item[i].state = "live"
    /\ \/ grant[t][i].by = Pre
       \/ \E a \in Approval : /\ grant[t][i].by = a /\ approval[a].status = "approved"
                             /\ approval[a].tok = t /\ approval[a].item = i

\* Through approvals, pre-authorizations and renewals, no grant outlives its
\* token and no token passes the limit it was minted with (access.rs:458, 735,
\* 853).
GrantWithinToken ==
  \A t \in Token :
    /\ token[t].expires <= token[t].maxUntil
    /\ \A i \in Item : grant[t][i].until <= token[t].expires

\* A polling agent does not pile up requests: per token and item at most one
\* request waits for an answer (access.rs:603-615).
OnePendingPerPair ==
  \A a, b \in Approval :
    /\ a # b /\ approval[a].status = "pending" /\ approval[b].status = "pending"
    /\ approval[a].tok = approval[b].tok /\ approval[a].item = approval[b].item
    => approval[a].expires <= now \/ approval[b].expires <= now

\* A human is only ever asked about an item that exists (vault.rs:959-962).
PendingItemLive ==
  \A a \in Approval : approval[a].status = "pending" => item[approval[a].item].state = "live"

\* A token that was revoked is never extended, whatever a renewal had checked
\* on its copy of the row before the revocation (access.rs:445-457).
RevokedNeverExtended ==
  [][\A t \in Token : token[t].revoked => token'[t].expires = token[t].expires]_vars

\* Every approval request goes through the life ApprovalFlow promises.
Flow == INSTANCE ApprovalFlow WITH
  Wait <- ApprovalWait,
  clock <- now,
  phase <- [a \in Approval |-> IF approval[a].consumed THEN "spent"
                                                      ELSE approval[a].status],
  deadline <- [a \in Approval |-> approval[a].expires],
  out <- handed

\* The table approval, the ticker, the human's answers and the polls together
\* implement that life (access.rs:603-835, agent.rs:290-345).
ImplementsApprovalFlow == Flow!FlowSpec

------------------------------------------------------------------------------
(* Liveness.                                                                 *)

\* Silence is an answer: a request does not stay pending beyond its deadline,
\* sealed vault or not (ADR 0005 section 2; access.rs:765-788).
PendingResolved ==
  \A a \in Approval :
    approval[a].status = "pending" /\ approval[a].expires <= MaxTime
      ~> approval[a].status # "pending"

\* Every request the daemon accepted is answered: no handler waits for a mutex
\* it holds itself (agent.rs:163, 280: drop(v) before tick).  A request that
\* wants a new approval id when all are used up stops at "ready": the bound.
RequestsFinish ==
  \A r \in Request :
    req[r].pc # "idle" ~> req[r].pc = "idle" \/ (req[r].pc = "ready" /\ Fresh = {})

------------------------------------------------------------------------------
(* What the documentation says and the code does not do.                     *)

\* access.rs:245: consumed_at is "set when the approved value was handed over
\* through the poll".  It is set before the checks that can still refuse.
ConsumedMeansHandedOver ==
  \A a \in Approval :
    approval[a].consumed /\ (\A r \in Request : req[r].apr # a \/ req[r].pc = "idle")
      => handed[a] = 1
=============================================================================
