--------------------------- MODULE ApprovalProofs ---------------------------
(***************************************************************************)
(* Theorems about Access that follow one approval, one grant and one       *)
(* counter of reads through all tables: the quota, the origin of grants,   *)
(* one question at a time, and the refinement of ApprovalFlow.  They rest  *)
(* on the row invariant and the mutex invariant of AccessProofs.           *)
(***************************************************************************)
EXTENDS AccessProofs

(* The inductive invariant: the properties themselves, and what ties them to *)
(* the requests in progress.                                                 *)

\* Of every token the reads under way are finitely many, and charged.
QuotaInv == QuotaHolds /\ \A t \in Token : IsFiniteSet(Charged(t))

\* A request in progress that polls and has spent an approval.
Polling(r) == req[r].kind = "poll" /\ req[r].pc \in {"consumed", "charged"}

\* Only what was approved is spent, and a value goes out after that, once, and
\* by the request that spent the approval.
SpentOnce ==
  \A a \in Approval :
    /\ approval[a].consumed => approval[a].status = "approved"
    /\ handed[a] \in {0, 1}
    /\ handed[a] = 1 => /\ approval[a].consumed
                        /\ \A r \in Request : Polling(r) => req[r].apr # a

FlowInv ==
  /\ LockedOK
  /\ PendingItemLive /\ GrantBacked /\ OnePendingPerPair
  /\ QuotaInv /\ SpentOnce

------------------------------------------------------------------------------
(* What a step does to the clock, the counters and the items.                *)

\* Time passes in one kind of step alone.
LEMMA ClockSteps == ASSUME [Next]_vars PROVE ClockAdvance \/ now' = now
<1>1. ASSUME NEW r \in Request, Authenticate(r) \/ AgentStep(r) \/ StoreFails(r) PROVE now' = now
  BY <1>1 DEF Authenticate, AgentStep, StoreFails, RefuseScope, RefuseUse, NotRequired,
     RequestApproval, Charge, RefuseQuota, PollAnswer, ConsumeApproval, PollCharge, PollRefuse,
     RecordUse, ReadVersion, Send, UpstreamRefused, Renew, RequestTick
<1>2. ASSUME HumanStep PROVE now' = now
  BY <1>2 DEF HumanStep, MintToken, RevokeToken, Put, AddVersion, SetGated, SetUse, DeleteItem,
     Approve, Deny, GrantDirect, RevokeGrant, OpenSession, CloseSession, Seal, Unseal
<1>3. ASSUME NEW i \in Item, Import(i) PROVE now' = now
  BY <1>3 DEF Import
<1>4. CASE TickerTick \/ Crash \/ UNCHANGED vars
  BY <1>4 DEF TickerTick, Crash, vars
<1>5. QED
  BY <1>1, <1>2, <1>3, <1>4 DEF Next

\* The clock does not go back.
LEMMA ClockForward == ASSUME TypeOK, [Next]_vars PROVE now \in Nat /\ now' \in Nat /\ now <= now'
<1>1. now \in Nat
  BY DEF TypeOK
<1>2. QED
  BY <1>1, ClockSteps DEF ClockAdvance

\* An item stays until it is deleted.
LEMMA LiveUntilDeleted ==
  ASSUME RowsOK, [Next]_vars, NEW i \in Item, item[i].state = "live"
  PROVE  item'[i].state = "live" \/ DeleteItem(i)
<1>1. item \in [Item -> ItemRow] /\ Writers
  BY NextWriters DEF RowsOK, TypeOK
<1>2. \A x \in ItemRow, b \in BOOLEAN :
        /\ [x EXCEPT !.current = @ + 1].state = x.state
        /\ [x EXCEPT !.gated = ~@].state = x.state
        /\ [x EXCEPT !.bound = b].state = x.state
  BY DEF ItemRow
<1>3. ASSUME NEW j \in Item, Put(j) \/ AddVersion(j) \/ SetGated(j)
      PROVE  item'[i].state = "live"
  BY <1>1, <1>2, <1>3 DEF Put, AddVersion, SetGated
<1>4. ASSUME NEW j \in Item, SetUse(j) PROVE item'[i].state = "live"
  BY <1>1, <1>2, <1>4, ConstantsOK DEF SetUse
<1>5. ASSUME NEW j \in Item, Import(j) PROVE item'[i].state = "live"
  BY <1>1, <1>2, <1>5 DEF Import
<1>6. ASSUME NEW j \in Item, DeleteItem(j), j # i PROVE item'[i].state = "live"
  BY <1>1, <1>6 DEF DeleteItem
<1>7. QED
  BY <1>1, <1>3, <1>4, <1>5, <1>6 DEF Writers, ItemWriter

------------------------------------------------------------------------------
(* Grants.                                                                   *)

\* Grants are written by humans, for an item that is there, and go with it.
LEMMA GrantBackedStep ==
  ASSUME RowsOK, PendingItemLive, GrantBacked, [Next]_vars
  PROVE  GrantBacked'
<1>0. TypeOK /\ ApprovalsOK /\ Writers
  BY NextWriters DEF RowsOK
<1>1. /\ grant \in [Token -> [Item -> GrantRow]]
      /\ approval \in [Approval -> ApprovalRow] /\ item \in [Item -> ItemRow]
  BY <1>0 DEF TypeOK
<1> SUFFICES ASSUME NEW t \in Token, NEW i \in Item, grant'[t][i].until # 0
             PROVE  /\ item'[i].state = "live"
                    /\ \/ grant'[t][i].by = Pre
                       \/ \E a \in Approval :
                            /\ grant'[t][i].by = a /\ approval'[a].status = "approved"
                            /\ approval'[a].tok = t /\ approval'[a].item = i
  BY DEF GrantBacked
<1>2. ~DeleteItem(i)
  BY <1>1 DEF DeleteItem, GrantsWithout, NoGrant
<1>3. CASE grant'[t][i] = grant[t][i]
  <2>1. /\ item[i].state = "live"
        /\ \/ grant[t][i].by = Pre
           \/ \E a \in Approval : /\ grant[t][i].by = a /\ approval[a].status = "approved"
                                 /\ approval[a].tok = t /\ approval[a].item = i
    BY <1>3 DEF GrantBacked
  <2>2. item'[i].state = "live"
    BY <1>2, <2>1, LiveUntilDeleted
  <2>3. \A a \in Approval : approval[a].status = "approved" =>
          /\ approval'[a].status = "approved"
          /\ approval'[a].tok = approval[a].tok /\ approval'[a].item = approval[a].item
    BY ApprovalKeeps
  <2>4. QED
    BY <1>3, <2>1, <2>2, <2>3
<1>4. ASSUME NEW a \in Approval, Approve(a), grant'[t][i] # grant[t][i]
      PROVE  /\ item'[i].state = "live"
             /\ grant'[t][i].by = a /\ approval'[a].status = "approved"
             /\ approval'[a].tok = t /\ approval'[a].item = i
  <2>1. approval[a].tok \in Token /\ approval[a].item \in Item
    BY <1>0, <1>4 DEF Approve, ApprovalsOK
  <2>2. approval[a].tok = t /\ approval[a].item = i /\ grant'[t][i].by = a
    BY <1>1, <1>4, <2>1 DEF Approve
  <2>3. item[i].state = "live" /\ item' = item
    BY <1>4, <2>2 DEF Approve, PendingItemLive
  <2>4. approval'[a] = [approval[a] EXCEPT !.status = "approved"] /\ approval[a] \in ApprovalRow
    BY <1>1, <1>4 DEF Approve
  <2>5. QED
    BY <2>2, <2>3, <2>4 DEF ApprovalRow
<1>5. ASSUME NEW u \in Token, NEW j \in Item, GrantDirect(u, j), grant'[t][i] # grant[t][i]
      PROVE  item'[i].state = "live" /\ grant'[t][i].by = Pre
  <2>1. u = t /\ j = i /\ grant'[t][i].by = Pre
    BY <1>1, <1>5 DEF GrantDirect
  <2>2. QED
    BY <1>5, <2>1 DEF GrantDirect
<1>6. ASSUME NEW u \in Token, NEW j \in Item, RevokeGrant(u, j)
      PROVE  grant'[t][i] = grant[t][i]
  BY <1>1, <1>6 DEF RevokeGrant, NoGrant
<1>7. ASSUME NEW j \in Item, DeleteItem(j) PROVE grant'[t][i] = grant[t][i]
  BY <1>1, <1>2, <1>7 DEF DeleteItem, GrantsWithout
<1>8. QED
  BY <1>0, <1>3, <1>4, <1>5, <1>6, <1>7 DEF Writers, GrantWriter

------------------------------------------------------------------------------
(* One question at a time.                                                   *)

\* An approval that was not pending is new, and its like was overdue.
LEMMA NewlyPending ==
  ASSUME RowsOK, [Next]_vars, NEW a \in Approval, NEW b \in Approval, a # b,
         approval[a].status # "pending", approval'[a].status = "pending",
         approval'[b].status = "pending", approval'[a].tok = approval'[b].tok,
         approval'[a].item = approval'[b].item
  PROVE  approval'[b].expires <= now
<1>0. TypeOK /\ Writers /\ approval \in [Approval -> ApprovalRow]
  BY NextWriters DEF RowsOK, TypeOK
<1>1. approval[a].status = "none"
  BY ApprovalKeeps
<1>2. ASSUME NEW r \in Request, RequestApproval(r) PROVE approval'[b].expires <= now
  <2>1. PICK c \in Fresh :
          /\ PendingFor(req[r].tok, req[r].item) = {}
          /\ approval' = [approval EXCEPT ![c] =
               [status |-> "pending", tok |-> req[r].tok, item |-> req[r].item,
                requested |-> now, expires |-> now + ApprovalWait,
                consumed |-> FALSE, escalation |-> 0]]
    BY <1>1, <1>2 DEF RequestApproval
  <2>2. c = a
    BY <1>0, <1>1, <2>1 DEF Fresh
  <2>3. /\ approval'[b] = approval[b]
        /\ approval'[a].tok = req[r].tok /\ approval'[a].item = req[r].item
    BY <1>0, <2>1, <2>2
  <2>4. b \notin PendingFor(req[r].tok, req[r].item) /\ approval[b] \in ApprovalRow
    BY <1>0, <2>1
  <2>5. ~(approval[b].expires > now)
    BY <2>3, <2>4 DEF PendingFor
  <2>6. approval[b].expires \in Nat /\ now \in Nat
    BY <1>0, <2>4 DEF ApprovalRow, TypeOK
  <2>7. QED
    BY <2>3, <2>5, <2>6
<1>3. ASSUME NEW r \in Request, ConsumeApproval(r) PROVE FALSE
  BY <1>0, <1>1, <1>3 DEF ConsumeApproval, Unspent, ApprovalRow
<1>4. ASSUME Tick PROVE FALSE
  BY <1>0, <1>1, <1>4, TickedColumns DEF Tick
<1>5. ASSUME NEW i \in Item, DeleteItem(i) PROVE FALSE
  BY <1>0, <1>1, <1>5 DEF DeleteItem, PendingDenied
<1>6. ASSUME NEW c \in Approval, Approve(c) \/ Deny(c) PROVE FALSE
  BY <1>0, <1>1, <1>6 DEF Approve, Deny, ApprovalRow
<1>7. approval' # approval
  BY <1>1
<1>8. QED
  BY <1>0, <1>2, <1>3, <1>4, <1>5, <1>6, <1>7 DEF Writers, ApprovalWriter, RequestTick, TickerTick

\* Two questions about the same pair are never open at once.
LEMMA OnePendingStep ==
  ASSUME RowsOK, OnePendingPerPair, [Next]_vars
  PROVE  OnePendingPerPair'
<1>0. TypeOK
  BY DEF RowsOK
<1>1. now \in Nat /\ now' \in Nat /\ now <= now'
  BY <1>0, ClockForward
<1> SUFFICES ASSUME NEW a \in Approval, NEW b \in Approval, a # b,
                    approval'[a].status = "pending", approval'[b].status = "pending",
                    approval'[a].tok = approval'[b].tok, approval'[a].item = approval'[b].item
             PROVE  approval'[a].expires <= now' \/ approval'[b].expires <= now'
  BY DEF OnePendingPerPair
<1>2. approval'[a].expires \in Nat /\ approval'[b].expires \in Nat
  <2>1. approval' \in [Approval -> ApprovalRow]
    BY NextTypeOK DEF TypeOK
  <2>2. QED
    BY <2>1 DEF ApprovalRow
<1>3. CASE approval[a].status = "pending" /\ approval[b].status = "pending"
  <2>1. \A c \in {a, b} : /\ approval'[c].tok = approval[c].tok
                          /\ approval'[c].item = approval[c].item
                          /\ approval'[c].expires = approval[c].expires
    BY <1>3, ApprovalKeeps
  <2>2. approval[a].expires <= now \/ approval[b].expires <= now
    BY <1>3, <2>1 DEF OnePendingPerPair
  <2>3. QED
    BY <1>1, <1>2, <2>1, <2>2
<1>4. CASE approval[a].status # "pending"
  <2>1. approval'[b].expires <= now
    BY <1>4, NewlyPending
  <2>2. QED
    BY <1>1, <1>2, <2>1
<1>5. CASE approval[b].status # "pending"
  <2>1. approval'[a].expires <= now
    BY <1>5, NewlyPending
  <2>2. QED
    BY <1>1, <1>2, <2>1
<1>6. QED
  BY <1>3, <1>4, <1>5

------------------------------------------------------------------------------
(* The quota.                                                                *)

\* The requests a step can take out of Charged, or put into it.
Charging(r) == Charge(r) \/ PollCharge(r)
Under(r) == req[r].pc \in {"charged", "used", "value"}

\* Nothing but a charge puts a request among those whose value is under way.
LEMMA UnderWay ==
  ASSUME RowsOK, [Next]_vars, NEW r \in Request, Under(r)', ~Charging(r)
  PROVE  Under(r) /\ req'[r].tok = req[r].tok
<1>0. TypeOK /\ RequestsOK /\ Writers /\ req \in [Request -> RequestRow]
  BY NextWriters DEF RowsOK, TypeOK
<1>1. CASE req'[r] = req[r]
  BY <1>1 DEF Under
<1>2. ~Authenticate(r) /\ ~RequestApproval(r) /\ ~RequestTick(r)
  <2>1. req'[r].pc \in {"charged", "used", "value"}
    BY DEF Under
  <2>2. ~Authenticate(r)
    BY <1>0, <2>1 DEF Authenticate
  <2>3. ~RequestApproval(r) /\ ~RequestTick(r)
    BY <1>0, <2>1 DEF RequestApproval, RequestTick, Goto, Answer, Idle, RequestRow
  <2>4. QED
    BY <2>2, <2>3
<1>3. ~ConsumeApproval(r)
  <2>1. ASSUME ConsumeApproval(r) PROVE req'[r].pc = "consumed"
    BY <1>0, <2>1 DEF ConsumeApproval, RequestRow
  <2>2. QED
    BY <2>1 DEF Under
<1>4. CASE RecordUse(r)
  BY <1>0, <1>4 DEF RecordUse, Under, Goto, RequestRow
<1>5. CASE req[r].pc = "used" /\ req'[r] = [req[r] EXCEPT !.pc = "value"]
  BY <1>0, <1>5 DEF Under, RequestRow
<1>6. QED
  BY <1>1, <1>2, <1>3, <1>4, <1>5, RequestKeeps DEF Under, Charging

\* What a charge does: one more read used, the request among those under way.
LEMMA ChargingEffect ==
  ASSUME RowsOK, NEW r \in Request, Charging(r)
  PROVE  /\ req[r].tok \in Token /\ ~Under(r) /\ QuotaLeft(req[r].tok)
         /\ token'[req[r].tok].used = token[req[r].tok].used + 1
         /\ token'[req[r].tok].cap = token[req[r].tok].cap
         /\ \A t \in Token \ {req[r].tok} : token'[t] = token[t]
         /\ req'[r].pc = "charged" /\ req'[r].tok = req[r].tok
         /\ \A x \in Request \ {r} : req'[x] = req[x]
         /\ UNCHANGED served
<1>0. TypeOK /\ RequestsOK /\ req \in [Request -> RequestRow] /\ token \in [Token -> TokenRow]
  BY DEF RowsOK, TypeOK
<1>1. /\ req[r].pc \in {"ready", "consumed"} /\ QuotaLeft(req[r].tok) /\ UNCHANGED served
      /\ token' = [token EXCEPT ![req[r].tok].used = @ + 1]
      /\ req' = [req EXCEPT ![r] = [@ EXCEPT !.pc = "charged", !.at = now]]
  BY DEF Charging, Charge, PollCharge, ConsumeRead, history
<1>2. req[r].tok \in Token /\ ~Under(r)
  BY <1>0, <1>1 DEF RequestsOK, Under
<1>3. /\ token'[req[r].tok].used = token[req[r].tok].used + 1
      /\ token'[req[r].tok].cap = token[req[r].tok].cap
      /\ \A t \in Token \ {req[r].tok} : token'[t] = token[t]
  BY <1>0, <1>1, <1>2 DEF TokenRow
<1>4. /\ req'[r].pc = "charged" /\ req'[r].tok = req[r].tok
      /\ \A x \in Request \ {r} : req'[x] = req[x]
  BY <1>0, <1>1 DEF RequestRow
<1>5. QED
  BY <1>1, <1>2, <1>3, <1>4

\* A value that goes out is counted for its token, and its request ends.
LEMMA HandingEffect ==
  ASSUME RowsOK, NEW r \in Request, HandOver(r), Answer(r), Under(r)
  PROVE  /\ req[r].tok \in Token /\ served'[req[r].tok] = served[req[r].tok] + 1
         /\ \A t \in Token \ {req[r].tok} : served'[t] = served[t]
         /\ ~Under(r)'
<1>0. TypeOK /\ RequestsOK /\ req \in [Request -> RequestRow] /\ served \in [Token -> Nat]
  BY DEF RowsOK, TypeOK
<1>1. req[r].tok \in Token
  BY <1>0 DEF RequestsOK, Under
<1>2. req'[r].pc = "idle"
  BY <1>0 DEF Answer, Idle
<1>3. QED
  BY <1>0, <1>1, <1>2 DEF HandOver, Under

\* The counters of a token: a mint starts them, a charge moves them, and nothing
\* else does.
LEMMA UsedKeeps ==
  ASSUME RowsOK, [Next]_vars, NEW t \in Token, \A r \in Request : Charging(r) => req[r].tok # t
  PROVE  \/ token'[t].used = token[t].used /\ token'[t].cap = token[t].cap
         \/ token[t].used = 0 /\ token'[t].used = 0
<1>0. TypeOK /\ TokensOK /\ Writers /\ token \in [Token -> TokenRow]
  BY NextWriters DEF RowsOK, TypeOK
<1>1. ASSUME NEW r \in Request, Renew(r)
      PROVE  token'[t].used = token[t].used /\ token'[t].cap = token[t].cap
  BY <1>0, <1>1 DEF Renew, TokenRow
<1>2. ASSUME NEW u \in Token, RevokeToken(u)
      PROVE  token'[t].used = token[t].used /\ token'[t].cap = token[t].cap
  BY <1>0, <1>2 DEF RevokeToken, TokenRow
<1>3. ASSUME NEW u \in Token, MintToken(u)
      PROVE  \/ token'[t].used = token[t].used /\ token'[t].cap = token[t].cap
             \/ token[t].used = 0 /\ token'[t].used = 0
  <2>1. CASE u = t
    <3>1. token[t].used = 0
      BY <1>0, <1>3, <2>1 DEF MintToken, TokensOK, NoToken
    <3>2. token'[t].used = 0
      BY <1>0, <1>3, <2>1 DEF MintToken
    <3>3. QED
      BY <3>1, <3>2
  <2>2. CASE u # t
    BY <1>0, <1>3, <2>2 DEF MintToken
  <2>3. QED
    BY <2>1, <2>2
<1>4. ASSUME NEW r \in Request, Charge(r) \/ PollCharge(r) PROVE token'[t] = token[t]
  BY <1>4, ChargingEffect DEF Charging
<1>5. QED
  BY <1>0, <1>1, <1>2, <1>3, <1>4 DEF Writers, TokenWriter

\* Values go out in two kinds of steps alone.
LEMMA ServedSteps ==
  ASSUME [Next]_vars
  PROVE  \/ UNCHANGED history
         \/ \E r \in Request : HandOver(r) /\ Answer(r) /\ Under(r) /\ (ReadVersion(r) \/ Send(r))
<1>1. CASE UNCHANGED <<req, served, handed>> \/ Crash
  BY <1>1 DEF Crash, history
<1>2. ASSUME NEW r \in Request, Authenticate(r) \/ StoreFails(r) PROVE UNCHANGED history
  BY <1>2 DEF Authenticate, StoreFails
<1>3. ASSUME NEW r \in Request, AgentStep(r), ~ReadVersion(r), ~Send(r) PROVE UNCHANGED history
  BY <1>3 DEF AgentStep, RefuseScope, RefuseUse, NotRequired, RequestApproval, Charge, RefuseQuota,
     PollAnswer, ConsumeApproval, PollCharge, PollRefuse, RecordUse, UpstreamRefused, Renew, RequestTick
<1>4. ASSUME NEW r \in Request, ReadVersion(r)
      PROVE  UNCHANGED history \/ (HandOver(r) /\ Answer(r) /\ Under(r))
  BY <1>4 DEF ReadVersion, Under
<1>5. ASSUME NEW r \in Request, Send(r) PROVE HandOver(r) /\ Answer(r) /\ Under(r)
  BY <1>5 DEF Send, Under
<1>6. QED
  BY <1>1, <1>2, <1>3, <1>4, <1>5, NextWriters DEF Writers, RequestWriter

\* A token's reads that are under way stay, move on, or end, unless one is charged.
LEMMA ChargedShrinks ==
  ASSUME RowsOK, [Next]_vars, NEW t \in Token, \A r \in Request : Charging(r) => req[r].tok # t
  PROVE  Charged(t)' \subseteq Charged(t)
<1>1. SUFFICES ASSUME NEW r \in Request, Under(r)', req'[r].tok = t
               PROVE  Under(r) /\ req[r].tok = t
  BY DEF Charged, Under
<1>2. ~Charging(r)
  BY <1>1, ChargingEffect
<1>3. QED
  BY <1>1, <1>2, UnderWay

\* No step charges for two.
LEMMA ChargingOnce ==
  ASSUME RowsOK, NEW r \in Request, NEW x \in Request, Charging(r), Charging(x)
  PROVE  x = r
<1>1. CASE x # r
  <2>1. req'[x].pc = "charged" /\ ~Under(x) /\ req'[x] = req[x]
    BY <1>1, ChargingEffect
  <2>2. QED
    BY <2>1 DEF Under
<1>2. QED
  BY <1>1

\* What the counters of one token, and its reads under way, can do.
LEMMA QuotaStep == ASSUME RowsOK, QuotaInv, [Next]_vars PROVE QuotaInv'
<1> SUFFICES ASSUME NEW t \in Token
             PROVE  /\ served'[t] + Cardinality(Charged(t)') <= token'[t].used
                    /\ token'[t].cap # NoCap => token'[t].used <= token'[t].cap
                    /\ IsFiniteSet(Charged(t)')
  BY DEF QuotaInv, QuotaHolds
<1> DEFINE C == Charged(t)
           D == Charged(t)'
<1>0. TypeOK /\ TypeOK'
  BY NextTypeOK DEF RowsOK
<1>1. /\ served[t] \in Nat /\ token[t].used \in Nat /\ token[t].cap \in Nat \cup {NoCap}
      /\ served'[t] \in Nat /\ token'[t].used \in Nat /\ token'[t].cap \in Nat \cup {NoCap}
      /\ NoCap \notin Nat
  BY <1>0, ConstantsOK DEF TypeOK, TokenRow
<1>2. /\ IsFiniteSet(C) /\ Cardinality(C) \in Nat
      /\ served[t] + Cardinality(C) <= token[t].used
      /\ token[t].cap # NoCap => token[t].used <= token[t].cap
  BY FS_CardinalityType DEF QuotaInv, QuotaHolds
<1>3. ASSUME NEW r \in Request, Charging(r), req[r].tok = t
      PROVE  /\ served'[t] + Cardinality(D) <= token'[t].used
             /\ token'[t].cap # NoCap => token'[t].used <= token'[t].cap
             /\ IsFiniteSet(D)
  <2>1. /\ served'[t] = served[t] /\ token'[t].used = token[t].used + 1
        /\ token'[t].cap = token[t].cap /\ QuotaLeft(t) /\ r \notin C
        /\ req'[r].pc = "charged" /\ req'[r].tok = t
        /\ \A x \in Request \ {r} : req'[x] = req[x]
    BY <1>3, ChargingEffect DEF Charged, Under
  <2>2. D = C \cup {r}
    BY <2>1 DEF Charged
  <2>3. IsFiniteSet(D) /\ Cardinality(D) = Cardinality(C) + 1
    <3> HIDE DEF C, D
    <3> QED
      BY <1>2, <2>1, <2>2, FS_AddElement
  <2>4. token'[t].cap # NoCap => token[t].used < token[t].cap
    BY <2>1 DEF QuotaLeft
  <2> HIDE DEF C, D
  <2>5. QED
    BY <1>1, <1>2, <2>1, <2>3, <2>4
<1>4. ASSUME \A r \in Request : Charging(r) => req[r].tok # t
      PROVE  /\ served'[t] + Cardinality(D) <= token'[t].used
             /\ token'[t].cap # NoCap => token'[t].used <= token'[t].cap
             /\ IsFiniteSet(D)
  <2>1. D \subseteq C
    BY <1>4, ChargedShrinks
  <2>2. IsFiniteSet(D) /\ Cardinality(D) \in Nat /\ Cardinality(D) <= Cardinality(C)
    BY <1>2, <2>1, FS_Subset, FS_CardinalityType
  <2>3. served'[t] + Cardinality(D) <= served[t] + Cardinality(C)
    <3>1. CASE served'[t] = served[t]
      <4> HIDE DEF C, D
      <4> QED
        BY <1>1, <1>2, <2>2, <3>1
    <3>2. CASE served'[t] # served[t]
      <4>1. PICK r \in Request : HandOver(r) /\ Answer(r) /\ Under(r)
        BY <3>2, ServedSteps DEF history
      <4>2. req[r].tok = t /\ served'[t] = served[t] + 1 /\ ~Under(r)'
        BY <3>2, <4>1, HandingEffect
      <4>3. r \in C /\ r \notin D
        BY <4>1, <4>2 DEF Charged, Under
      <4>4. D \subseteq C \ {r}
        BY <2>1, <4>3
      <4>5. /\ IsFiniteSet(C \ {r}) /\ Cardinality(C \ {r}) = Cardinality(C) - 1
            /\ Cardinality(D) <= Cardinality(C \ {r})
        <5> HIDE DEF C, D
        <5> QED
          BY <1>2, <4>3, <4>4, FS_RemoveElement, FS_Subset
      <4> HIDE DEF C, D
      <4>6. QED
        BY <1>1, <1>2, <2>2, <4>2, <4>5
    <3>3. QED
      BY <3>1, <3>2
  <2>4. \/ token'[t].used = token[t].used /\ token'[t].cap = token[t].cap
        \/ token[t].used = 0 /\ token'[t].used = 0
    BY <1>4, UsedKeeps
  <2> HIDE DEF C, D
  <2>5. QED
    BY <1>1, <1>2, <2>2, <2>3, <2>4
<1>5. QED
  BY <1>3, <1>4

------------------------------------------------------------------------------
(* An approval is spent once, and its value goes out once at most.           *)

\* Only a poll on the approval spends it.
LEMMA NewlySpent ==
  ASSUME RowsOK, [Next]_vars, NEW a \in Approval, ~approval[a].consumed, approval'[a].consumed
  PROVE  \E r \in Request : ConsumeApproval(r) /\ req[r].apr = a
<1>0. TypeOK /\ RequestsOK /\ Writers /\ approval \in [Approval -> ApprovalRow]
  BY NextWriters DEF RowsOK, TypeOK
<1>1. ASSUME NEW r \in Request, RequestApproval(r) PROVE FALSE
  BY <1>0, <1>1 DEF RequestApproval, Fresh
<1>2. ASSUME NEW r \in Request, ConsumeApproval(r) PROVE req[r].apr = a
  BY <1>0, <1>2 DEF ConsumeApproval
<1>3. ASSUME Tick PROVE FALSE
  BY <1>0, <1>3, TickedColumns DEF Tick
<1>4. ASSUME NEW i \in Item, DeleteItem(i) PROVE FALSE
  BY <1>0, <1>4 DEF DeleteItem, PendingDenied, ApprovalRow
<1>5. ASSUME NEW b \in Approval, Approve(b) \/ Deny(b) PROVE FALSE
  BY <1>0, <1>5 DEF Approve, Deny, ApprovalRow
<1>6. approval' # approval
  OBVIOUS
<1>7. QED
  BY <1>0, <1>1, <1>2, <1>3, <1>4, <1>5, <1>6
     DEF Writers, ApprovalWriter, RequestTick, TickerTick

\* A request polls on with what it spent.
LEMMA PollingKeeps ==
  ASSUME RowsOK, [Next]_vars, NEW r \in Request, Polling(r)', ~ConsumeApproval(r)
  PROVE  Polling(r) /\ req'[r].apr = req[r].apr
<1>0. TypeOK /\ RequestsOK /\ Writers /\ req \in [Request -> RequestRow]
  BY NextWriters DEF RowsOK, TypeOK
<1>1. req'[r].kind = "poll" /\ req'[r].pc \in {"consumed", "charged"}
  BY DEF Polling
<1>2. CASE req'[r] = req[r]
  BY <1>1, <1>2 DEF Polling
<1>3. ~Authenticate(r)
  BY <1>0, <1>1 DEF Authenticate
<1>4. ~RequestApproval(r) /\ ~RequestTick(r) /\ ~RecordUse(r)
  BY <1>0, <1>1 DEF RequestApproval, RequestTick, RecordUse, Goto, Answer, Idle, RequestRow
<1>5. CASE Charge(r) \/ PollCharge(r)
  <2>1. /\ req'[r] = [req[r] EXCEPT !.pc = "charged", !.at = now] /\ req[r] \in RequestRow
        /\ req[r].pc = "consumed" \/ req[r].kind \in Reading
    BY <1>0, <1>5 DEF Charge, PollCharge
  <2>2. req'[r].kind = req[r].kind /\ req'[r].apr = req[r].apr
    BY <2>1 DEF RequestRow
  <2>3. QED
    BY <1>1, <2>1, <2>2 DEF Polling, Reading
<1>6. req'[r] # [req[r] EXCEPT !.pc = "value"]
  BY <1>0, <1>1 DEF RequestRow
<1>7. QED
  BY <1>1, <1>2, <1>3, <1>4, <1>5, <1>6, RequestKeeps

\* A value that goes out by a poll is that of the approval the request spent.
LEMMA PolledValue ==
  ASSUME LockedOK, SpentOnce, NEW r \in Request, HandOver(r), Answer(r), Under(r),
         ReadVersion(r) \/ Send(r), req[r].kind = "poll"
  PROVE  LET a == req[r].apr IN
         /\ a \in Approval /\ approval[a].consumed /\ handed[a] = 0 /\ handed'[a] = 1
         /\ \A b \in Approval \ {a} : handed'[b] = handed[b]
         /\ \A x \in Request \ {r} : req'[x] = req[x] /\ ~Polling(x)
         /\ req'[r].pc = "idle" /\ UNCHANGED <<now, approval>>
<1> DEFINE a == req[r].apr
<1>0. /\ TypeOK /\ RequestsOK /\ MutexHeld /\ SpentOK
      /\ req \in [Request -> RequestRow] /\ handed \in [Approval -> Nat]
  BY DEF LockedOK, RowsOK, TypeOK
<1>1. req[r].pc = "charged" /\ a \in Approval
  BY <1>0 DEF RequestsOK, Send, ReadVersion, Under
<1>2. approval[a].consumed /\ Polling(r)
  BY <1>0, <1>1 DEF SpentOK, Polling
<1>3. handed[a] = 0
  BY <1>1, <1>2 DEF SpentOnce
<1>4. handed'[a] = 1 /\ \A b \in Approval \ {a} : handed'[b] = handed[b]
  BY <1>0, <1>1, <1>3 DEF HandOver
<1>5. holder = r
  BY <1>0, <1>1 DEF MutexHeld, Locked
<1>6. ASSUME NEW x \in Request \ {r} PROVE req'[x] = req[x] /\ ~Polling(x)
  <2>1. req'[x] = req[x]
    BY <1>0 DEF Answer
  <2>2. req[x].pc \notin Locked
    BY <1>0, <1>5 DEF MutexHeld
  <2>3. QED
    BY <2>1, <2>2 DEF Polling, Locked
<1>7. req'[r].pc = "idle" /\ UNCHANGED <<now, approval>>
  BY <1>0 DEF Answer, Idle, ReadVersion, Send, store
<1>8. QED
  BY <1>1, <1>2, <1>3, <1>4, <1>6, <1>7

\* Spent approvals stay approved, and no value of theirs goes out again.
LEMMA SpentOnceStep == ASSUME LockedOK, SpentOnce, [Next]_vars PROVE SpentOnce'
<1>0. RowsOK /\ RowsOK'
  BY NextTypeOK, RequestsOKStep, ApprovalsOKStep, TokensOKStep DEF LockedOK, RowsOK
<1> SUFFICES ASSUME NEW a \in Approval
             PROVE  /\ approval'[a].consumed => approval'[a].status = "approved"
                    /\ handed'[a] \in {0, 1}
                    /\ handed'[a] = 1 => /\ approval'[a].consumed
                                         /\ \A r \in Request : Polling(r)' => req'[r].apr # a
  BY DEF SpentOnce
<1>1. ASSUME approval'[a].consumed PROVE approval'[a].status = "approved"
  <2>1. CASE approval[a].consumed
    <3>1. approval[a].status = "approved"
      BY <2>1 DEF SpentOnce
    <3>2. QED
      BY <1>0, <3>1, ApprovalKeeps
  <2>2. CASE ~approval[a].consumed
    <3>1. PICK r \in Request : ConsumeApproval(r) /\ req[r].apr = a
      BY <1>0, <1>1, <2>2, NewlySpent
    <3>2. approval[a].status = "approved"
      BY <3>1 DEF ConsumeApproval, Unspent
    <3>3. QED
      BY <1>0, <3>2, ApprovalKeeps
  <2>3. QED
    BY <2>1, <2>2
<1>2. CASE handed'[a] = handed[a]
  <2>1. handed'[a] \in {0, 1}
    BY <1>2 DEF SpentOnce
  <2>2. ASSUME handed'[a] = 1
        PROVE  approval'[a].consumed /\ \A r \in Request : Polling(r)' => req'[r].apr # a
    <3>1. approval[a].consumed /\ \A r \in Request : Polling(r) => req[r].apr # a
      BY <1>2, <2>2 DEF SpentOnce
    <3>2. approval'[a].consumed
      <4>1. approval[a].status = "approved"
        BY <3>1 DEF SpentOnce
      <4>2. QED
        BY <1>0, <3>1, <4>1, ApprovalKeeps
    <3>3. ASSUME NEW r \in Request, Polling(r)' PROVE req'[r].apr # a
      <4>1. CASE ConsumeApproval(r)
        <5>1. req[r].apr # a /\ req[r] \in RequestRow
          BY <1>0, <3>1, <4>1 DEF ConsumeApproval, Unspent, RowsOK, TypeOK
        <5>2. req'[r].apr = req[r].apr
          BY <1>0, <4>1, <5>1 DEF ConsumeApproval, RequestRow, RowsOK, TypeOK
        <5>3. QED
          BY <5>1, <5>2
      <4>2. CASE ~ConsumeApproval(r)
        BY <1>0, <3>1, <3>3, <4>2, PollingKeeps
      <4>3. QED
        BY <4>1, <4>2
    <3>4. QED
      BY <3>2, <3>3
  <2>3. QED
    BY <1>1, <2>1, <2>2
<1>3. CASE handed'[a] # handed[a]
  <2>1. PICK r \in Request : HandOver(r) /\ Answer(r) /\ Under(r) /\ (ReadVersion(r) \/ Send(r))
    BY <1>3, ServedSteps DEF history
  <2>2. req[r].kind = "poll"
    BY <1>3, <2>1 DEF HandOver
  <2>3. /\ approval[req[r].apr].consumed /\ handed'[req[r].apr] = 1
        /\ \A b \in Approval \ {req[r].apr} : handed'[b] = handed[b]
        /\ \A x \in Request \ {r} : req'[x] = req[x] /\ ~Polling(x)
        /\ req'[r].pc = "idle" /\ approval' = approval
    BY <2>1, <2>2, PolledValue
  <2>4. req[r].apr = a
    BY <1>3, <2>3
  <2>5. \A x \in Request : ~Polling(x)'
    BY <2>3 DEF Polling
  <2>6. QED
    BY <1>1, <2>3, <2>4, <2>5
<1>4. QED
  BY <1>2, <1>3

------------------------------------------------------------------------------
(* The invariant.                                                            *)

\* Nothing was minted, put, asked for or handed out.
LEMMA FlowInvInit == Init => FlowInv
<1> SUFFICES ASSUME Init PROVE FlowInv
  OBVIOUS
<1>1. RowsOK
  BY InitTypeOK DEF Init, RowsOK, RequestsOK, ApprovalsOK, TokensOK, Idle, NoApproval, NoToken, NoGrant
<1>2. MutexHeld /\ SpentOK /\ CheckedStillHolds
  BY ConstantsOK DEF Init, MutexHeld, SpentOK, CheckedStillHolds, Idle, Locked
<1>3. PendingItemLive /\ GrantBacked /\ OnePendingPerPair /\ SpentOnce
  BY DEF Init, PendingItemLive, GrantBacked, OnePendingPerPair, SpentOnce, NoApproval, NoGrant
<1>4. QuotaInv
  <2> SUFFICES ASSUME NEW t \in Token
               PROVE  /\ served[t] + Cardinality(Charged(t)) <= token[t].used
                      /\ token[t].cap # NoCap => token[t].used <= token[t].cap
                      /\ IsFiniteSet(Charged(t))
    BY DEF QuotaInv, QuotaHolds
  <2>1. Charged(t) = {}
    BY DEF Init, Charged, Idle
  <2>2. served[t] = 0 /\ token[t].used = 0 /\ token[t].cap = NoCap
    BY DEF Init, NoToken
  <2>3. QED
    BY <2>1, <2>2, FS_EmptySet
<1>5. QED
  BY <1>1, <1>2, <1>3, <1>4 DEF FlowInv, LockedOK

\* Every step keeps it.
LEMMA FlowInvStep == FlowInv /\ [Next]_vars => FlowInv'
<1> SUFFICES ASSUME FlowInv, [Next]_vars PROVE FlowInv'
  OBVIOUS
<1>1. LockedOK /\ RowsOK /\ PendingItemLive /\ GrantBacked /\ OnePendingPerPair /\ QuotaInv /\ SpentOnce
  BY DEF FlowInv, LockedOK
<1>2. RowsOK'
  BY <1>1, NextTypeOK, RequestsOKStep, ApprovalsOKStep, TokensOKStep DEF RowsOK
<1>3. MutexHeld' /\ SpentOK' /\ CheckedStillHolds'
  BY <1>1, MutexHeldStep, SpentStep, CheckedStep DEF LockedOK
<1>4. PendingItemLive' /\ GrantBacked' /\ OnePendingPerPair' /\ QuotaInv' /\ SpentOnce'
  BY <1>1, PendingItemLiveStep, GrantBackedStep, OnePendingStep, QuotaStep, SpentOnceStep
<1>5. QED
  BY <1>2, <1>3, <1>4 DEF FlowInv, LockedOK

\* It holds always.
LEMMA Invariant == Spec => []FlowInv
  BY FlowInvInit, FlowInvStep, PTL DEF Spec

\* Crashes, refusals and failures after a charge only ever cost the agent reads:
\* a capped token is never handed more values than its cap, those under way
\* included (access.rs:479-491).
THEOREM ReadsWithinQuota == Spec => []QuotaHolds
<1>1. FlowInv => QuotaHolds
  BY DEF FlowInv, QuotaInv
<1>2. QED
  BY <1>1, Invariant, PTL

\* Every grant comes from a human, for this token and this item, and goes with
\* the item (access.rs:714-761, 840-871; vault.rs:958).
THEOREM GrantsHaveOrigin == Spec => []GrantBacked
<1>1. FlowInv => GrantBacked
  BY DEF FlowInv
<1>2. QED
  BY <1>1, Invariant, PTL

\* However many requests ask at the same time, one question per token and item
\* is open (access.rs:603-615).
THEOREM OneQuestionAtATime == Spec => []OnePendingPerPair
<1>1. FlowInv => OnePendingPerPair
  BY DEF FlowInv
<1>2. QED
  BY <1>1, Invariant, PTL

------------------------------------------------------------------------------
(* Access implements ApprovalFlow.                                           *)

\* The first states are first states of the flow.
LEMMA FlowStart == Init => Flow!FlowInit
  BY DEF Init, Flow!FlowInit, NoApproval

\* What the flow sees of an approval does not change.
Same(a) == /\ approval'[a].consumed = approval[a].consumed
           /\ approval'[a].status = approval[a].status
           /\ approval'[a].expires = approval[a].expires

\* An agent asks.
LEMMA AskStep ==
  ASSUME FlowInv, NEW r \in Request, RequestApproval(r)
  PROVE  [\E a \in Approval : Flow!Ask(a)]_(Flow!flow)
<1>0. TypeOK /\ SpentOnce /\ approval \in [Approval -> ApprovalRow]
  BY DEF FlowInv, LockedOK, RowsOK, TypeOK
<1>1. CASE UNCHANGED approval
  BY <1>1 DEF RequestApproval, history, Flow!flow
<1>2. CASE ~UNCHANGED approval
  <2>1. PICK a \in Fresh : approval' = [approval EXCEPT ![a] =
               [status |-> "pending", tok |-> req[r].tok, item |-> req[r].item,
                requested |-> now, expires |-> now + ApprovalWait,
                consumed |-> FALSE, escalation |-> 0]]
    BY <1>2 DEF RequestApproval
  <2>2. a \in Approval /\ approval[a].status = "none" /\ ~approval[a].consumed
    BY <1>0 DEF Fresh, SpentOnce
  <2>3. /\ approval'[a].status = "pending" /\ ~approval'[a].consumed
        /\ approval'[a].expires = now + ApprovalWait
        /\ \A b \in Approval \ {a} : approval'[b] = approval[b]
    BY <1>0, <2>1, <2>2
  <2>4. UNCHANGED <<now, handed>>
    BY DEF RequestApproval, history
  <2>5. Flow!Ask(a)
    BY <2>2, <2>3, <2>4 DEF Flow!Ask
  <2>6. QED
    BY <2>2, <2>5
<1>3. QED
  BY <1>1, <1>2

\* Silence, or the end of an item, closes what is pending.
LEMMA NoStep ==
  ASSUME FlowInv, NEW S \in SUBSET Approval, NEW answer \in {"denied", "timeout"},
         \A a \in S : /\ approval[a].status = "pending" /\ approval'[a].status = answer
                      /\ approval'[a].consumed = approval[a].consumed
                      /\ approval'[a].expires = approval[a].expires
                      /\ answer = "timeout" => approval[a].expires <= now,
         \A a \in Approval \ S : Same(a),
         UNCHANGED <<now, handed>>
  PROVE  Flow!No(S)
<1>1. \A a \in S : ~approval[a].consumed
  BY DEF FlowInv, SpentOnce
<1>2. \A a \in Approval :
        /\ approval'[a].consumed = approval[a].consumed
        /\ approval'[a].status = IF a \in S THEN answer ELSE approval[a].status
        /\ approval'[a].expires = approval[a].expires
  BY DEF Same
<1>3. QED
  BY <1>1, <1>2 DEF Flow!No

\* A pass of the ticker.
LEMMA TickStep ==
  ASSUME FlowInv, Tick, UNCHANGED <<now, handed>>
  PROVE  \E S \in SUBSET Approval : Flow!No(S)
<1>0. TypeOK /\ approval \in [Approval -> ApprovalRow]
  BY DEF FlowInv, LockedOK, RowsOK, TypeOK
<1>1. PICK S \in SUBSET Approval :
        S = {a \in Approval : approval[a].status = "pending" /\ approval[a].expires <= now}
  OBVIOUS
<1>2. ASSUME NEW a \in S
      PROVE  /\ approval[a].status = "pending" /\ approval'[a].status = "timeout"
             /\ approval'[a].consumed = approval[a].consumed
             /\ approval'[a].expires = approval[a].expires
             /\ approval[a].expires <= now
  BY <1>0, <1>1 DEF Tick, Ticked, ApprovalRow
<1>3. ASSUME NEW a \in Approval \ S PROVE Same(a)
  <2>1. ~(approval[a].status = "pending" /\ approval[a].expires <= now)
        /\ approval'[a] = Ticked(approval[a]) /\ approval[a] \in ApprovalRow
    BY <1>0, <1>1 DEF Tick
  <2>2. QED
    BY <2>1 DEF Ticked, ApprovalRow, Same
<1>4. Flow!No(S)
  BY <1>2, <1>3, NoStep
<1>5. QED
  BY <1>4

\* The deletion of an item.
LEMMA DeleteStep ==
  ASSUME FlowInv, NEW i \in Item, DeleteItem(i)
  PROVE  \E S \in SUBSET Approval : Flow!No(S)
<1>0. TypeOK /\ approval \in [Approval -> ApprovalRow]
  BY DEF FlowInv, LockedOK, RowsOK, TypeOK
<1>1. PICK S \in SUBSET Approval :
        S = {a \in Approval : approval[a].status = "pending" /\ approval[a].item = i}
  OBVIOUS
<1>2. ASSUME NEW a \in S
      PROVE  /\ approval[a].status = "pending" /\ approval'[a].status = "denied"
             /\ approval'[a].consumed = approval[a].consumed
             /\ approval'[a].expires = approval[a].expires
  BY <1>0, <1>1 DEF DeleteItem, PendingDenied, ApprovalRow
<1>3. ASSUME NEW a \in Approval \ S PROVE Same(a)
  BY <1>0, <1>1 DEF DeleteItem, PendingDenied, Same
<1>4. UNCHANGED <<now, handed>>
  BY DEF DeleteItem, history
<1>5. Flow!No(S)
  BY <1>2, <1>3, <1>4, NoStep
<1>6. QED
  BY <1>5

\* A human answers.
LEMMA AnswerStep ==
  ASSUME FlowInv, NEW a \in Approval, Approve(a) \/ Deny(a)
  PROVE  Flow!Yes(a) \/ Flow!No({a})
<1>0. TypeOK /\ SpentOnce /\ approval \in [Approval -> ApprovalRow]
  BY DEF FlowInv, LockedOK, RowsOK, TypeOK
<1>1. /\ approval[a].status = "pending" /\ now < approval[a].expires
      /\ UNCHANGED <<now, handed>>
  BY DEF Approve, Deny, history
<1>2. ~approval[a].consumed
  BY <1>0, <1>1 DEF SpentOnce
<1>3. CASE Approve(a)
  <2>1. /\ approval'[a].status = "approved" /\ ~approval'[a].consumed
        /\ approval'[a].expires = approval[a].expires
        /\ \A b \in Approval \ {a} : approval'[b] = approval[b]
    BY <1>0, <1>2, <1>3 DEF Approve, ApprovalRow
  <2>2. Flow!Yes(a)
    BY <1>1, <1>2, <2>1 DEF Flow!Yes
  <2>3. QED
    BY <2>2
<1>4. CASE Deny(a)
  <2>1. /\ approval'[a].status = "denied" /\ approval'[a].consumed = approval[a].consumed
        /\ approval'[a].expires = approval[a].expires
        /\ \A b \in Approval \ {a} : approval'[b] = approval[b]
    BY <1>0, <1>4 DEF Deny, ApprovalRow
  <2>2. \A b \in Approval \ {a} : Same(b)
    BY <2>1 DEF Same
  <2>3. Flow!No({a})
    BY <1>1, <2>1, <2>2, NoStep
  <2>4. QED
    BY <2>3
<1>5. QED
  BY <1>3, <1>4

\* A poll spends what was approved.
LEMMA SpendStep ==
  ASSUME FlowInv, NEW r \in Request, ConsumeApproval(r)
  PROVE  \E a \in Approval : Flow!Spend(a)
<1>0. TypeOK /\ RequestsOK /\ approval \in [Approval -> ApprovalRow]
  BY DEF FlowInv, LockedOK, RowsOK, TypeOK
<1>1. PICK a \in Approval : a = req[r].apr
  BY <1>0 DEF ConsumeApproval, RequestsOK
<1>2. /\ approval' = [approval EXCEPT ![a].consumed = TRUE]
      /\ approval[a].status = "approved" /\ ~approval[a].consumed
      /\ UNCHANGED <<now, handed>>
  BY <1>1 DEF ConsumeApproval, Unspent, history
<1>3. /\ approval'[a].consumed
      /\ \A b \in Approval : approval'[b].expires = approval[b].expires
      /\ \A b \in Approval \ {a} : approval'[b] = approval[b]
  BY <1>0, <1>2 DEF ApprovalRow
<1>4. /\ (IF approval[a].consumed THEN "spent" ELSE approval[a].status) = "approved"
      /\ \A b \in Approval : (IF approval'[b].consumed THEN "spent" ELSE approval'[b].status)
           = IF b = a THEN "spent" ELSE IF approval[b].consumed THEN "spent" ELSE approval[b].status
  BY <1>2, <1>3
<1>5. [b \in Approval |-> IF approval'[b].consumed THEN "spent" ELSE approval'[b].status]
        = [[b \in Approval |-> IF approval[b].consumed THEN "spent" ELSE approval[b].status]
             EXCEPT ![a] = "spent"]
  BY <1>4
<1>6. /\ UNCHANGED <<now, [b \in Approval |-> approval[b].expires], handed>>
      /\ [b \in Approval |-> IF approval[b].consumed THEN "spent" ELSE approval[b].status][a] = "approved"
  BY <1>2, <1>3, <1>4
<1>7. Flow!Spend(a)
  BY <1>5, <1>6 DEF Flow!Spend
<1>8. QED
  BY <1>7

\* A value goes out: by a poll, that of an approval that was spent for it.
LEMMA HandOverStep ==
  ASSUME FlowInv, NEW r \in Request, HandOver(r), Answer(r), Under(r),
         ReadVersion(r) \/ Send(r)
  PROVE  [\E a \in Approval : Flow!HandOver(a)]_(Flow!flow)
<1>1. CASE req[r].kind = "poll"
  <2>1. LockedOK /\ SpentOnce /\ handed \in [Approval -> Nat] /\ handed' \in [Approval -> Nat]
    BY HandOverType DEF FlowInv, LockedOK, RowsOK, TypeOK
  <2>2. PICK a \in Approval : a = req[r].apr
    BY <1>1, <2>1, PolledValue
  <2>3. /\ approval[a].consumed /\ handed[a] = 0 /\ handed'[a] = 1
        /\ \A b \in Approval \ {a} : handed'[b] = handed[b]
        /\ UNCHANGED <<now, approval>>
    BY <1>1, <2>1, <2>2, PolledValue
  <2>4. Flow!HandOver(a)
    BY <2>1, <2>3 DEF Flow!HandOver
  <2>5. QED
    BY <2>4
<1>2. CASE req[r].kind # "poll"
  <2>1. UNCHANGED <<now, approval, handed>>
    BY <1>2 DEF HandOver, ReadVersion, Send, store
  <2>2. QED
    BY <2>1 DEF Flow!flow
<1>3. QED
  BY <1>1, <1>2

\* Every step is a step of the flow, or none of its business.
LEMMA FlowStep ==
  ASSUME FlowInv, [Next]_vars
  PROVE  [Flow!FlowNext]_(Flow!flow)
<1>1. ASSUME NEW r \in Request, RequestApproval(r) PROVE [Flow!FlowNext]_(Flow!flow)
  BY <1>1, AskStep DEF Flow!FlowNext
<1>2. ASSUME NEW r \in Request, ConsumeApproval(r) PROVE [Flow!FlowNext]_(Flow!flow)
  BY <1>2, SpendStep DEF Flow!FlowNext
<1>3. ASSUME Tick, UNCHANGED <<now, history>> PROVE [Flow!FlowNext]_(Flow!flow)
  BY <1>3, TickStep DEF Flow!FlowNext, history
<1>4. ASSUME NEW i \in Item, DeleteItem(i) PROVE [Flow!FlowNext]_(Flow!flow)
  BY <1>4, DeleteStep DEF Flow!FlowNext
<1>5. ASSUME NEW a \in Approval, Approve(a) \/ Deny(a) PROVE [Flow!FlowNext]_(Flow!flow)
  BY <1>5, AnswerStep DEF Flow!FlowNext
<1>6. ASSUME NEW r \in Request, HandOver(r), Answer(r), Under(r), ReadVersion(r) \/ Send(r)
      PROVE  [Flow!FlowNext]_(Flow!flow)
  BY <1>6, HandOverStep DEF Flow!FlowNext
<1>7. CASE ClockAdvance
  BY <1>7 DEF ClockAdvance, Flow!FlowNext, Flow!Pass, store, history
<1>8. CASE UNCHANGED <<now, approval, handed>>
  BY <1>8 DEF Flow!flow
<1>9. UNCHANGED approval \/ ApprovalWriter
  BY NextWriters DEF Writers
<1>10. QED
  BY <1>1, <1>2, <1>3, <1>4, <1>5, <1>6, <1>7, <1>8, <1>9, ClockSteps, ServedSteps
     DEF ApprovalWriter, RequestTick, TickerTick, history

\* The table approval, the ticker, the human's answers, the polls, and crashes
\* between their commits give an approval the life it is promised: asked once,
\* answered once and in time, spent once, handed over once at most (access.rs:603-835,
\* agent.rs:290-345).
THEOREM FlowImplemented == Spec => ImplementsApprovalFlow
<1>1. Spec => Flow!FlowInit /\ [][Flow!FlowNext]_(Flow!flow)
  BY FlowStart, FlowStep, Invariant, PTL DEF Spec
<1>2. QED
  BY <1>1 DEF ImplementsApprovalFlow, Flow!FlowSpec
=============================================================================
