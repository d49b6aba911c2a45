---------------------------- MODULE AccessProofs ----------------------------
(***************************************************************************)
(* Theorems about Access, for any sets of tokens, items, approvals,        *)
(* sessions and requests and any values of the time constants.             *)
(***************************************************************************)
EXTENDS Access, FiniteSetTheorems, TLAPS

(* The inductive invariant.  TypeOK alone is not inductive: a request polls an *)
(* approval that exists, and works for a token that was minted.              *)

RequestsOK ==
  \A r \in Request : req[r].pc # "idle" =>
    /\ req[r].tok \in Token /\ token[req[r].tok].minted
    /\ req[r].kind \in {"read", "ask", "use"} => req[r].item \in Item
    /\ req[r].kind = "poll" => req[r].apr \in Approval
    /\ req[r].pc = "consumed" => req[r].kind = "poll"
    /\ req[r].pc = "charged" => req[r].kind \in Reading \cup {"poll"}
    /\ req[r].pc \in {"used", "value"} => req[r].kind = "use"
    /\ req[r].pc \in Locked => req[r].item \in Item

ApprovalsOK ==
  \A a \in Approval : approval[a].status # "none" =>
    approval[a].tok \in Token /\ approval[a].item \in Item /\ token[approval[a].tok].minted

TokensOK == \A t \in Token : ~token[t].minted =>
  token[t] = NoToken /\ \A i \in Item : grant[t][i].until = 0

RowsOK == TypeOK /\ RequestsOK /\ ApprovalsOK /\ TokensOK

\* What an UPDATE of one column makes of a row.
LEMMA TokenColumns ==
  ASSUME NEW x \in TokenRow, NEW n \in Nat
  PROVE  /\ [x EXCEPT !.used = @ + 1] \in TokenRow
         /\ [x EXCEPT !.expires = n] \in TokenRow
         /\ [x EXCEPT !.revoked = TRUE] \in TokenRow
<1>1. [x EXCEPT !.used = @ + 1] \in TokenRow
  BY DEF TokenRow
<1>2. [x EXCEPT !.expires = n] \in TokenRow
  BY DEF TokenRow
<1>3. [x EXCEPT !.revoked = TRUE] \in TokenRow
  BY DEF TokenRow
<1>. QED
  BY <1>1, <1>2, <1>3

\* Setting columns of an item keeps its type.
LEMMA ItemColumns ==
  ASSUME NEW x \in ItemRow
  PROVE  /\ [x EXCEPT !.current = @ + 1] \in ItemRow
         /\ [x EXCEPT !.gated = ~@] \in ItemRow
         /\ \A b \in BOOLEAN : [x EXCEPT !.bound = b] \in ItemRow
<1>1. [x EXCEPT !.current = @ + 1] \in ItemRow
  BY DEF ItemRow
<1>2. [x EXCEPT !.gated = ~@] \in ItemRow
  BY DEF ItemRow
<1>3. \A b \in BOOLEAN : [x EXCEPT !.bound = b] \in ItemRow
  BY DEF ItemRow
<1>. QED
  BY <1>1, <1>2, <1>3

\* So does deciding or spending an approval.
LEMMA ApprovalColumns ==
  ASSUME NEW x \in ApprovalRow, NEW st \in Statuses
  PROVE  [x EXCEPT !.status = st] \in ApprovalRow /\ [x EXCEPT !.consumed = TRUE] \in ApprovalRow
  BY DEF ApprovalRow

\* So does moving a request on, with the clock or the item it needs.
LEMMA RequestColumns ==
  ASSUME NEW x \in RequestRow, NEW pc \in Pcs, NEW n \in Nat, NEW i \in Item \cup {Nobody}
  PROVE  /\ [x EXCEPT !.pc = pc] \in RequestRow
         /\ [x EXCEPT !.pc = pc, !.at = n] \in RequestRow
         /\ [x EXCEPT !.pc = pc, !.item = i] \in RequestRow
  BY DEF RequestRow

\* How many rungs of the ladder are due is a natural number.
LEMMA DueStepType == ASSUME NEW p PROVE DueStep(p) \in Nat
<1>. DEFINE D == {k \in DOMAIN Ladder : now >= p.requested + Ladder[k]}
<1>1. DOMAIN Ladder = 1..Len(Ladder) /\ Len(Ladder) \in Nat
  BY ConstantsOK
<1>2. IsFiniteSet(1..Len(Ladder))
  BY <1>1, FS_Interval
<1>3. IsFiniteSet(D)
  BY <1>1, <1>2, FS_Subset
<1>. QED
  BY <1>3, FS_CardinalityType DEF DueStep

\* A tick turns rows of the table into rows of the table.
LEMMA TickedType == ASSUME NEW p \in ApprovalRow PROVE Ticked(p) \in ApprovalRow
  BY DueStepType DEF Ticked, ApprovalRow, Statuses

\* The end of a grant is a natural number, and not after the token's expiry.
LEMMA GrantUntilType ==
  ASSUME TypeOK, NEW t \in Token, NEW ttl \in GrantTtls
  PROVE  GrantUntil(t, ttl) \in Nat /\ GrantUntil(t, ttl) <= token[t].expires
<1>1. token[t].expires \in Nat /\ now \in Nat /\ ttl \in Nat
  BY ConstantsOK DEF TypeOK, TokenRow
<1>. QED
  BY <1>1 DEF GrantUntil, Least

\* The initial state is well typed.
LEMMA InitTypeOK == Init => TypeOK
  BY ConstantsOK DEF Init, TypeOK, NoToken, TokenRow, NoItem, ItemRow, NoGrant, GrantRow,
     NoSession, SessionRow, NoApproval, ApprovalRow, Statuses, Idle, RequestRow, Pcs, AllKinds

\* The next value of req is well typed when a request ends, or moves on.
LEMMA AnswerType == ASSUME TypeOK, NEW r \in Request, Answer(r) PROVE req' \in [Request -> RequestRow]
<1>1. Idle \in RequestRow
  BY DEF Idle, RequestRow, Pcs, AllKinds
<1>. QED
  BY <1>1 DEF TypeOK, Answer

\* A request that moves to another step keeps its type.
LEMMA GotoType ==
  ASSUME TypeOK, NEW r \in Request, NEW pc \in Pcs, Goto(r, pc)
  PROVE  req' \in [Request -> RequestRow]
  BY DEF TypeOK, Goto, RequestRow

\* So does one that was charged and remembers when.
LEMMA ChargedType ==
  ASSUME TypeOK, NEW r \in Request, req' = [req EXCEPT ![r] = [@ EXCEPT !.pc = "charged", !.at = now]]
  PROVE  req' \in [Request -> RequestRow]
<1>1. [req[r] EXCEPT !.pc = "charged", !.at = now] \in RequestRow
  BY RequestColumns DEF TypeOK, Pcs
<1>. QED
  BY <1>1 DEF TypeOK

\* Charging keeps the table token well typed.
LEMMA UsedType ==
  ASSUME TypeOK, NEW t, token' = [token EXCEPT ![t].used = @ + 1]
  PROVE  token' \in [Token -> TokenRow]
<1>1. CASE t \in Token
  <2>1. [token[t] EXCEPT !.used = @ + 1] \in TokenRow
    BY <1>1, TokenColumns DEF TypeOK
  <2>. QED
    BY <1>1, <2>1 DEF TypeOK
<1>2. CASE t \notin Token
  BY <1>2 DEF TypeOK
<1>. QED
  BY <1>1, <1>2

\* An import keeps the table item well typed.
LEMMA ImportType ==
  ASSUME TypeOK, NEW i \in Item, Import(i)
  PROVE  item' \in [Item -> ItemRow]
<1>1. /\ item \in [Item -> ItemRow] /\ [item[i] EXCEPT !.current = @ + 1] \in ItemRow
      /\ [item[i] EXCEPT !.bound = TRUE] \in ItemRow
  BY ItemColumns DEF TypeOK
<1>2. CASE item' = [item EXCEPT ![i].current = @ + 1]
  BY <1>1, <1>2
<1>3. ASSUME NEW g \in BOOLEAN,
             item' = [item EXCEPT ![i] = [state |-> "live", gated |-> g,
                                          bound |-> FALSE, current |-> 1]]
      PROVE  item' \in [Item -> ItemRow]
  <2>1. [state |-> "live", gated |-> g, bound |-> FALSE, current |-> 1] \in ItemRow
    BY DEF ItemRow
  <2>. QED
    BY <1>1, <1>3, <2>1
<1>4. CASE item' = [item EXCEPT ![i].bound = TRUE]
  BY <1>1, <1>4
<1>. QED
  BY <1>2, <1>3, <1>4 DEF Import

\* Counting one up keeps a table of counters one of natural numbers.
LEMMA CounterType ==
  ASSUME NEW S, NEW f \in [S -> Nat], NEW x
  PROVE  [f EXCEPT ![x] = @ + 1] \in [S -> Nat]
<1>1. CASE x \in S
  BY <1>1
<1>2. CASE x \notin S
  <2>1. [f EXCEPT ![x] = @ + 1] = f
    BY <1>2
  <2>. QED
    BY <2>1
<1>. QED
  BY <1>1, <1>2

\* Counting a value that goes out keeps the counters natural numbers.
LEMMA HandOverType ==
  ASSUME TypeOK, NEW r \in Request, HandOver(r)
  PROVE  served' \in [Token -> Nat] /\ handed' \in [Approval -> Nat]
<1>1. served \in [Token -> Nat] /\ handed \in [Approval -> Nat]
  BY DEF TypeOK
<1>2. served' \in [Token -> Nat]
  BY <1>1, CounterType DEF HandOver
<1>3. handed' \in [Approval -> Nat]
  BY <1>1, CounterType DEF HandOver
<1>. QED
  BY <1>2, <1>3

\* Every operation of the store and of the handlers keeps the tables and the
\* local variables well typed.
LEMMA NextTypeOK == ASSUME RowsOK, [Next]_vars PROVE TypeOK'
<1>0. TypeOK /\ RequestsOK /\ ApprovalsOK
  BY DEF RowsOK
<1>. USE ConstantsOK, TickedType, <1>0
<1>1. ASSUME NEW r \in Request, Authenticate(r) PROVE TypeOK'
  <2>1. req' \in [Request -> RequestRow]
    BY <1>1 DEF Authenticate, RequestRow, Pcs, AllKinds, TypeOK
  <2>. QED
    BY <1>1, <2>1 DEF Authenticate, TypeOK, store, history
<1>2. ASSUME NEW r \in Request, RefuseScope(r) PROVE TypeOK'
  BY <1>2, AnswerType DEF RefuseScope, TypeOK, store, history
<1>3. ASSUME NEW r \in Request, NotRequired(r) PROVE TypeOK'
  BY <1>3, AnswerType DEF NotRequired, TypeOK, store, history
<1>4. ASSUME NEW r \in Request, RequestApproval(r) PROVE TypeOK'
  <2>1. req' \in [Request -> RequestRow]
    BY <1>4, GotoType DEF RequestApproval, Pcs
  <2>2. approval' \in [Approval -> ApprovalRow]
    <3>. DEFINE p == [status |-> "pending", tok |-> req[r].tok, item |-> req[r].item,
                      requested |-> now, expires |-> now + ApprovalWait,
                      consumed |-> FALSE, escalation |-> 0]
    <3>1. p \in ApprovalRow
      BY <1>4 DEF RequestApproval, InScope, ApprovalRow, Statuses, RequestRow, TypeOK
    <3>2. approval' = approval \/ \E a \in Fresh : approval' = [approval EXCEPT ![a] = p]
      BY <1>4 DEF RequestApproval
    <3>. HIDE DEF p
    <3>. QED
      BY <3>1, <3>2 DEF TypeOK, Fresh
  <2>. QED
    BY <1>4, <2>1, <2>2 DEF RequestApproval, DropMutex, TypeOK, history
<1>5. ASSUME NEW r \in Request, Charge(r) PROVE TypeOK'
  BY <1>5, ChargedType, UsedType DEF Charge, ConsumeRead, TypeOK, history
<1>6. ASSUME NEW r \in Request, RefuseQuota(r) PROVE TypeOK'
  BY <1>6, AnswerType DEF RefuseQuota, TypeOK, store, history
<1>7. ASSUME NEW r \in Request, PollAnswer(r) PROVE TypeOK'
  BY <1>7, AnswerType DEF PollAnswer, TypeOK, store, history
<1>8. ASSUME NEW r \in Request, ConsumeApproval(r) PROVE TypeOK'
  <2>1. req' \in [Request -> RequestRow]
    <3>1. req[r].apr \in Approval
      BY <1>8 DEF ConsumeApproval, RequestsOK
    <3>2. [req[r] EXCEPT !.pc = "consumed", !.item = approval[req[r].apr].item] \in RequestRow
      <4>1. approval[req[r].apr].item \in Item \cup {Nobody}
        BY <3>1 DEF ApprovalRow, TypeOK
      <4>. QED
        BY <4>1, RequestColumns DEF TypeOK, Pcs
    <3>. QED
      BY <1>8, <3>2 DEF ConsumeApproval, TypeOK
  <2>2. approval' \in [Approval -> ApprovalRow]
    <3>1. [approval[req[r].apr] EXCEPT !.consumed = TRUE] \in ApprovalRow
      BY <1>8, ApprovalColumns DEF ConsumeApproval, RequestsOK, TypeOK, Statuses
    <3>. QED
      BY <1>8, <3>1 DEF ConsumeApproval, TypeOK
  <2>. QED
    BY <1>8, <2>1, <2>2 DEF ConsumeApproval, TypeOK, history
<1>9. ASSUME NEW r \in Request, PollCharge(r) PROVE TypeOK'
  BY <1>9, ChargedType, UsedType DEF PollCharge, ConsumeRead, TypeOK, history
<1>10. ASSUME NEW r \in Request, PollRefuse(r) PROVE TypeOK'
  BY <1>10, AnswerType DEF PollRefuse, TypeOK, store, history
<1>11. ASSUME NEW r \in Request, ReadVersion(r) PROVE TypeOK'
  <2>1. req' \in [Request -> RequestRow]
    BY <1>11, AnswerType, GotoType DEF ReadVersion, Pcs
  <2>2. served' \in [Token -> Nat] /\ handed' \in [Approval -> Nat]
    BY <1>11, HandOverType DEF ReadVersion, TypeOK, history
  <2>. QED
    BY <1>11, <2>1, <2>2 DEF ReadVersion, TypeOK, store
<1>12. ASSUME NEW r \in Request, Renew(r) PROVE TypeOK'
  <2>. DEFINE t == req[r].tok
              n == Least(token[t].expires + token[t].lifetime, token[t].maxUntil)
  <2>1. t \in Token
    BY <1>12 DEF Renew, RequestsOK
  <2>2. n \in Nat
    BY <2>1 DEF TypeOK, TokenRow, Least
  <2>3. [token[t] EXCEPT !.expires = n] \in TokenRow
    BY <2>1, <2>2, TokenColumns DEF TypeOK
  <2>4. token' \in [Token -> TokenRow]
    BY <1>12, <2>1, <2>3 DEF Renew, Renewed, TypeOK
  <2>. QED
    BY <1>12, <2>4, AnswerType DEF Renew, TypeOK, history
<1>13. ASSUME NEW r \in Request, RequestTick(r) PROVE TypeOK'
  <2>1. req' \in [Request -> RequestRow]
    BY <1>13, AnswerType, GotoType DEF RequestTick, Pcs
  <2>. QED
    BY <1>13, <2>1 DEF RequestTick, Tick, TypeOK, history
<1>14. ASSUME NEW t \in Token, MintToken(t) PROVE TypeOK'
  BY <1>14 DEF MintToken, TypeOK, TokenRow, store, history
<1>15. ASSUME NEW t \in Token, RevokeToken(t) PROVE TypeOK'
  <2>1. [token[t] EXCEPT !.revoked = TRUE] \in TokenRow
    BY TokenColumns DEF TypeOK
  <2>. QED
    BY <1>15, <2>1 DEF RevokeToken, TypeOK, history
<1>16. ASSUME NEW i \in Item, Put(i) PROVE TypeOK'
  BY <1>16 DEF Put, TypeOK, ItemRow, store, history
<1>17. ASSUME NEW i \in Item, AddVersion(i) PROVE TypeOK'
  <2>1. [item[i] EXCEPT !.current = @ + 1] \in ItemRow
    BY ItemColumns DEF TypeOK
  <2>. QED
    BY <1>17, <2>1 DEF AddVersion, TypeOK, history
<1>18. ASSUME NEW i \in Item, SetGated(i) PROVE TypeOK'
  <2>1. [item[i] EXCEPT !.gated = ~@] \in ItemRow
    BY ItemColumns DEF TypeOK
  <2>. QED
    BY <1>18, <2>1 DEF SetGated, TypeOK, history
<1>19. ASSUME NEW i \in Item, DeleteItem(i) PROVE TypeOK'
  <2>1. item' \in [Item -> ItemRow]
    BY <1>19 DEF DeleteItem, TypeOK, ItemRow
  <2>2. grant' \in [Token -> [Item -> GrantRow]]
    BY <1>19 DEF DeleteItem, GrantsWithout, TypeOK, GrantRow, NoGrant
  <2>3. approval' \in [Approval -> ApprovalRow]
    <3>1. \A a \in Approval : [approval[a] EXCEPT !.status = "denied"] \in ApprovalRow
      BY ApprovalColumns DEF TypeOK, Statuses
    <3>. QED
      BY <1>19, <3>1 DEF DeleteItem, PendingDenied, TypeOK
  <2>. QED
    BY <1>19, <2>1, <2>2, <2>3 DEF DeleteItem, TypeOK, history
<1>20. ASSUME NEW a \in Approval, Approve(a) PROVE TypeOK'
  <2>. DEFINE t == approval[a].tok  i == approval[a].item
  <2>1. t \in Token /\ i \in Item
    BY <1>20 DEF Approve, ApprovalsOK
  <2>2. \A ttl \in GrantTtls : [until |-> GrantUntil(t, ttl), by |-> a] \in GrantRow
    BY <2>1, GrantUntilType DEF TypeOK, GrantRow
  <2>3. grant' \in [Token -> [Item -> GrantRow]]
    BY <1>20, <2>1, <2>2 DEF Approve, TypeOK
  <2>4. [approval[a] EXCEPT !.status = "approved"] \in ApprovalRow
    BY ApprovalColumns DEF TypeOK, Statuses
  <2>5. approval' \in [Approval -> ApprovalRow]
    BY <1>20, <2>4 DEF Approve, TypeOK
  <2>. QED
    BY <1>20, <2>3, <2>5 DEF Approve, TypeOK, history
<1>21. ASSUME NEW a \in Approval, Deny(a) PROVE TypeOK'
  <2>1. [approval[a] EXCEPT !.status = "denied"] \in ApprovalRow
    BY ApprovalColumns DEF TypeOK, Statuses
  <2>. QED
    BY <1>21, <2>1 DEF Deny, TypeOK, history
<1>22. ASSUME NEW t \in Token, NEW i \in Item, GrantDirect(t, i) PROVE TypeOK'
  <2>1. \A ttl \in GrantTtls : [until |-> GrantUntil(t, ttl), by |-> Pre] \in GrantRow
    BY GrantUntilType DEF TypeOK, GrantRow
  <2>. QED
    BY <1>22, <2>1 DEF GrantDirect, TypeOK, history
<1>23. ASSUME NEW t \in Token, NEW i \in Item, RevokeGrant(t, i) PROVE TypeOK'
  BY <1>23 DEF RevokeGrant, TypeOK, GrantRow, NoGrant, store, history
<1>24. ASSUME NEW s \in Session, OpenSession(s) PROVE TypeOK'
  BY <1>24 DEF OpenSession, TypeOK, SessionRow, store, history
<1>25. ASSUME NEW s \in Session, CloseSession(s) PROVE TypeOK'
  <2>1. session[s] \in SessionRow
    BY DEF TypeOK
  <2>2. [session[s] EXCEPT !.closed = TRUE] \in SessionRow
    BY <2>1 DEF SessionRow
  <2>. QED
    BY <1>25, <2>2 DEF CloseSession, TypeOK, history
<1>26. ASSUME Seal PROVE TypeOK'
  BY <1>26 DEF Seal, TypeOK, store, history
<1>27. ASSUME Unseal PROVE TypeOK'
  BY <1>27 DEF Unseal, TypeOK, store, history
<1>28. ASSUME TickerTick PROVE TypeOK'
  BY <1>28 DEF TickerTick, TypeOK, Tick, store, history
<1>29. ASSUME ClockAdvance PROVE TypeOK'
  BY <1>29 DEF ClockAdvance, TypeOK, store, history
<1>30. ASSUME Crash PROVE TypeOK'
  BY <1>30 DEF Crash, TypeOK, RequestRow, Pcs, AllKinds, Idle, store, history
<1>31. CASE UNCHANGED vars
  BY <1>31 DEF vars, store, history, TypeOK
<1>32. ASSUME NEW r \in Request, StoreFails(r) PROVE TypeOK'
  BY <1>32, AnswerType DEF StoreFails, TypeOK, store, history
<1>33. ASSUME NEW i \in Item, Import(i) PROVE TypeOK'
  BY <1>33, ImportType DEF Import, TypeOK, history
<1>34. ASSUME NEW r \in Request, RefuseUse(r) PROVE TypeOK'
  BY <1>34, AnswerType DEF RefuseUse, TypeOK, store, history
<1>35. ASSUME NEW r \in Request, RecordUse(r) PROVE TypeOK'
  <2>1. req' \in [Request -> RequestRow]
    BY <1>35, GotoType DEF RecordUse, Pcs
  <2>. QED
    BY <1>35, <2>1 DEF RecordUse, TypeOK, store, history
<1>36. ASSUME NEW r \in Request, Send(r) PROVE TypeOK'
  <2>1. served' \in [Token -> Nat] /\ handed' \in [Approval -> Nat]
    BY <1>36, HandOverType DEF Send
  <2>. QED
    BY <1>36, <2>1, AnswerType DEF Send, TypeOK, store
<1>37. ASSUME NEW r \in Request, UpstreamRefused(r) PROVE TypeOK'
  BY <1>37, AnswerType DEF UpstreamRefused, TypeOK, store, history
<1>38. ASSUME NEW i \in Item, SetUse(i) PROVE TypeOK'
  <2>1. \A b \in Bindings : [item[i] EXCEPT !.bound = b] \in ItemRow
    BY ItemColumns DEF TypeOK
  <2>. QED
    BY <1>38, <2>1 DEF SetUse, TypeOK, history
<1>. QED
  BY <1>1, <1>2, <1>3, <1>4, <1>5, <1>6, <1>7, <1>8, <1>9, <1>10, <1>11, <1>12, <1>13, <1>14, <1>15, <1>16, <1>17, <1>18, <1>19, <1>20, <1>21, <1>22, <1>23, <1>24, <1>25, <1>26, <1>27, <1>28, <1>29, <1>30, <1>31, <1>32, <1>33, <1>34, <1>35, <1>36, <1>37, <1>38
  DEF Next, AgentStep, HumanStep

(***************************************************************************)
(* Who writes which table.                                                 *)
(***************************************************************************)
TokenWriter ==
  \/ \E r \in Request : Charge(r) \/ PollCharge(r) \/ Renew(r)
  \/ \E t \in Token : MintToken(t) \/ RevokeToken(t)
ItemWriter ==
  \E i \in Item : Put(i) \/ AddVersion(i) \/ SetGated(i) \/ SetUse(i) \/ DeleteItem(i) \/ Import(i)
GrantWriter ==
  \/ \E i \in Item : DeleteItem(i)
  \/ \E a \in Approval : Approve(a)
  \/ \E t \in Token, i \in Item : GrantDirect(t, i) \/ RevokeGrant(t, i)
ApprovalWriter ==
  \/ \E r \in Request : RequestApproval(r) \/ ConsumeApproval(r) \/ RequestTick(r)
  \/ TickerTick
  \/ \E i \in Item : DeleteItem(i)
  \/ \E a \in Approval : Approve(a) \/ Deny(a)
RequestWriter == (\E r \in Request : Authenticate(r) \/ AgentStep(r) \/ StoreFails(r)) \/ Crash

Writers ==
  /\ TokenWriter \/ UNCHANGED token
  /\ ItemWriter \/ UNCHANGED item
  /\ GrantWriter \/ UNCHANGED grant
  /\ ApprovalWriter \/ UNCHANGED approval
  /\ RequestWriter \/ UNCHANGED <<req, served, handed>>

\* A table changes only in the steps of its writers.
LEMMA NextWriters == ASSUME [Next]_vars PROVE Writers
<1>1. ASSUME NEW r \in Request, Authenticate(r) PROVE Writers
  BY <1>1 DEF Authenticate, Writers, RequestWriter, store, history
<1>2. ASSUME NEW r \in Request, RefuseScope(r) PROVE Writers
  BY <1>2 DEF RefuseScope, Writers, RequestWriter, AgentStep, store, history
<1>3. ASSUME NEW r \in Request, NotRequired(r) PROVE Writers
  BY <1>3 DEF NotRequired, Writers, RequestWriter, AgentStep, store, history
<1>4. ASSUME NEW r \in Request, RequestApproval(r) PROVE Writers
  BY <1>4 DEF RequestApproval, Writers, ApprovalWriter, RequestWriter, AgentStep, store, history
<1>5. ASSUME NEW r \in Request, Charge(r) PROVE Writers
  BY <1>5 DEF Charge, Writers, TokenWriter, RequestWriter, AgentStep, store, history
<1>6. ASSUME NEW r \in Request, RefuseQuota(r) PROVE Writers
  BY <1>6 DEF RefuseQuota, Writers, RequestWriter, AgentStep, store, history
<1>7. ASSUME NEW r \in Request, PollAnswer(r) PROVE Writers
  BY <1>7 DEF PollAnswer, Writers, RequestWriter, AgentStep, store, history
<1>8. ASSUME NEW r \in Request, ConsumeApproval(r) PROVE Writers
  BY <1>8 DEF ConsumeApproval, Writers, ApprovalWriter, RequestWriter, AgentStep, store, history
<1>9. ASSUME NEW r \in Request, PollCharge(r) PROVE Writers
  BY <1>9 DEF PollCharge, Writers, TokenWriter, RequestWriter, AgentStep, store, history
<1>10. ASSUME NEW r \in Request, PollRefuse(r) PROVE Writers
  BY <1>10 DEF PollRefuse, Writers, RequestWriter, AgentStep, store, history
<1>11. ASSUME NEW r \in Request, ReadVersion(r) PROVE Writers
  BY <1>11 DEF ReadVersion, Writers, RequestWriter, AgentStep, store, history
<1>12. ASSUME NEW r \in Request, Renew(r) PROVE Writers
  BY <1>12 DEF Renew, Writers, TokenWriter, RequestWriter, AgentStep, store, history
<1>13. ASSUME NEW r \in Request, RequestTick(r) PROVE Writers
  BY <1>13 DEF RequestTick, Writers, ApprovalWriter, RequestWriter, AgentStep, store, history
<1>14. ASSUME NEW t \in Token, MintToken(t) PROVE Writers
  BY <1>14 DEF MintToken, Writers, TokenWriter, store, history
<1>15. ASSUME NEW t \in Token, RevokeToken(t) PROVE Writers
  BY <1>15 DEF RevokeToken, Writers, TokenWriter, store, history
<1>16. ASSUME NEW i \in Item, Put(i) PROVE Writers
  BY <1>16 DEF Put, Writers, ItemWriter, store, history
<1>17. ASSUME NEW i \in Item, AddVersion(i) PROVE Writers
  BY <1>17 DEF AddVersion, Writers, ItemWriter, store, history
<1>18. ASSUME NEW i \in Item, SetGated(i) PROVE Writers
  BY <1>18 DEF SetGated, Writers, ItemWriter, store, history
<1>19. ASSUME NEW i \in Item, DeleteItem(i) PROVE Writers
  BY <1>19 DEF DeleteItem, Writers, ItemWriter, GrantWriter, ApprovalWriter, store, history
<1>20. ASSUME NEW a \in Approval, Approve(a) PROVE Writers
  BY <1>20 DEF Approve, Writers, GrantWriter, ApprovalWriter, store, history
<1>21. ASSUME NEW a \in Approval, Deny(a) PROVE Writers
  BY <1>21 DEF Deny, Writers, ApprovalWriter, store, history
<1>22. ASSUME NEW t \in Token, NEW i \in Item, GrantDirect(t, i) PROVE Writers
  BY <1>22 DEF GrantDirect, Writers, GrantWriter, store, history
<1>23. ASSUME NEW t \in Token, NEW i \in Item, RevokeGrant(t, i) PROVE Writers
  BY <1>23 DEF RevokeGrant, Writers, GrantWriter, store, history
<1>24. ASSUME NEW s \in Session, OpenSession(s) PROVE Writers
  BY <1>24 DEF OpenSession, Writers, store, history
<1>25. ASSUME NEW s \in Session, CloseSession(s) PROVE Writers
  BY <1>25 DEF CloseSession, Writers, store, history
<1>26. ASSUME Seal PROVE Writers
  BY <1>26 DEF Seal, Writers, store, history
<1>27. ASSUME Unseal PROVE Writers
  BY <1>27 DEF Unseal, Writers, store, history
<1>28. ASSUME TickerTick PROVE Writers
  BY <1>28 DEF TickerTick, Writers, ApprovalWriter, store, history
<1>29. ASSUME ClockAdvance PROVE Writers
  BY <1>29 DEF ClockAdvance, Writers, store, history
<1>30. ASSUME Crash PROVE Writers
  BY <1>30 DEF Crash, Writers, RequestWriter, store, history
<1>31. CASE UNCHANGED vars
  BY <1>31 DEF vars, Writers, store, history
<1>32. ASSUME NEW r \in Request, StoreFails(r) PROVE Writers
  BY <1>32 DEF StoreFails, Writers, RequestWriter, store, history
<1>33. ASSUME NEW i \in Item, Import(i) PROVE Writers
  BY <1>33 DEF Import, Writers, ItemWriter, store, history
<1>34. ASSUME NEW r \in Request, RefuseUse(r) PROVE Writers
  BY <1>34 DEF RefuseUse, Writers, RequestWriter, AgentStep, store, history
<1>35. ASSUME NEW r \in Request, RecordUse(r) PROVE Writers
  BY <1>35 DEF RecordUse, Writers, RequestWriter, AgentStep, store, history
<1>36. ASSUME NEW r \in Request, Send(r) PROVE Writers
  BY <1>36 DEF Send, Writers, RequestWriter, AgentStep, store
<1>37. ASSUME NEW r \in Request, UpstreamRefused(r) PROVE Writers
  BY <1>37 DEF UpstreamRefused, Writers, RequestWriter, AgentStep, store, history
<1>38. ASSUME NEW i \in Item, SetUse(i) PROVE Writers
  BY <1>38 DEF SetUse, Writers, ItemWriter, store, history
<1>. QED
  BY <1>1, <1>2, <1>3, <1>4, <1>5, <1>6, <1>7, <1>8, <1>9, <1>10, <1>11, <1>12, <1>13, <1>14, <1>15, <1>16, <1>17, <1>18, <1>19, <1>20, <1>21, <1>22, <1>23, <1>24, <1>25, <1>26, <1>27, <1>28, <1>29, <1>30, <1>31, <1>32, <1>33, <1>34, <1>35, <1>36, <1>37, <1>38
  DEF Next, AgentStep, HumanStep

(***************************************************************************)
(* The rows stay consistent.                                               *)
(***************************************************************************)
\* A token that was minted stays minted, and a revoked one revoked.
LEMMA MintedStays ==
  ASSUME RowsOK, [Next]_vars, NEW t \in Token, token[t].minted
  PROVE  token'[t].minted /\ (token[t].revoked => token'[t].revoked)
<1>0. TypeOK /\ RequestsOK /\ Writers
  BY NextWriters DEF RowsOK
<1>1. token \in [Token -> TokenRow]
  BY <1>0 DEF TypeOK
<1>2. token[t] \in TokenRow
  BY <1>1
<1>3. ASSUME NEW r \in Request, Charge(r) \/ PollCharge(r) \/ Renew(r)
      PROVE  token'[t].minted /\ (token[t].revoked => token'[t].revoked)
  BY <1>1, <1>2, <1>3 DEF Charge, PollCharge, ConsumeRead, Renew, TokenRow
<1>4. ASSUME NEW u \in Token, MintToken(u) \/ RevokeToken(u)
      PROVE  token'[t].minted /\ (token[t].revoked => token'[t].revoked)
  BY <1>1, <1>2, <1>4 DEF MintToken, RevokeToken, TokenRow
<1>. QED
  BY <1>0, <1>3, <1>4 DEF Writers, TokenWriter

\* A request that ends, or moves on to another step, keeps its row in order.
LEMMA RequestsOKStep == ASSUME RowsOK, [Next]_vars PROVE RequestsOK'
<1>0. TypeOK /\ RequestsOK /\ ApprovalsOK /\ Writers
  BY NextWriters DEF RowsOK
<1>. DEFINE Ok(q) == q.pc # "idle" =>
       /\ q.tok \in Token /\ token[q.tok].minted
       /\ q.kind \in {"read", "ask", "use"} => q.item \in Item
       /\ q.kind = "poll" => q.apr \in Approval
       /\ q.pc = "consumed" => q.kind = "poll"
       /\ q.pc = "charged" => q.kind \in Reading \cup {"poll"}
       /\ q.pc \in {"used", "value"} => q.kind = "use"
       /\ q.pc \in Locked => q.item \in Item
<1>1. req \in [Request -> RequestRow] /\ \A r \in Request : Ok(req[r])
  BY <1>0 DEF TypeOK, RequestsOK
<1>2. SUFFICES \A r \in Request : Ok(req'[r])
  BY <1>0, MintedStays DEF RequestsOK
<1>3. ASSUME NEW r \in Request, Authenticate(r) PROVE \A x \in Request : Ok(req'[x])
  BY <1>1, <1>3 DEF Authenticate, IsLive, IsRenewable, Locked
<1>4. ASSUME NEW r \in Request, Answer(r) PROVE \A x \in Request : Ok(req'[x])
  BY <1>1, <1>4 DEF Answer, Idle
<1>5. ASSUME NEW r \in Request, RequestApproval(r) PROVE \A x \in Request : Ok(req'[x])
  BY <1>1, <1>5 DEF RequestApproval, Goto, RequestRow, Locked
<1>6. ASSUME NEW r \in Request, Charge(r) \/ PollCharge(r) PROVE \A x \in Request : Ok(req'[x])
  <2>1. /\ req' = [req EXCEPT ![r] = [@ EXCEPT !.pc = "charged", !.at = now]]
        /\ req[r].item \in Item /\ req[r].pc # "idle" /\ req[r].kind \in Reading \cup {"poll"}
    BY <1>1, <1>6 DEF Charge, PollCharge, InScope
  <2>2. req[r] \in RequestRow /\ Ok(req[r])
    BY <1>1
  <2>3. Ok([req[r] EXCEPT !.pc = "charged", !.at = now])
    BY <2>1, <2>2 DEF RequestRow, Locked
  <2>. QED
    BY <1>1, <2>1, <2>3
<1>7. ASSUME NEW r \in Request, ConsumeApproval(r) PROVE \A x \in Request : Ok(req'[x])
  BY <1>0, <1>1, <1>7 DEF ConsumeApproval, ApprovalsOK, Unspent, RequestRow
<1>8. ASSUME NEW r \in Request, RequestTick(r) PROVE \A x \in Request : Ok(req'[x])
  BY <1>1, <1>4, <1>8 DEF RequestTick, Goto, RequestRow, Locked
<1>9. ASSUME Crash PROVE \A x \in Request : Ok(req'[x])
  BY <1>9 DEF Crash, Idle
<1>10. ASSUME NEW r \in Request, RecordUse(r) \/ (ReadVersion(r) /\ Goto(r, "value"))
       PROVE  \A x \in Request : Ok(req'[x])
  <2>1. PICK pc \in {"used", "value"} : Goto(r, pc) /\ req[r].pc # "idle"
                                       /\ req[r].kind = "use" /\ req[r] \in RequestRow
    <3>1. CASE RecordUse(r)
      BY <1>1, <3>1 DEF RecordUse
    <3>2. CASE ReadVersion(r) /\ Goto(r, "value")
      <4>1. req'[r].pc = "value"
        BY <1>1, <3>2 DEF Goto, RequestRow
      <4>2. ~Answer(r)
        BY <1>1, <4>1 DEF Answer, Idle
      <4>. QED
        BY <1>1, <3>2, <4>2 DEF ReadVersion
    <3>. QED
      BY <1>10, <3>1, <3>2
  <2>2. Ok([req[r] EXCEPT !.pc = pc])
    BY <1>1, <2>1 DEF RequestRow, Locked
  <2>. QED
    BY <1>1, <2>1, <2>2 DEF Goto
<1>. QED
  BY <1>0, <1>1, <1>3, <1>4, <1>5, <1>6, <1>7, <1>8, <1>9, <1>10
  DEF Writers, RequestWriter, AgentStep, RefuseScope, RefuseUse, NotRequired, RefuseQuota,
      PollAnswer, PollRefuse, ReadVersion, Send, UpstreamRefused, Renew, StoreFails

\* A pass of the ticker leaves every column of an approval but status
\* and escalation alone, and never revives a row.
LEMMA TickedColumns ==
  ASSUME NEW p \in ApprovalRow
  PROVE  /\ Ticked(p).tok = p.tok /\ Ticked(p).item = p.item
         /\ Ticked(p).consumed = p.consumed /\ Ticked(p).expires = p.expires
         /\ Ticked(p).status = p.status \/ (p.status = "pending" /\ Ticked(p).status = "timeout")
  BY DEF Ticked, ApprovalRow

\* What a step does to an approval: a fresh request of an agent within its
\* scope, or the same token, item and deadline as before.
LEMMA ApprovalKeeps ==
  ASSUME RowsOK, [Next]_vars, NEW a \in Approval
  PROVE  \/ /\ approval[a].status = "none" /\ approval'[a].status = "pending"
            /\ approval'[a].tok \in Token /\ approval'[a].item \in Item
            /\ token[approval'[a].tok].minted /\ item[approval'[a].item].state = "live"
            /\ approval'[a].consumed = FALSE
            /\ UNCHANGED <<token, item>>
         \/ /\ approval'[a].tok = approval[a].tok /\ approval'[a].item = approval[a].item
            /\ approval'[a].expires = approval[a].expires
            /\ approval'[a].status = "none" <=> approval[a].status = "none"
            /\ approval'[a].status = "pending" => approval[a].status = "pending"
            /\ approval[a].consumed => approval'[a].consumed
            /\ approval[a].status \in {"approved", "denied", "timeout"} =>
                 approval'[a].status = approval[a].status
<1>. DEFINE Goal ==
         \/ /\ approval[a].status = "none" /\ approval'[a].status = "pending"
            /\ approval'[a].tok \in Token /\ approval'[a].item \in Item
            /\ token[approval'[a].tok].minted /\ item[approval'[a].item].state = "live"
            /\ approval'[a].consumed = FALSE
            /\ UNCHANGED <<token, item>>
         \/ /\ approval'[a].tok = approval[a].tok /\ approval'[a].item = approval[a].item
            /\ approval'[a].expires = approval[a].expires
            /\ approval'[a].status = "none" <=> approval[a].status = "none"
            /\ approval'[a].status = "pending" => approval[a].status = "pending"
            /\ approval[a].consumed => approval'[a].consumed
            /\ approval[a].status \in {"approved", "denied", "timeout"} =>
                 approval'[a].status = approval[a].status
<1>0. TypeOK /\ RequestsOK /\ ApprovalsOK /\ Writers
  BY NextWriters DEF RowsOK
<1>1. approval \in [Approval -> ApprovalRow] /\ approval[a] \in ApprovalRow
  BY <1>0 DEF TypeOK
<1>2. ASSUME NEW r \in Request, RequestApproval(r) PROVE Goal
  <2>1. req[r].tok \in Token /\ token[req[r].tok].minted
    BY <1>0, <1>2 DEF RequestApproval, RequestsOK
  <2>2. req[r].item \in Item /\ item[req[r].item].state = "live" /\ UNCHANGED <<token, item>>
    BY <1>2 DEF RequestApproval, InScope
  <2>. QED
    BY <1>1, <1>2, <2>1, <2>2 DEF RequestApproval, Fresh
<1>3. ASSUME NEW r \in Request, ConsumeApproval(r) PROVE Goal
  BY <1>1, <1>3 DEF ConsumeApproval, ApprovalRow
<1>4. ASSUME Tick PROVE Goal
  BY <1>1, <1>4, TickedColumns DEF Tick
<1>5. ASSUME NEW i \in Item, DeleteItem(i) PROVE Goal
  BY <1>1, <1>5 DEF DeleteItem, PendingDenied, ApprovalRow
<1>6. ASSUME NEW b \in Approval, Approve(b) \/ Deny(b) PROVE Goal
  BY <1>1, <1>6 DEF Approve, Deny, ApprovalRow
<1>. QED
  BY <1>0, <1>1, <1>2, <1>3, <1>4, <1>5, <1>6
  DEF Writers, ApprovalWriter, RequestTick, TickerTick

\* No step leaves an approval without its token or its item.
LEMMA ApprovalsOKStep == ASSUME RowsOK, [Next]_vars PROVE ApprovalsOK'
  BY ApprovalKeeps, MintedStays DEF ApprovalsOK, RowsOK

\* Only a minted token has counters, limits or grants.
LEMMA TokensOKStep == ASSUME RowsOK, [Next]_vars PROVE TokensOK'
<1>0. TypeOK /\ RequestsOK /\ ApprovalsOK /\ TokensOK /\ Writers
  BY NextWriters DEF RowsOK
<1>. SUFFICES ASSUME NEW t \in Token, ~token'[t].minted
              PROVE  token'[t] = NoToken /\ \A i \in Item : grant'[t][i].until = 0
  BY DEF TokensOK
<1>1. /\ token[t] = NoToken /\ ~token[t].minted
      /\ \A i \in Item : grant[t][i].until = 0
  BY <1>0, MintedStays DEF TokensOK
<1>2. token \in [Token -> TokenRow] /\ grant \in [Token -> [Item -> GrantRow]]
  BY <1>0 DEF TypeOK
<1>3. token'[t] = token[t]
  <2>1. ASSUME NEW r \in Request, Charge(r) \/ PollCharge(r) \/ Renew(r)
        PROVE  token'[t] = token[t]
    <3>1. req[r].tok \in Token /\ req[r].tok # t
      BY <1>0, <1>1, <2>1 DEF Charge, PollCharge, Renew, RequestsOK
    <3>. QED
      BY <1>2, <2>1, <3>1 DEF Charge, PollCharge, Renew, ConsumeRead
  <2>2. ASSUME NEW u \in Token, MintToken(u) \/ RevokeToken(u) PROVE token'[t] = token[t]
    <3>1. CASE u = t
      BY <1>1, <1>2, <2>2, <3>1 DEF MintToken, RevokeToken
    <3>2. CASE u # t
      BY <1>2, <2>2, <3>2 DEF MintToken, RevokeToken
    <3>. QED
      BY <3>1, <3>2
  <2>. QED
    BY <1>0, <2>1, <2>2 DEF Writers, TokenWriter
<1>4. ASSUME NEW i \in Item PROVE grant'[t][i].until = 0
  <2>1. ASSUME NEW j \in Item, DeleteItem(j) PROVE grant'[t][i].until = 0
    BY <1>1, <1>2, <2>1 DEF DeleteItem, GrantsWithout, NoGrant
  <2>2. ASSUME NEW a \in Approval, Approve(a) PROVE grant'[t][i].until = 0
    <3>1. approval[a].tok \in Token /\ approval[a].tok # t
      BY <1>0, <1>1, <2>2 DEF Approve, ApprovalsOK
    <3>. QED
      BY <1>1, <1>2, <2>2, <3>1 DEF Approve
  <2>3. ASSUME NEW u \in Token, NEW j \in Item, GrantDirect(u, j) \/ RevokeGrant(u, j)
        PROVE  grant'[t][i].until = 0
    BY <1>1, <1>2, <2>3 DEF GrantDirect, RevokeGrant, NoGrant
  <2>. QED
    BY <1>0, <1>1, <2>1, <2>2, <2>3 DEF Writers, GrantWriter
<1>. QED
  BY <1>1, <1>3, <1>4

\* The rows are consistent in every reachable state.
THEOREM RowsCorrect == Spec => []RowsOK
<1>1. Init => RowsOK
  BY InitTypeOK DEF Init, RowsOK, RequestsOK, ApprovalsOK, TokensOK, Idle, NoApproval, NoToken, NoGrant
<1>2. RowsOK /\ [Next]_vars => RowsOK'
  BY NextTypeOK, RequestsOKStep, ApprovalsOKStep, TokensOKStep DEF RowsOK
<1>. QED
  BY <1>1, <1>2, PTL DEF Spec

\* Type correctness of the access tables and of the requests in progress.
THEOREM TypeCorrect == Spec => []TypeOK
<1>1. RowsOK => TypeOK
  BY DEF RowsOK
<1>. QED
  BY <1>1, RowsCorrect, PTL

(***************************************************************************)
(* No grant outlives its token, no token passes the limit it was minted    *)
(* with.                                                                   *)
(***************************************************************************)
LEMMA GrantWithinTokenStep ==
  ASSUME RowsOK, GrantWithinToken, [Next]_vars PROVE GrantWithinToken'
<1>0. TypeOK /\ RequestsOK /\ ApprovalsOK /\ TokensOK /\ Writers
  BY NextWriters DEF RowsOK
<1>1. token \in [Token -> TokenRow] /\ grant \in [Token -> [Item -> GrantRow]]
  BY <1>0 DEF TypeOK
<1>. SUFFICES ASSUME NEW t \in Token
              PROVE  /\ token'[t].expires <= token'[t].maxUntil
                     /\ \A i \in Item : grant'[t][i].until <= token'[t].expires
  BY DEF GrantWithinToken
<1>2. /\ token[t].expires \in Nat /\ token[t].maxUntil \in Nat /\ token[t].lifetime \in Nat
      /\ token[t].expires <= token[t].maxUntil
      /\ \A i \in Item : grant[t][i].until \in Nat /\ grant[t][i].until <= token[t].expires
  BY <1>1 DEF GrantWithinToken, TokenRow, GrantRow
<1>3. ASSUME NEW r \in Request, Charge(r) \/ PollCharge(r)
      PROVE  /\ token'[t].expires = token[t].expires /\ token'[t].maxUntil = token[t].maxUntil
             /\ UNCHANGED grant
  BY <1>1, <1>3 DEF Charge, PollCharge, ConsumeRead, TokenRow
<1>4. ASSUME NEW r \in Request, Renew(r)
      PROVE  /\ token'[t].expires >= token[t].expires /\ token'[t].maxUntil = token[t].maxUntil
             /\ token'[t].expires <= token'[t].maxUntil
             /\ token'[t].expires \in Nat /\ UNCHANGED grant
  <2>1. CASE req[r].tok # t \/ UNCHANGED token
    BY <1>1, <1>2, <1>4, <2>1 DEF Renew
  <2>2. CASE req[r].tok = t /\ ~UNCHANGED token
    <3>. DEFINE n == Least(token[t].expires + token[t].lifetime, token[t].maxUntil)
    <3>1. n \in Nat /\ n >= token[t].expires /\ n <= token[t].maxUntil
      BY <1>2 DEF Least
    <3>2. token' = [token EXCEPT ![t] = [@ EXCEPT !.expires = n]] /\ UNCHANGED grant
      BY <1>4, <2>2 DEF Renew, Renewed
    <3>3. token[t] \in TokenRow
      BY <1>1
    <3>4. token'[t].expires = n /\ token'[t].maxUntil = token[t].maxUntil
      BY <1>1, <3>2, <3>3 DEF TokenRow
    <3>. QED
      BY <3>1, <3>2, <3>4
  <2>. QED
    BY <2>1, <2>2
<1>5. ASSUME NEW u \in Token, MintToken(u)
      PROVE  /\ token'[t].expires <= token'[t].maxUntil
             /\ \A i \in Item : grant'[t][i].until <= token'[t].expires
  <2>1. CASE u # t
    BY <1>1, <1>2, <1>5, <2>1 DEF MintToken
  <2>2. CASE u = t
    <3>1. \A i \in Item : grant'[t][i].until = 0
      BY <1>0, <1>5, <2>2 DEF MintToken, TokensOK
    <3>2. PICK l \in Lifetimes, m \in Lifetimes :
            m >= l /\ token'[t].expires = now + l /\ token'[t].maxUntil = now + m
      BY <1>1, <1>5, <2>2 DEF MintToken
    <3>3. l \in Nat /\ m \in Nat /\ now \in Nat
      BY <1>0, ConstantsOK DEF TypeOK
    <3>. QED
      BY <3>1, <3>2, <3>3
  <2>. QED
    BY <2>1, <2>2
<1>6. ASSUME NEW u \in Token, RevokeToken(u)
      PROVE  /\ token'[t].expires = token[t].expires /\ token'[t].maxUntil = token[t].maxUntil
             /\ UNCHANGED grant
  BY <1>1, <1>6 DEF RevokeToken, TokenRow
<1>7. ASSUME UNCHANGED token, NEW i \in Item PROVE grant'[t][i].until <= token[t].expires
  <2>1. ASSUME NEW j \in Item, DeleteItem(j) PROVE grant'[t][i].until <= token[t].expires
    BY <1>1, <1>2, <2>1 DEF DeleteItem, GrantsWithout, NoGrant
  <2>2. ASSUME NEW a \in Approval, Approve(a) PROVE grant'[t][i].until <= token[t].expires
    <3>1. approval[a].tok \in Token
      BY <1>0, <2>2 DEF Approve, ApprovalsOK
    <3>. QED
      BY <1>0, <1>1, <1>2, <2>2, <3>1, GrantUntilType DEF Approve
  <2>3. ASSUME NEW u \in Token, NEW j \in Item, GrantDirect(u, j)
        PROVE  grant'[t][i].until <= token[t].expires
    BY <1>0, <1>1, <1>2, <2>3, GrantUntilType DEF GrantDirect
  <2>4. ASSUME NEW u \in Token, NEW j \in Item, RevokeGrant(u, j)
        PROVE  grant'[t][i].until <= token[t].expires
    BY <1>1, <1>2, <2>4 DEF RevokeGrant, NoGrant
  <2>. QED
    BY <1>0, <1>2, <2>1, <2>2, <2>3, <2>4 DEF Writers, GrantWriter
<1>. QED
  BY <1>0, <1>2, <1>3, <1>4, <1>5, <1>6, <1>7 DEF Writers, TokenWriter

\* Approvals, pre-authorizations and renewals never let a grant outlive its
\* token, nor a token its maximum lifetime.
THEOREM GrantsEndWithToken == Spec => []GrantWithinToken
<1>1. Init => GrantWithinToken
  BY DEF Init, GrantWithinToken, NoToken, NoGrant
<1>2. RowsOK /\ GrantWithinToken /\ [Next]_vars => GrantWithinToken'
  BY GrantWithinTokenStep
<1>. QED
  BY <1>1, <1>2, RowsCorrect, PTL DEF Spec

(***************************************************************************)
(* A human is only asked about an item that exists.                        *)
(***************************************************************************)
LEMMA PendingItemLiveStep ==
  ASSUME RowsOK, PendingItemLive, [Next]_vars PROVE PendingItemLive'
<1>0. TypeOK /\ ApprovalsOK /\ Writers
  BY NextWriters DEF RowsOK
<1>1. item \in [Item -> ItemRow] /\ approval \in [Approval -> ApprovalRow]
  BY <1>0 DEF TypeOK
<1>. SUFFICES ASSUME NEW a \in Approval, approval'[a].status = "pending"
              PROVE  item'[approval'[a].item].state = "live"
  BY DEF PendingItemLive
<1>2. CASE approval[a].status = "none"
  BY <1>2, ApprovalKeeps
<1>3. CASE approval[a].status # "none"
  <2>. DEFINE i == approval[a].item
  <2>1. approval'[a].item = i /\ approval[a].status = "pending"
    BY <1>3, ApprovalKeeps
  <2>2. i \in Item /\ item[i].state = "live"
    BY <1>0, <2>1 DEF ApprovalsOK, PendingItemLive
  <2>3. ASSUME NEW j \in Item,
               Put(j) \/ AddVersion(j) \/ SetGated(j) \/ SetUse(j) \/ Import(j)
        PROVE  item'[i].state = "live"
    <3>1. \A x \in ItemRow, b \in BOOLEAN :
            /\ [x EXCEPT !.current = @ + 1].state = x.state
            /\ [x EXCEPT !.gated = ~@].state = x.state
            /\ [x EXCEPT !.bound = b].state = x.state
      BY DEF ItemRow
    <3>2. CASE Put(j) \/ AddVersion(j) \/ SetGated(j)
      BY <1>1, <2>2, <3>1, <3>2 DEF Put, AddVersion, SetGated
    <3>3. CASE SetUse(j)
      BY <1>1, <2>2, <3>1, <3>3, ConstantsOK DEF SetUse
    <3>4. CASE Import(j)
      BY <1>1, <2>2, <3>1, <3>4 DEF Import
    <3>. QED
      BY <2>3, <3>2, <3>3, <3>4
  <2>4. ASSUME NEW j \in Item, DeleteItem(j) PROVE item'[i].state = "live"
    <3>1. j # i
      BY <1>1, <2>1, <2>4 DEF DeleteItem, PendingDenied, ApprovalRow
    <3>. QED
      BY <1>1, <2>2, <2>4, <3>1 DEF DeleteItem
  <2>. QED
    BY <1>0, <2>1, <2>2, <2>3, <2>4 DEF Writers, ItemWriter
<1>. QED
  BY <1>2, <1>3

\* Whatever is asked, answered, timed out, put and deleted, a request that
\* waits for a human names an item that exists.
THEOREM PendingNamesLiveItem == Spec => []PendingItemLive
<1>1. Init => PendingItemLive
  BY DEF Init, PendingItemLive, NoApproval
<1>2. RowsOK /\ PendingItemLive /\ [Next]_vars => PendingItemLive'
  BY PendingItemLiveStep
<1>. QED
  BY <1>1, <1>2, RowsCorrect, PTL DEF Spec

(***************************************************************************)
(* A revoked token is never extended.                                      *)
(***************************************************************************)
LEMMA RevokedStep ==
  ASSUME RowsOK, [Next]_vars, NEW t \in Token, token[t].revoked
  PROVE  token'[t].expires = token[t].expires
<1>0. TypeOK /\ TokensOK /\ Writers
  BY NextWriters DEF RowsOK
<1>1. token \in [Token -> TokenRow]
  BY <1>0 DEF TypeOK
<1>2. token[t].minted
  BY <1>0 DEF TokensOK, NoToken
<1>3. ASSUME NEW r \in Request, Charge(r) \/ PollCharge(r)
      PROVE  token'[t].expires = token[t].expires
  BY <1>1, <1>3 DEF Charge, PollCharge, ConsumeRead, TokenRow
<1>4. ASSUME NEW r \in Request, Renew(r) PROVE token'[t].expires = token[t].expires
  BY <1>1, <1>4 DEF Renew, StillRenewable, IsRenewable
<1>5. ASSUME NEW u \in Token, MintToken(u) \/ RevokeToken(u)
      PROVE  token'[t].expires = token[t].expires
  BY <1>1, <1>2, <1>5 DEF MintToken, RevokeToken, TokenRow
<1>. QED
  BY <1>0, <1>3, <1>4, <1>5 DEF Writers, TokenWriter

\* A renewal that checked its copy of the row before a revocation does not
\* extend the token after it.
THEOREM RevokedStaysRevoked == Spec => RevokedNeverExtended
<1>1. RowsOK /\ [Next]_vars =>
        [\A t \in Token : token[t].revoked => token'[t].expires = token[t].expires]_vars
  BY RevokedStep
<1>. QED
  BY <1>1, RowsCorrect, PTL DEF Spec, RevokedNeverExtended

(***************************************************************************)
(* What was checked before the charge still holds when the value is read.  *)
(***************************************************************************)
\* A request that spent an approval holds it: approved, consumed, its own.
SpentOK ==
  \A r \in Request : LET a == req[r].apr IN
    req[r].pc = "consumed" \/ (req[r].pc = "charged" /\ req[r].kind = "poll") =>
      /\ approval[a].status = "approved" /\ approval[a].consumed
      /\ approval[a].tok = req[r].tok /\ approval[a].item = req[r].item

LockedOK == RowsOK /\ MutexHeld /\ SpentOK /\ CheckedStillHolds

\* What a step does to a request: nothing, or it is this request's own.
LEMMA RequestKeeps ==
  ASSUME RowsOK, [Next]_vars, NEW r \in Request
  PROVE  \/ req'[r] = req[r]
         \/ req'[r].pc = "idle"
         \/ Authenticate(r) \/ RequestApproval(r) \/ Charge(r) \/ ConsumeApproval(r)
         \/ PollCharge(r) \/ RequestTick(r) \/ RecordUse(r)
         \/ ReadVersion(r) /\ req[r].pc = "used" /\ req'[r] = [req[r] EXCEPT !.pc = "value"]
<1>0. TypeOK /\ Writers
  BY NextWriters DEF RowsOK
<1>1. req \in [Request -> RequestRow]
  BY <1>0 DEF TypeOK
<1>2. ASSUME NEW x \in Request, Answer(x) PROVE req'[r] = req[r] \/ req'[r].pc = "idle"
  BY <1>1, <1>2 DEF Answer, Idle
<1>3. ASSUME NEW x \in Request, x # r,
             Authenticate(x) \/ RequestApproval(x) \/ Charge(x) \/ ConsumeApproval(x)
               \/ PollCharge(x) \/ RequestTick(x) \/ RecordUse(x) \/ Goto(x, "value")
      PROVE  req'[r] = req[r]
  BY <1>1, <1>3 DEF Authenticate, RequestApproval, Charge, ConsumeApproval, PollCharge,
                    RequestTick, RecordUse, Goto, Answer
<1>4. ASSUME Crash PROVE req'[r].pc = "idle"
  BY <1>4 DEF Crash, Idle
<1>5. ASSUME NEW x \in Request, ReadVersion(x)
      PROVE  \/ Answer(x)
             \/ Goto(x, "value") /\ req[x].pc = "used" /\ req'[x] = [req[x] EXCEPT !.pc = "value"]
  BY <1>1, <1>5 DEF ReadVersion, Goto
<1>. QED
  BY <1>0, <1>2, <1>3, <1>4, <1>5
  DEF Writers, RequestWriter, AgentStep, RefuseScope, RefuseUse, NotRequired, RefuseQuota,
      PollAnswer, PollRefuse, Send, UpstreamRefused, Renew, StoreFails

\* While a request holds the mutex, only that request, the clock, an import or
\* a crash moves.
LEMMA Exclusion ==
  ASSUME MutexHeld, [Next]_vars, NEW r \in Request, holder = r
  PROVE  \/ PollCharge(r) \/ PollRefuse(r) \/ RecordUse(r) \/ ReadVersion(r)
         \/ StoreFails(r) \/ Crash
         \/ \E i \in Item : Import(i)
         \/ \E x \in Request : x # r /\ (Send(x) \/ UpstreamRefused(x))
         \/ UNCHANGED <<sealed, holder, store, req>>
<1>1. ~Free /\ \A x \in Request : req[x].pc \in Locked => x = r
  BY ConstantsOK DEF Free, MutexHeld
<1>2. ASSUME HumanStep PROVE FALSE
  BY <1>1, <1>2 DEF HumanStep, MintToken, RevokeToken, Put, AddVersion, SetGated, SetUse, DeleteItem,
     Approve, Deny, GrantDirect, RevokeGrant, OpenSession, CloseSession, Seal, Unseal
<1>3. ASSUME NEW x \in Request, Authenticate(x) \/ RefuseScope(x) \/ RefuseUse(x) \/ NotRequired(x)
               \/ RequestApproval(x) \/ Charge(x) \/ RefuseQuota(x) \/ PollAnswer(x)
               \/ ConsumeApproval(x) \/ Renew(x) \/ RequestTick(x)
      PROVE  FALSE
  BY <1>1, <1>3 DEF Authenticate, RefuseScope, RefuseUse, NotRequired, RequestApproval, Charge, RefuseQuota,
     PollAnswer, ConsumeApproval, Renew, RequestTick, Tick
<1>4. ASSUME NEW x \in Request,
             PollCharge(x) \/ PollRefuse(x) \/ RecordUse(x) \/ ReadVersion(x) \/ StoreFails(x)
      PROVE  x = r
  BY <1>1, <1>4 DEF PollCharge, PollRefuse, RecordUse, ReadVersion, StoreFails, Locked
<1>5. ~TickerTick
  BY <1>1 DEF TickerTick, Tick
<1>6. ASSUME ClockAdvance PROVE UNCHANGED <<sealed, holder, store, req>>
  BY <1>6 DEF ClockAdvance
<1>7. CASE UNCHANGED vars
  BY <1>7 DEF vars, store
<1>8. ASSUME NEW x \in Request, Send(x) \/ UpstreamRefused(x) PROVE x # r
  BY <1>8 DEF Send, UpstreamRefused, MutexHeld, Locked
<1>. QED
  BY <1>2, <1>3, <1>4, <1>5, <1>6, <1>7, <1>8 DEF Next, AgentStep

\* The mutex is held exactly between two commits of one request.
LEMMA MutexHeldStep == ASSUME RowsOK, MutexHeld, [Next]_vars PROVE MutexHeld'
<1>0. TypeOK /\ Writers /\ RequestsOK
  BY NextWriters DEF RowsOK
<1>1. req \in [Request -> RequestRow]
  BY <1>0 DEF TypeOK
<1>2. CASE holder \in Request
  <2>. DEFINE h == holder
  <2>1. \A x \in Request : req[x].pc \in Locked <=> x = h
    BY <1>2 DEF MutexHeld
  <2>2. CASE PollCharge(h)
    <3>1. req'[h].pc = "charged" /\ (\A x \in Request : x # h => req'[x] = req[x]) /\ holder' = h
      BY <1>1, <1>2, <2>2 DEF PollCharge, ConsumeRead, RequestRow
    <3>. QED
      BY <2>1, <3>1 DEF MutexHeld, Locked
  <2>3. CASE PollRefuse(h) \/ ReadVersion(h) \/ StoreFails(h)
    <3>1. /\ req'[h].pc \in {"idle", "value"} /\ holder' = Nobody
          /\ \A x \in Request : x # h => req'[x] = req[x]
      BY <1>1, <1>2, <2>3 DEF PollRefuse, ReadVersion, StoreFails, Answer, Goto, Idle, RequestRow
    <3>. QED
      BY <1>2, <2>1, <3>1, ConstantsOK DEF MutexHeld, Locked
  <2>4. CASE Crash
    BY <2>4, ConstantsOK DEF Crash, Idle, MutexHeld, Locked
  <2>7. CASE RecordUse(h)
    <3>1. req'[h].pc = "used" /\ (\A x \in Request : x # h => req'[x] = req[x]) /\ holder' = h
      BY <1>1, <1>2, <2>7 DEF RecordUse, Goto, RequestRow
    <3>. QED
      BY <2>1, <3>1 DEF MutexHeld, Locked
  <2>8. ASSUME NEW y \in Request, y # h, Send(y) \/ UpstreamRefused(y) PROVE MutexHeld'
    <3>1. req'[y].pc = "idle" /\ (\A x \in Request : x # y => req'[x] = req[x]) /\ holder' = h
      BY <1>1, <2>8 DEF Send, UpstreamRefused, Answer, Idle
    <3>. QED
      BY <2>1, <2>8, <3>1 DEF MutexHeld, Locked
  <2>5. CASE UNCHANGED <<sealed, holder, store, req>>
    BY <2>5 DEF MutexHeld
  <2>6. ASSUME NEW i \in Item, Import(i) PROVE MutexHeld'
    BY <2>6 DEF Import, MutexHeld
  <2>. QED
    BY <1>2, <2>2, <2>3, <2>4, <2>5, <2>6, <2>7, <2>8, Exclusion
<1>3. CASE holder = Nobody
  <2>1. \A x \in Request : req[x].pc \notin Locked
    BY <1>3, ConstantsOK DEF MutexHeld
  <2>2. ASSUME NEW r \in Request, Charge(r) \/ ConsumeApproval(r) PROVE MutexHeld'
    <3>1. req'[r].pc \in Locked /\ holder' = r
          /\ \A x \in Request : x # r => req'[x] = req[x]
      <4>1. CASE Charge(r)
        BY <1>1, <4>1 DEF Charge, ConsumeRead, RequestRow, Locked
      <4>2. CASE ConsumeApproval(r)
        BY <1>1, <4>2 DEF ConsumeApproval, RequestRow, Locked
      <4>. QED
        BY <2>2, <4>1, <4>2
    <3>. QED
      BY <2>1, <3>1 DEF MutexHeld
  <2>3. ASSUME \A r \in Request : ~Charge(r) /\ ~ConsumeApproval(r) PROVE MutexHeld'
    <3>1. ASSUME NEW r \in Request PROVE req'[r].pc \notin Locked
      <4>1. ~PollCharge(r) /\ ~RecordUse(r) /\ req[r].pc # "used"
        BY <2>1 DEF PollCharge, RecordUse, Locked
      <4>2. ASSUME Authenticate(r) PROVE req'[r].pc \notin Locked
        BY <1>1, <4>2 DEF Authenticate, Locked
      <4>3. ASSUME RequestApproval(r) \/ RequestTick(r)
            PROVE  req'[r].pc \notin Locked
        BY <1>1, <4>3 DEF RequestApproval, RequestTick, Goto, Answer, Idle, RequestRow, Locked
      <4>4. req'[r].pc = "idle" => req'[r].pc \notin Locked
        BY DEF Locked
      <4>. QED
        BY <2>1, <2>3, <4>1, <4>2, <4>3, <4>4, RequestKeeps
    <3>2. holder' = Nobody
      <4>1. ASSUME NEW r \in Request, AgentStep(r) PROVE holder' = Nobody
        BY <1>3, <2>1, <2>3, <4>1 DEF AgentStep, RefuseScope, RefuseUse, NotRequired, RequestApproval,
           DropMutex, RefuseQuota, PollAnswer, PollCharge, PollRefuse, RecordUse, ReadVersion, Send,
           UpstreamRefused, Renew, RequestTick, Locked
      <4>2. ASSUME HumanStep PROVE holder' = holder
        BY <4>2 DEF HumanStep, MintToken, RevokeToken, Put, AddVersion, SetGated, SetUse, DeleteItem,
           Approve, Deny, GrantDirect, RevokeGrant, OpenSession, CloseSession, Seal, Unseal
      <4>3. ASSUME NEW r \in Request, Authenticate(r) PROVE holder' = holder
        BY <4>3 DEF Authenticate
      <4>4. ASSUME TickerTick \/ ClockAdvance \/ UNCHANGED vars PROVE holder' = holder
        BY <4>4 DEF TickerTick, ClockAdvance, vars
      <4>5. ASSUME Crash PROVE holder' = Nobody
        BY <4>5 DEF Crash
      <4>6. ASSUME NEW r \in Request, StoreFails(r) PROVE holder' = Nobody
        BY <4>6 DEF StoreFails
      <4>7. ASSUME NEW i \in Item, Import(i) PROVE holder' = holder
        BY <4>7 DEF Import
      <4>. QED
        BY <1>3, <4>1, <4>2, <4>3, <4>4, <4>5, <4>6, <4>7 DEF Next
    <3>. QED
      BY <3>1, <3>2, ConstantsOK DEF MutexHeld
  <2>. QED
    BY <2>2, <2>3
<1>. QED
  BY <1>0, <1>2, <1>3 DEF TypeOK

\* No step takes the approval a polling request spent away from it.
LEMMA SpentStep == ASSUME RowsOK, SpentOK, [Next]_vars PROVE SpentOK'
<1>0. TypeOK /\ RequestsOK
  BY DEF RowsOK
<1>1. req \in [Request -> RequestRow] /\ approval \in [Approval -> ApprovalRow]
  BY <1>0 DEF TypeOK
<1>. SUFFICES ASSUME NEW r \in Request,
                     req'[r].pc = "consumed" \/ (req'[r].pc = "charged" /\ req'[r].kind = "poll")
              PROVE  LET a == req'[r].apr IN
                     /\ approval'[a].status = "approved" /\ approval'[a].consumed
                     /\ approval'[a].tok = req'[r].tok /\ approval'[a].item = req'[r].item
  BY DEF SpentOK
<1>2. CASE req'[r] = req[r]
  <2>. DEFINE a == req[r].apr
  <2>1. a \in Approval /\ approval[a].status = "approved" /\ approval[a].consumed
        /\ approval[a].tok = req[r].tok /\ approval[a].item = req[r].item
    BY <1>0, <1>2 DEF RequestsOK, SpentOK
  <2>2. /\ approval'[a].tok = approval[a].tok /\ approval'[a].item = approval[a].item
        /\ approval'[a].consumed /\ approval'[a].status = "approved"
    <3>. HIDE DEF a
    <3>. QED
      BY <2>1, ApprovalKeeps
  <2>. QED
    BY <1>2, <2>1, <2>2
<1>3. CASE ConsumeApproval(r)
  <2>. DEFINE a == req[r].apr
  <2>1. a \in Approval /\ approval[a] \in ApprovalRow /\ req[r] \in RequestRow
    BY <1>0, <1>1, <1>3 DEF ConsumeApproval, RequestsOK
  <2>2. req'[r].apr = a /\ req'[r].tok = req[r].tok /\ req'[r].item = approval[a].item
    BY <1>1, <1>3, <2>1 DEF ConsumeApproval, RequestRow
  <2>3. approval'[a] = [approval[a] EXCEPT !.consumed = TRUE]
    BY <1>1, <1>3, <2>1 DEF ConsumeApproval
  <2>4. approval[a].status = "approved" /\ approval[a].tok = req[r].tok
    BY <1>3 DEF ConsumeApproval, Unspent
  <2>. QED
    BY <2>1, <2>2, <2>3, <2>4 DEF ApprovalRow
<1>4. CASE PollCharge(r)
  <2>1. UNCHANGED approval /\ req[r].pc = "consumed" /\ req[r] \in RequestRow
        /\ req'[r] = [req[r] EXCEPT !.pc = "charged", !.at = now]
    BY <1>1, <1>4 DEF PollCharge
  <2>2. req'[r].apr = req[r].apr /\ req'[r].tok = req[r].tok /\ req'[r].item = req[r].item
    BY <2>1 DEF RequestRow
  <2>. QED
    BY <2>1, <2>2 DEF SpentOK
<1>5. ~Charge(r)
  <2>1. ASSUME Charge(r) PROVE FALSE
    <3>1. req[r] \in RequestRow /\ req[r].kind \in {"read", "use"}
          /\ req'[r] = [req[r] EXCEPT !.pc = "charged", !.at = now]
      BY <1>1, <2>1 DEF Charge, Reading
    <3>2. req'[r].pc = "charged" /\ req'[r].kind \in {"read", "use"}
      BY <3>1 DEF RequestRow
    <3>. QED
      BY <3>2
  <2>. QED
    BY <2>1
<1>6. ~Authenticate(r)
  BY <1>1 DEF Authenticate
<1>7. ~RequestApproval(r) /\ ~RequestTick(r)
  BY <1>1 DEF RequestApproval, RequestTick, Goto, Answer, Idle, RequestRow
<1>8. ~RecordUse(r) /\ (req[r].pc = "used" => req'[r] # [req[r] EXCEPT !.pc = "value"])
  BY <1>1 DEF RecordUse, Goto, RequestRow
<1>. QED
  BY <1>2, <1>3, <1>4, <1>5, <1>6, <1>7, <1>8, RequestKeeps

\* No step moves what the requests between check and decryption looked at.
LEMMA CheckedStep == ASSUME LockedOK, [Next]_vars PROVE CheckedStillHolds'
<1>0. TypeOK /\ RequestsOK /\ RowsOK /\ MutexHeld /\ SpentOK /\ CheckedStillHolds
  BY DEF LockedOK, RowsOK
<1>1. req \in [Request -> RequestRow]
  BY <1>0 DEF TypeOK
<1>. SUFFICES ASSUME NEW r \in Request, req'[r].pc \in {"charged", "used"}
              PROVE  LET t == req'[r].tok  i == req'[r].item  a == req'[r].apr IN
                     /\ ~sealed' /\ item'[i].state = "live" /\ i \in token'[t].scope
                     /\ req'[r].kind = "use" => item'[i].bound
                     /\ item'[i].gated =>
                          \/ grant'[t][i].until > req'[r].at
                          \/ \E s \in Session : /\ ~session'[s].closed /\ i \in session'[s].scope
                                              /\ session'[s].expires > req'[r].at
                          \/ /\ req'[r].kind = "poll" /\ approval'[a].status = "approved"
                             /\ approval'[a].consumed /\ approval'[a].tok = t
                             /\ approval'[a].item = i
  BY DEF CheckedStillHolds
<1>2. CASE req'[r] = req[r]
  <2>1. holder = r
    BY <1>0, <1>2 DEF MutexHeld, Locked
  <2>2. ~PollCharge(r) /\ ~PollRefuse(r) /\ ~RecordUse(r)
    BY <1>1, <1>2 DEF PollCharge, PollRefuse, RecordUse, Goto, RequestRow
  <2>3. ~ReadVersion(r) /\ ~StoreFails(r) /\ ~Crash
    BY <1>1 DEF ReadVersion, StoreFails, Answer, Goto, Crash, Idle, RequestRow
  <2>4. CASE UNCHANGED <<sealed, holder, store, req>>
    BY <1>0, <1>2, <2>4 DEF CheckedStillHolds, store
  <2>5. ASSUME NEW i \in Item, Import(i)
        PROVE  /\ UNCHANGED <<sealed, token, grant, session, approval, req>>
               /\ item[req[r].item].state = "live" =>
                    /\ item'[req[r].item].state = "live"
                    /\ item'[req[r].item].gated = item[req[r].item].gated
                    /\ item[req[r].item].bound => item'[req[r].item].bound
    <3>1. item \in [Item -> ItemRow] /\ req[r].item \in Item
      BY <1>0, <1>2 DEF TypeOK, RequestsOK, Locked
    <3>2. \A x \in ItemRow : /\ [x EXCEPT !.current = @ + 1].state = x.state
                            /\ [x EXCEPT !.current = @ + 1].gated = x.gated
                            /\ [x EXCEPT !.current = @ + 1].bound = x.bound
                            /\ [x EXCEPT !.bound = TRUE].state = x.state
                            /\ [x EXCEPT !.bound = TRUE].gated = x.gated
                            /\ [x EXCEPT !.bound = TRUE].bound
      BY DEF ItemRow
    <3>3. /\ \/ item[i].state = "none" /\ \A j \in Item : j # i => item'[j] = item[j]
             \/ item' = [item EXCEPT ![i].current = @ + 1]
             \/ item' = [item EXCEPT ![i].bound = TRUE]
          /\ UNCHANGED <<sealed, token, grant, session, approval, req>>
      BY <2>5, <3>1 DEF Import
    <3>4. item[req[r].item] \in ItemRow
      BY <3>1
    <3>5. CASE item[i].state = "none" /\ \A j \in Item : j # i => item'[j] = item[j]
      BY <3>1, <3>3, <3>5
    <3>6. CASE item' = [item EXCEPT ![i].current = @ + 1]
      <4>1. item'[req[r].item] \in {item[req[r].item], [item[req[r].item] EXCEPT !.current = @ + 1]}
        BY <3>1, <3>6
      <4>. QED
        BY <3>2, <3>3, <3>4, <4>1
    <3>7. CASE item' = [item EXCEPT ![i].bound = TRUE]
      <4>1. item'[req[r].item] \in {item[req[r].item], [item[req[r].item] EXCEPT !.bound = TRUE]}
        BY <3>1, <3>7
      <4>. QED
        BY <3>2, <3>3, <3>4, <4>1
    <3>. QED
      BY <3>3, <3>5, <3>6, <3>7
  <2>6. CASE \E i \in Item : Import(i)
    <3>1. CheckedStillHolds /\ req[r].pc \in {"charged", "used"}
      BY <1>0, <1>2
    <3>. QED
      BY <1>2, <2>5, <2>6, <3>1 DEF CheckedStillHolds
  <2>7. ASSUME NEW x \in Request, Send(x) \/ UpstreamRefused(x)
        PROVE  UNCHANGED <<sealed, store>>
    BY <2>7 DEF Send, UpstreamRefused
  <2>8. CASE UNCHANGED <<sealed, store>>
    BY <1>0, <1>2, <2>8 DEF CheckedStillHolds, store
  <2>. QED
    BY <1>0, <2>1, <2>2, <2>3, <2>4, <2>6, <2>7, <2>8, Exclusion
<1>3. ASSUME Charge(r) \/ PollCharge(r)
      PROVE  /\ req'[r].tok = req[r].tok /\ req'[r].item = req[r].item
             /\ req'[r].apr = req[r].apr /\ req'[r].kind = req[r].kind /\ req'[r].at = now
             /\ UNCHANGED <<sealed, item, grant, session, approval>> /\ InScope(r)
             /\ token'[req[r].tok].scope = token[req[r].tok].scope
             /\ Charge(r) => BoundIfUse(r)
  <2>1. req[r] \in RequestRow /\ req'[r] = [req[r] EXCEPT !.pc = "charged", !.at = now]
    BY <1>1, <1>3 DEF Charge, PollCharge
  <2>2. req[r].tok \in Token /\ token \in [Token -> TokenRow]
    BY <1>0, <1>3 DEF Charge, PollCharge, RequestsOK, TypeOK
  <2>3. token'[req[r].tok].scope = token[req[r].tok].scope
    BY <1>3, <2>2 DEF Charge, PollCharge, ConsumeRead, TokenRow
  <2>4. /\ UNCHANGED <<sealed, item, grant, session, approval>> /\ InScope(r)
        /\ Charge(r) => BoundIfUse(r)
    BY <1>3 DEF Charge, PollCharge
  <2>. QED
    BY <2>1, <2>3, <2>4 DEF RequestRow
<1>4. CASE Charge(r)
  <2>1. ~NeedsApproval(req[r].tok, req[r].item)
    BY <1>4 DEF Charge
  <2>. QED
    BY <1>3, <1>4, <2>1 DEF NeedsApproval, HasGrant, ActiveSession, InScope, BoundIfUse
<1>5. CASE PollCharge(r)
  <2>1. req[r].pc = "consumed" /\ req[r].kind = "poll"
    BY <1>0, <1>5 DEF PollCharge, RequestsOK
  <2>. QED
    BY <1>0, <1>3, <1>5, <2>1 DEF SpentOK, InScope
<1>6. ~Authenticate(r)
  BY <1>1 DEF Authenticate
<1>7. ~RequestApproval(r) /\ ~RequestTick(r)
  BY <1>1 DEF RequestApproval, RequestTick, Goto, Answer, Idle, RequestRow
<1>8. ~ConsumeApproval(r) /\ req'[r] # [req[r] EXCEPT !.pc = "value"]
  BY <1>1 DEF ConsumeApproval, RequestRow
<1>9. CASE RecordUse(r)
  <2>1. /\ UNCHANGED <<sealed, store>> /\ req[r].pc = "charged" /\ req[r] \in RequestRow
        /\ req'[r] = [req[r] EXCEPT !.pc = "used"]
    BY <1>1, <1>9 DEF RecordUse, Goto
  <2>2. /\ req'[r].tok = req[r].tok /\ req'[r].item = req[r].item /\ req'[r].apr = req[r].apr
        /\ req'[r].kind = req[r].kind /\ req'[r].at = req[r].at
    BY <2>1 DEF RequestRow
  <2>. QED
    BY <1>0, <2>1, <2>2 DEF CheckedStillHolds, store
<1>. QED
  BY <1>0, <1>2, <1>4, <1>5, <1>6, <1>7, <1>8, <1>9, RequestKeeps

\* Between the checks of a read and the decryption nothing the checks looked at
\* has moved but the clock: keys, item, scope, grant, task session, approval.
THEOREM NothingMovesUnderTheLock == Spec => []CheckedStillHolds
<1>1. Init => LockedOK
  <2>1. Init => RowsOK
    BY InitTypeOK DEF Init, RowsOK, RequestsOK, ApprovalsOK, TokensOK, Idle, NoApproval, NoToken, NoGrant
  <2>2. Init => MutexHeld
    BY ConstantsOK DEF Init, MutexHeld, Idle, Locked
  <2>3. Init => SpentOK /\ CheckedStillHolds
    BY DEF Init, SpentOK, CheckedStillHolds, Idle
  <2>. QED
    BY <2>1, <2>2, <2>3 DEF LockedOK
<1>2. LockedOK /\ [Next]_vars => LockedOK'
  BY NextTypeOK, RequestsOKStep, ApprovalsOKStep, TokensOKStep, MutexHeldStep, SpentStep, CheckedStep
  DEF LockedOK, RowsOK
<1>3. LockedOK => CheckedStillHolds
  BY DEF LockedOK
<1>. QED
  BY <1>1, <1>2, <1>3, PTL DEF Spec
=============================================================================
