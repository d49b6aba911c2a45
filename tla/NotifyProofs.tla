---------------------------- MODULE NotifyProofs ----------------------------
(***************************************************************************)
(* Proofs about Notify, for any number of approvals, items and users, any  *)
(* ladder, and any number of buttons and restarts.                         *)
(***************************************************************************)
EXTENDS Notify, FiniteSetTheorems, SequenceTheorems, TLAPS

\* An approval nobody asked for has an empty row, and finitely many were asked for.
Asked == {a \in Approval : apr[a].status # "none"}
RowsOK == IsFiniteSet(Asked) /\ \A a \in Approval : a \notin Asked => apr[a] = NoApproval

\* Two escalations or messages are about one stage of one approval.
SameStage(x, y) == x.apr = y.apr /\ x.step = y.step

\* On the way from the ticker to the chat every stage is at one place and once,
\* and was recorded before.
OnTheWay ==
  /\ \A m \in DOMAIN channel : channel[m].step <= apr[channel[m].apr].escalation
  /\ \A m, n \in DOMAIN channel : m # n => ~SameStage(channel[m], channel[n])
  /\ \A m \in DOMAIN channel, x \in afloat \cup ToSet(chat) : ~SameStage(channel[m], x)
  /\ \A x \in afloat \cup ToSet(chat) : x.step \in ExternalStep..apr[x.apr].escalation
  /\ \A x, y \in afloat : SameStage(x, y) => x = y
  /\ \A x \in afloat, y \in ToSet(chat) : ~SameStage(x, y)
  /\ AnnouncedOnce

\* What the sender waits for is under way, or there.
SendingOK ==
  /\ sending.pc = "calling" => MessageOf(sending.what) \in afloat
  /\ sending.pc = "landed" => MessageOf(sending.what) \in ToSet(chat)

\* A button press names an approval that was offered with buttons.
Offered(a) == \E m \in ToSet(chat) : m.apr = a /\ m.buttons
UpdatesOK == \A u \in ToSet(updates) \cup ToSet(batch) : Offered(u.apr)

IInv ==
  /\ TypeOK /\ RowsOK /\ OnTheWay /\ SendingOK /\ UpdatesOK
  /\ NotedTruthfully /\ DecidedByButton

------------------------------------------------------------------------------
(* Sequences.                                                                *)

\* What is in a sequence is of its type.
LEMMA InSequence ==
  ASSUME NEW S, NEW s \in Seq(S)
  PROVE  ToSet(s) \subseteq S /\ \A n \in DOMAIN s : s[n] \in S
  BY DEF ToSet

\* An element put at the end, one taken from the front, and a rest.
LEMMA AtTheEnd ==
  ASSUME NEW S, NEW s \in Seq(S), NEW e \in S
  PROVE  /\ Append(s, e) \in Seq(S)
         /\ ToSet(Append(s, e)) = ToSet(s) \cup {e}
         /\ DOMAIN Append(s, e) = DOMAIN s \cup {Len(s) + 1} /\ Len(s) + 1 \notin DOMAIN s
         /\ Append(s, e)[Len(s) + 1] = e
         /\ \A n \in DOMAIN s : Append(s, e)[n] = s[n]
<1>1. /\ Append(s, e) \in Seq(S)
      /\ Len(Append(s, e)) = Len(s) + 1 /\ Len(s) \in Nat
      /\ Append(s, e)[Len(s) + 1] = e
      /\ \A n \in 1..Len(s) : Append(s, e)[n] = s[n]
  OBVIOUS
<1>2. DOMAIN s = 1..Len(s) /\ DOMAIN Append(s, e) = 1..Len(s) + 1
  BY <1>1
<1>3. 1..Len(s) + 1 = 1..Len(s) \cup {Len(s) + 1} /\ Len(s) + 1 \notin 1..Len(s)
  BY <1>1
<1>4. ToSet(Append(s, e)) = ToSet(s) \cup {e}
  <2>1. ToSet(Append(s, e)) = {Append(s, e)[n] : n \in 1..Len(s) \cup {Len(s) + 1}}
    BY <1>2, <1>3 DEF ToSet
  <2>2. QED
    BY <1>1, <1>2, <2>1 DEF ToSet
<1>5. QED
  BY <1>1, <1>2, <1>3, <1>4

\* What taking the first element of a sequence leaves.
LEMMA FromTheFront ==
  ASSUME NEW S, NEW s \in Seq(S), s # << >>
  PROVE  /\ Tail(s) \in Seq(S) /\ Head(s) \in S /\ Head(s) = s[1] /\ 1 \in DOMAIN s
         /\ Head(s) \in ToSet(s) /\ ToSet(Tail(s)) \subseteq ToSet(s)
         /\ \A n \in DOMAIN Tail(s) : n + 1 \in DOMAIN s /\ n + 1 # 1 /\ Tail(s)[n] = s[n + 1]
<1>1. /\ Tail(s) \in Seq(S) /\ Head(s) \in S /\ Head(s) = s[1] /\ Len(s) \in Nat \ {0}
      /\ Len(Tail(s)) = Len(s) - 1
      /\ \A n \in 1..Len(Tail(s)) : Tail(s)[n] = s[n + 1]
  OBVIOUS
<1>2. DOMAIN s = 1..Len(s) /\ DOMAIN Tail(s) = 1..Len(s) - 1
  BY <1>1
<1>3. 1 \in DOMAIN s /\ \A n \in DOMAIN Tail(s) : n + 1 \in DOMAIN s /\ n + 1 # 1 /\ Tail(s)[n] = s[n + 1]
  BY <1>1, <1>2
<1>4. QED
  BY <1>1, <1>3 DEF ToSet

\* What is left of a sequence from one of its positions on.
LEMMA RestOf ==
  ASSUME NEW S, NEW s \in Seq(S), NEW k \in Nat
  PROVE  /\ SubSeq(s, k + 1, Len(s)) \in Seq(S)
         /\ ToSet(SubSeq(s, k + 1, Len(s))) \subseteq ToSet(s)
<1> DEFINE r == SubSeq(s, k + 1, Len(s))
<1>1. Len(s) \in Nat /\ DOMAIN s = 1..Len(s)
  OBVIOUS
<1>2. \A n \in k + 1..Len(s) : s[n] \in S
  BY <1>1
<1>3. /\ r \in Seq(S)
      /\ Len(r) = IF k + 1 <= Len(s) THEN Len(s) - (k + 1) + 1 ELSE 0
      /\ \A n \in 1..Len(s) - (k + 1) + 1 : r[n] = s[(k + 1) + n - 1]
  BY <1>1, <1>2, SubSeqProperties
<1> HIDE DEF r
<1>4. DOMAIN r = 1..Len(r) /\ Len(r) \in Nat
  BY <1>3
<1>5. \A n \in DOMAIN r : k + n \in DOMAIN s /\ r[n] = s[k + n]
  <2> SUFFICES ASSUME NEW n \in DOMAIN r PROVE k + n \in DOMAIN s /\ r[n] = s[k + n]
    OBVIOUS
  <2>1. n \in 1..Len(r) /\ k + 1 <= Len(s) /\ Len(r) = Len(s) - k
    <3>1. n \in 1..Len(r) /\ Len(r) # 0
      BY <1>4
    <3>2. Len(r) = IF k + 1 <= Len(s) THEN Len(s) - (k + 1) + 1 ELSE 0
      BY <1>3
    <3>3. Len(s) - (k + 1) + 1 = Len(s) - k
      BY <1>1
    <3>4. QED
      BY <3>1, <3>2, <3>3
  <2>2. n \in 1..Len(s) - (k + 1) + 1 /\ (k + 1) + n - 1 = k + n
    BY <1>1, <2>1
  <2>3. QED
    BY <1>1, <1>3, <2>1, <2>2
<1>6. QED
  BY <1>3, <1>5 DEF ToSet, r

------------------------------------------------------------------------------
(* Stages.                                                                   *)

\* How far the ladder is climbed is a place on it.
LEMMA DueStepType ==
  ASSUME NEW a \in Approval
  PROVE  DueStep(a) \in Nat /\ DueStep(a) \in Step \cup {0}
<1> DEFINE L == {k \in DOMAIN Ladder : now >= apr[a].requested + Ladder[k]}
<1>1. DOMAIN Ladder = 1..Len(Ladder) /\ Len(Ladder) \in Nat
  BY NotifyConstants
<1>2. IsFiniteSet(1..Len(Ladder)) /\ Cardinality(1..Len(Ladder)) = Len(Ladder)
  <2>1. /\ IsFiniteSet(1..Len(Ladder))
        /\ Cardinality(1..Len(Ladder)) = IF 1 > Len(Ladder) THEN 0 ELSE Len(Ladder) - 1 + 1
    BY <1>1, FS_Interval
  <2>2. QED
    BY <1>1, <2>1
<1>3. L \in SUBSET (1..Len(Ladder))
  BY <1>1
<1>4. IsFiniteSet(L) /\ Cardinality(L) <= Len(Ladder)
  BY <1>2, <1>3, FS_Subset
<1>5. Cardinality(L) \in Nat
  BY <1>4, FS_CardinalityType
<1>6. QED
  BY <1>1, <1>4, <1>5 DEF DueStep, Step

\* The new stages of a pass, told in some order: each once, with the step that is
\* recorded in the same pass, which is higher than the one before.
LEMMA EscalationsOf ==
  ASSUME TypeOK, RowsOK, NEW S \in SUBSET Due
  PROVE  /\ Escalations(S) \in Seq(Escalation)
         /\ \A n \in DOMAIN Escalations(S) :
              LET e == Escalations(S)[n] IN e.apr \in S /\ e.step = DueStep(e.apr)
         /\ \A m, n \in DOMAIN Escalations(S) :
              m # n => ~SameStage(Escalations(S)[m], Escalations(S)[n])
<1> DEFINE f == SetToSeq(S)  N == Cardinality(S)
<1>1. S \in SUBSET Asked
  BY DEF Due, Pending, Asked
<1>2. IsFiniteSet(S)
  BY <1>1, FS_Subset DEF RowsOK
<1>3. N \in Nat /\ ExistsBijection(1..N, S)
  BY <1>2, FS_CardinalityType
<1>4. \E g \in [1..N -> S] : IsInjective(g)
  BY <1>3 DEF ExistsBijection, Bijection, Injection, IsInjective
<1>5. f \in [1..N -> S] /\ IsInjective(f)
  BY <1>4 DEF SetToSeq
<1> HIDE DEF f, N
<1>6. Escalations(S) = [n \in 1..N |-> [apr |-> f[n], step |-> DueStep(f[n]),
                                        localOnly |-> LocalOnly(apr[f[n]].item)]]
  BY DEF Escalations, f, N
<1>7. \A n \in 1..N : f[n] \in Approval /\ f[n] \in S /\ DueStep(f[n]) \in Step
  <2> SUFFICES ASSUME NEW n \in 1..N PROVE f[n] \in Approval /\ f[n] \in S /\ DueStep(f[n]) \in Step
    OBVIOUS
  <2>1. f[n] \in S /\ f[n] \in Approval /\ DueStep(f[n]) > apr[f[n]].escalation
    BY <1>5 DEF Due
  <2>2. DueStep(f[n]) \in Step \cup {0} /\ apr[f[n]].escalation \in Step \cup {0}
    BY <2>1, DueStepType DEF TypeOK, Rows
  <2>3. DueStep(f[n]) # 0
    BY <2>1, <2>2, NotifyConstants DEF Step
  <2>4. QED
    BY <2>1, <2>2, <2>3
<1>8. \A n \in 1..N : Escalations(S)[n] \in Escalation
  BY <1>6, <1>7 DEF Escalation, LocalOnly, TypeOK
<1>9. Escalations(S) \in Seq(Escalation)
  BY <1>3, <1>6, <1>8
<1>10. DOMAIN Escalations(S) = 1..N
  BY <1>6
<1>11. \A n \in 1..N : Escalations(S)[n].apr = f[n] /\ Escalations(S)[n].step = DueStep(f[n])
  BY <1>6
<1>12. \A m, n \in 1..N : m # n => f[m] # f[n]
  BY <1>5 DEF IsInjective
<1>13. QED
  BY <1>7, <1>9, <1>10, <1>11, <1>12 DEF SameStage

------------------------------------------------------------------------------
(* Types and rows.                                                           *)

\* The rows of nothing are typed.
LEMMA Blank == NoApproval \in Rows /\ Idle \in Sendings
  BY DEF NoApproval, Rows, Statuses, Deciders, Idle, Sendings

\* Stages are numbers.
LEMMA StageType == Step \subseteq Nat \ {0} /\ \A r \in Rows : r.escalation \in Nat
<1>1. Len(Ladder) \in Nat
  BY NotifyConstants
<1>2. Step \subseteq Nat \ {0}
  BY <1>1 DEF Step
<1>3. ASSUME NEW r \in Rows PROVE r.escalation \in Nat
  <2>1. r.escalation \in Step \cup {0}
    BY DEF Rows
  <2>2. 0 \in Nat
    OBVIOUS
  <2>3. QED
    BY <1>2, <2>1, <2>2, Zenon
<1>4. QED
  BY <1>2, <1>3

\* Times are numbers.
LEMMA Times ==
  ASSUME TypeOK, NEW a \in Approval
  PROVE  now \in Nat /\ apr[a].requested \in Nat /\ apr[a].expires \in Nat
<1>1. apr[a] \in Rows /\ now \in 0..MaxTime
  BY DEF TypeOK
<1>2. MaxTime \in Nat
  BY NotifyConstants
<1>3. QED
  BY <1>1, <1>2 DEF Rows

\* No approval is overdue and due for a stage.
LEMMA NotBoth == TypeOK => Overdue \cap Due = {}
<1> SUFFICES ASSUME TypeOK, NEW a \in Overdue, a \in Due PROVE FALSE
  OBVIOUS
<1>1. a \in Approval /\ apr[a].expires <= now /\ now < apr[a].expires
  BY DEF Overdue, Due
<1>2. now \in Nat /\ apr[a].expires \in Nat
  BY <1>1, Times
<1>3. QED
  BY <1>1, <1>2

\* What a decision does to the rows.
LEMMA DecidedEffect ==
  ASSUME TypeOK, NEW a \in Approval, NEW approve \in BOOLEAN, NEW who \in Deciders,
         Decided(a, approve, who)
  PROVE  /\ apr' \in [Approval -> Rows]
         /\ apr'[a].status = IF approve THEN "approved" ELSE "denied"
         /\ apr'[a].by = who /\ apr'[a].item = apr[a].item
         /\ apr'[a].requested = apr[a].requested /\ apr'[a].expires = apr[a].expires
         /\ apr'[a].escalation = apr[a].escalation
         /\ \A b \in Approval \ {a} : apr'[b] = apr[b]
<1> DEFINE status == IF approve THEN "approved" ELSE "denied"
<1>1. status \in Statuses
  BY DEF Statuses
<1>2. apr' = [apr EXCEPT ![a].status = status, ![a].by = who]
  BY DEF Decided
<1> HIDE DEF status
<1>3. QED
  BY <1>1, <1>2 DEF TypeOK, Rows, status

\* What a pass does to the rows.
LEMMA TickEffect ==
  ASSUME TypeOK, NEW T \in SUBSET Overdue, NEW S \in SUBSET Due,
         apr' = [a \in Approval |->
           IF a \in T THEN [apr[a] EXCEPT !.status = "timeout", !.by = Clock]
           ELSE IF a \in S THEN [apr[a] EXCEPT !.escalation = DueStep(a)] ELSE apr[a]]
  PROVE  /\ apr' \in [Approval -> Rows]
         /\ \A a \in T : /\ apr'[a].status = "timeout" /\ apr'[a].by = Clock
                          /\ apr'[a].escalation = apr[a].escalation /\ apr'[a].expires = apr[a].expires
         /\ \A a \in S : /\ apr'[a].status = apr[a].status /\ apr'[a].by = apr[a].by
                          /\ apr'[a].escalation = DueStep(a) /\ apr'[a].expires = apr[a].expires
         /\ \A a \in Approval \ (T \cup S) : apr'[a] = apr[a]
<1>1. T \cap S = {}
  BY NotBoth
<1>2. ASSUME NEW a \in T
      PROVE  /\ apr'[a] \in Rows /\ apr'[a].status = "timeout" /\ apr'[a].by = Clock
             /\ apr'[a].escalation = apr[a].escalation /\ apr'[a].expires = apr[a].expires
  <2>1. a \in Approval /\ apr[a] \in Rows
    BY DEF Overdue, TypeOK
  <2>2. apr'[a] = [apr[a] EXCEPT !.status = "timeout", !.by = Clock]
    BY <2>1
  <2>3. QED
    BY <2>1, <2>2 DEF Rows, Statuses, Deciders
<1>3. ASSUME NEW a \in S
      PROVE  /\ apr'[a] \in Rows /\ apr'[a].status = apr[a].status /\ apr'[a].by = apr[a].by
             /\ apr'[a].escalation = DueStep(a) /\ apr'[a].expires = apr[a].expires
  <2>1. a \in Approval /\ a \notin T /\ apr[a] \in Rows
    BY <1>1 DEF Due, TypeOK
  <2>2. apr'[a] = [apr[a] EXCEPT !.escalation = DueStep(a)]
    BY <2>1
  <2>3. DueStep(a) \in Step \cup {0}
    BY <2>1, DueStepType
  <2>4. QED
    BY <2>1, <2>2, <2>3 DEF Rows
<1>4. \A a \in Approval \ (T \cup S) : apr'[a] = apr[a] /\ apr'[a] \in Rows
  BY DEF TypeOK
<1>5. DOMAIN apr' = Approval /\ apr' = [a \in Approval |-> apr'[a]]
  OBVIOUS
<1>6. QED
  BY <1>2, <1>3, <1>4, <1>5

\* A message says what its escalation was.
LEMMA MessageType ==
  ASSUME NEW e \in Escalation
  PROVE  MessageOf(e) \in Message /\ MessageOf(e).apr = e.apr /\ MessageOf(e).step = e.step
  BY DEF MessageOf, Message, Escalation

\* What is not confirmed is among what was kept.
LEMMA UnconfirmedType ==
  ASSUME TypeOK
  PROVE  Unconfirmed \in Seq(Update) /\ ToSet(Unconfirmed) \subseteq ToSet(updates)
<1> DEFINE confirmed == {n \in DOMAIN updates : updates[n].id < offset}
<1>1. updates \in Seq(Update) /\ DOMAIN updates = 1..Len(updates) /\ Len(updates) \in Nat
  BY DEF TypeOK
<1>2. IsFiniteSet(1..Len(updates)) /\ confirmed \in SUBSET (1..Len(updates))
  BY <1>1, FS_Interval
<1>3. Cardinality(confirmed) \in Nat
  BY <1>2, FS_Subset, FS_CardinalityType
<1>4. Unconfirmed = SubSeq(updates, Cardinality(confirmed) + 1, Len(updates))
  BY DEF Unconfirmed
<1> HIDE DEF confirmed
<1>5. QED
  BY <1>1, <1>3, <1>4, RestOf

\* The next offset is one past an update.
LEMMA NextOffsetType ==
  ASSUME TypeOK, NEW u \in Update
  PROVE  NextOffset(u) \in 0..MaxTaps + 1
  BY NotifyConstants DEF TypeOK, NextOffset, Update

\* Every step keeps the types.
LEMMA NextTypeOK ==
  ASSUME TypeOK, RowsOK, [Next]_vars
  PROVE  TypeOK'
<1> USE DEF store, outbound, inbound
<1>1. ASSUME NEW a \in Approval, NEW i \in Item, Request(a, i) PROVE TypeOK'
  <2>1. now + ApprovalWait \in Nat /\ now \in Nat
    BY NotifyConstants DEF TypeOK
  <2>2. [NoApproval EXCEPT !.status = "pending", !.item = i, !.requested = now,
                           !.expires = now + ApprovalWait] \in Rows
    BY <2>1 DEF NoApproval, Rows, Statuses, Deciders
  <2>3. apr' \in [Approval -> Rows]
    BY <1>1, <2>2 DEF Request, TypeOK
  <2>4. QED
    BY <1>1, <2>3 DEF Request, TypeOK
<1>2. ASSUME NEW a \in Approval, DecideHere(a) PROVE TypeOK'
  <2>1. apr' \in [Approval -> Rows]
    BY <1>2, DecidedEffect DEF DecideHere, Deciders
  <2>2. QED
    BY <1>2, <2>1 DEF DecideHere, TypeOK
<1>3. ASSUME NEW i \in Item, SetLocal(i) PROVE TypeOK'
  BY <1>3 DEF SetLocal, TypeOK
<1>4. ASSUME NEW i \in Item, DeleteItem(i) PROVE TypeOK'
  <2>1. apr' \in [Approval -> Rows]
    <3>1. ASSUME NEW a \in Approval PROVE apr'[a] \in Rows
      <4>1. [apr[a] EXCEPT !.status = "denied", !.by = Page] \in Rows /\ apr[a] \in Rows
        BY DEF TypeOK, Rows, Statuses, Deciders
      <4>2. QED
        BY <1>4, <4>1 DEF DeleteItem
    <3>2. QED
      BY <1>4, <3>1 DEF DeleteItem
  <2>2. item' \in [Item -> [live: BOOLEAN, local: BOOLEAN]]
    BY <1>4 DEF DeleteItem, TypeOK
  <2>3. QED
    BY <1>4, <2>1, <2>2 DEF DeleteItem, TypeOK
<1>5. CASE Tick
  <2>1. PICK T \in SUBSET Overdue, S \in SUBSET Due, told \in SUBSET Due :
          /\ apr' = [a \in Approval |->
               IF a \in T THEN [apr[a] EXCEPT !.status = "timeout", !.by = Clock]
               ELSE IF a \in S THEN [apr[a] EXCEPT !.escalation = DueStep(a)] ELSE apr[a]]
          /\ channel' = channel \o Escalations(told)
    BY <1>5 DEF Tick
  <2>2. apr' \in [Approval -> Rows]
    BY <2>1, TickEffect
  <2>3. channel' \in Seq(Escalation)
    <3>1. Escalations(told) \in Seq(Escalation) /\ channel \in Seq(Escalation)
      BY EscalationsOf DEF TypeOK
    <3>2. channel \o Escalations(told) \in Seq(Escalation)
      BY <3>1
    <3>3. QED
      BY <2>1, <3>2
  <2>4. QED
    BY <1>5, <2>2, <2>3 DEF Tick, TypeOK
<1>6. CASE Take
  <2>1. Head(channel) \in Escalation /\ Tail(channel) \in Seq(Escalation)
    BY <1>6, FromTheFront DEF Take, TypeOK
  <2>2. MessageOf(Head(channel)) \in Message
    BY <2>1, MessageType
  <2>3. [pc |-> "calling", what |-> Head(channel)] \in Sendings
    BY <2>1 DEF Sendings
  <2>4. sending' \in Sendings /\ afloat' \in SUBSET Message
    BY <1>6, <2>2, <2>3 DEF Take, TypeOK
  <2>5. QED
    BY <1>6, <2>1, <2>4 DEF Take, TypeOK
<1>7. CASE Delivered
  <2>1. MessageOf(sending.what) \in Message
    BY <1>7, MessageType DEF Delivered, TypeOK, Sendings
  <2>2. noted' \in SUBSET Message
    BY <1>7, <2>1 DEF Delivered, TypeOK
  <2>3. QED
    BY <1>7, <2>2, Blank DEF Delivered, TypeOK
<1>8. ASSUME NEW m \in Message, Land(m) PROVE TypeOK'
  <2>1. chat' \in Seq(Message)
    BY <1>8, AtTheEnd DEF Land, TypeOK
  <2>2. sending' \in Sendings
    <3>1. sending \in Sendings
      BY DEF TypeOK
    <3>2. CASE sending.pc = "calling"
      <4>1. sending \in [pc: {"calling", "landed"}, what: Escalation]
        BY <3>1, <3>2 DEF Sendings, Idle
      <4>2. [sending EXCEPT !.pc = "landed"] \in Sendings
        BY <4>1 DEF Sendings
      <4>. QED
        BY <1>8, <3>1, <4>2 DEF Land
    <3>3. CASE sending.pc # "calling"
      BY <1>8, <3>1, <3>3 DEF Land
    <3>. QED
      BY <3>2, <3>3
  <2>3. QED
    BY <1>8, <2>1, <2>2 DEF Land, TypeOK
<1>9. CASE Poll
  <2>1. updates' \in Seq(Update) /\ batch' \in Seq(Update)
    <3>1. Unconfirmed \in Seq(Update) /\ << >> \in Seq(Update)
      BY UnconfirmedType
    <3>2. QED
      BY <1>9, <3>1 DEF Poll
  <2>2. QED
    BY <1>9, <2>1 DEF Poll, TypeOK
<1>10. CASE HandleUpdate
  <2> DEFINE u == Head(batch)
  <2>1. u \in Update /\ Tail(batch) \in Seq(Update)
    BY <1>10, FromTheFront DEF HandleUpdate, TypeOK
  <2>2. u.apr \in Approval /\ u.approve \in BOOLEAN /\ u.from \in Deciders /\ u.id \in 1..MaxTaps
    BY <2>1 DEF Update, Deciders
  <2>3. apr' \in [Approval -> Rows]
    BY <1>10, <2>2, DecidedEffect DEF HandleUpdate, TypeOK
  <2>4. offset' \in 0..MaxTaps + 1
    BY <1>10, <2>1, NextOffsetType DEF HandleUpdate
  <2>5. QED
    BY <1>10, <2>1, <2>2, <2>3, <2>4 DEF HandleUpdate, TypeOK
<1>11. ASSUME NEW v \in User, NEW approve \in BOOLEAN, Tap(v, approve) PROVE TypeOK'
  <2>1. taps + 1 \in 1..MaxTaps /\ taps + 1 \in 0..MaxTaps
    BY <1>11, NotifyConstants DEF Tap, TypeOK
  <2>2. PICK m \in ToSet(chat) :
          updates' = Append(updates, [id |-> taps + 1, apr |-> m.apr, approve |-> approve, from |-> v])
    BY <1>11 DEF Tap
  <2>3. m \in Message
    BY InSequence DEF TypeOK
  <2>4. [id |-> taps + 1, apr |-> m.apr, approve |-> approve, from |-> v] \in Update
    BY <2>1, <2>3 DEF Update, Message
  <2>5. updates' \in Seq(Update)
    BY <2>2, <2>4, AtTheEnd DEF TypeOK
  <2>6. QED
    BY <1>11, <2>1, <2>5 DEF Tap, TypeOK
<1>12. CASE Seal \/ Unseal
  BY <1>12 DEF Seal, Unseal, TypeOK
<1>13. CASE ClockAdvance
  BY <1>13, NotifyConstants DEF ClockAdvance, TypeOK
<1>14. CASE Restart
  BY <1>14, NotifyConstants, Blank DEF Restart, TypeOK
<1>15. CASE UNCHANGED vars
  BY <1>15 DEF vars, TypeOK
<1>16. QED
  BY <1>1, <1>2, <1>3, <1>4, <1>5, <1>6, <1>7, <1>8, <1>9, <1>10, <1>11, <1>12, <1>13, <1>14, <1>15
     DEF Next, Human

------------------------------------------------------------------------------
(* What a step can do to rows and chat.                                      *)

\* The chat only grows.
LEMMA ChatGrows ==
  ASSUME TypeOK, [Next]_vars
  PROVE  ToSet(chat) \subseteq ToSet(chat)'
<1>1. ASSUME NEW m \in Message, Land(m) PROVE ToSet(chat) \subseteq ToSet(chat)'
  <2>1. chat' = Append(chat, m) /\ chat \in Seq(Message)
    BY <1>1 DEF Land, TypeOK
  <2>2. ToSet(chat') = ToSet(chat) \cup {m}
    BY <2>1, AtTheEnd
  <2>3. QED
    BY <2>2
<1>2. CASE chat' = chat
  BY <1>2
<1>3. QED
  BY <1>1, <1>2
     DEF Next, vars, outbound, Request, Tick, Take, Delivered, Poll, HandleUpdate, Human, DecideHere,
         SetLocal, DeleteItem, Tap, Seal, Unseal, ClockAdvance, Restart

\* A step asks one new approval, lets a user decide one, or does something else
\* to rows that were asked for; a stage once recorded is never taken back.
LEMMA RowsStep ==
  ASSUME TypeOK, RowsOK, [Next]_vars
  PROVE  \/ \E a \in Approval :
              /\ a \notin Asked /\ apr'[a].status # "none" /\ apr'[a].by = None
              /\ apr'[a].escalation = apr[a].escalation
              /\ \A b \in Approval \ {a} : apr'[b] = apr[b]
         \/ HandleUpdate
         \/ \A a \in Approval :
              \/ apr'[a] = apr[a]
              \/ /\ a \in Asked /\ apr'[a].status # "none"
                 /\ apr'[a].by \in {apr[a].by, Page, Clock}
                 /\ \/ apr'[a].escalation = apr[a].escalation
                    \/ Tick /\ apr[a].escalation < apr'[a].escalation
<1> DEFINE Asks == \E a \in Approval :
              /\ a \notin Asked /\ apr'[a].status # "none" /\ apr'[a].by = None
              /\ apr'[a].escalation = apr[a].escalation
              /\ \A b \in Approval \ {a} : apr'[b] = apr[b]
           Moves(a) == /\ a \in Asked /\ apr'[a].status # "none"
                       /\ apr'[a].by \in {apr[a].by, Page, Clock}
                       /\ \/ apr'[a].escalation = apr[a].escalation
                          \/ Tick /\ apr[a].escalation < apr'[a].escalation
           Goal == Asks \/ HandleUpdate \/ \A a \in Approval : apr'[a] = apr[a] \/ Moves(a)
<1>1. ASSUME NEW a \in Approval, NEW i \in Item, Request(a, i) PROVE Goal
  <2>1. /\ a \notin Asked /\ apr[a].escalation = 0
    BY <1>1 DEF Request, Asked, RowsOK, NoApproval
  <2>2. /\ apr'[a].status = "pending" /\ apr'[a].by = None /\ apr'[a].escalation = 0
        /\ \A b \in Approval \ {a} : apr'[b] = apr[b]
    BY <1>1 DEF Request, TypeOK, NoApproval
  <2>3. Asks
    BY <2>1, <2>2
  <2>4. QED
    BY <2>3
<1>2. ASSUME NEW a \in Approval, DecideHere(a) PROVE Goal
  <2>1. PICK approve \in BOOLEAN : Decided(a, approve, Page)
    BY <1>2 DEF DecideHere
  <2>2. Page \in Deciders /\ a \in Asked
    BY <1>2 DEF Deciders, DecideHere, Decidable, Pending, Asked
  <2>3. Moves(a) /\ \A b \in Approval \ {a} : apr'[b] = apr[b]
    BY <2>1, <2>2, DecidedEffect
  <2>4. QED
    BY <2>3
<1>3. ASSUME NEW i \in Item, DeleteItem(i) PROVE Goal
  <2>1. ASSUME NEW a \in Approval PROVE apr'[a] = apr[a] \/ Moves(a)
    <3>1. CASE Pending(a) /\ apr[a].item = i
      <4>1. apr'[a] = [apr[a] EXCEPT !.status = "denied", !.by = Page] /\ apr[a] \in Rows
        BY <1>3, <3>1 DEF DeleteItem, TypeOK
      <4>2. QED
        BY <3>1, <4>1 DEF Rows, Pending, Asked
    <3>2. CASE ~(Pending(a) /\ apr[a].item = i)
      BY <1>3, <3>2 DEF DeleteItem
    <3>3. QED
      BY <3>1, <3>2
  <2>2. QED
    BY <2>1
<1>4. CASE Tick
  <2>1. PICK T \in SUBSET Overdue, S \in SUBSET Due :
          apr' = [a \in Approval |->
               IF a \in T THEN [apr[a] EXCEPT !.status = "timeout", !.by = Clock]
               ELSE IF a \in S THEN [apr[a] EXCEPT !.escalation = DueStep(a)] ELSE apr[a]]
    BY <1>4 DEF Tick
  <2>2. /\ \A a \in T : /\ apr'[a].status = "timeout" /\ apr'[a].by = Clock
                         /\ apr'[a].escalation = apr[a].escalation
        /\ \A a \in S : /\ apr'[a].status = apr[a].status /\ apr'[a].by = apr[a].by
                         /\ apr'[a].escalation = DueStep(a)
        /\ \A a \in Approval \ (T \cup S) : apr'[a] = apr[a]
    BY <2>1, TickEffect
  <2>3. \A a \in T : Moves(a)
    BY <2>2 DEF Overdue, Pending, Asked
  <2>4. \A a \in S : Moves(a)
    BY <1>4, <2>2 DEF Due, Pending, Asked
  <2>5. QED
    BY <2>2, <2>3, <2>4
<1>5. CASE apr' = apr
  BY <1>5
<1>6. QED
  BY <1>1, <1>2, <1>3, <1>4, <1>5
     DEF Next, vars, store, Take, Delivered, Land, Poll, Human, SetLocal, Tap, Seal, Unseal,
         ClockAdvance, Restart

\* A handled button decides one row, or none.
LEMMA HandleEffect ==
  ASSUME TypeOK, UpdatesOK, HandleUpdate
  PROVE  \/ apr' = apr
         \/ \E a \in Approval :
              /\ Decidable(a) /\ ~LocalOnly(apr[a].item)
              /\ apr'[a].status \in {"approved", "denied"}
              /\ apr'[a].by \in AllowedUser /\ Offered(a)
              /\ apr'[a].escalation = apr[a].escalation /\ apr'[a].expires = apr[a].expires
              /\ \A b \in Approval \ {a} : apr'[b] = apr[b]
<1> DEFINE u == Head(batch)
<1>1. u \in Update /\ u \in ToSet(batch)
  BY FromTheFront DEF HandleUpdate, TypeOK
<1>2. u.apr \in Approval /\ u.approve \in BOOLEAN /\ u.from \in Deciders
  BY <1>1 DEF Update, Deciders
<1>3. CASE MayDecide(u) /\ Decidable(u.apr) /\ Decided(u.apr, u.approve, u.from)
  <2>1. /\ apr'[u.apr].status \in {"approved", "denied"} /\ apr'[u.apr].by = u.from
        /\ apr'[u.apr].escalation = apr[u.apr].escalation /\ apr'[u.apr].expires = apr[u.apr].expires
        /\ \A b \in Approval \ {u.apr} : apr'[b] = apr[b]
    BY <1>2, <1>3, DecidedEffect
  <2>2. u.from \in AllowedUser /\ ~LocalOnly(apr[u.apr].item) /\ Offered(u.apr)
    BY <1>1, <1>3 DEF MayDecide, UpdatesOK
  <2>3. QED
    BY <1>2, <1>3, <2>1, <2>2
<1>4. QED
  BY <1>3 DEF HandleUpdate

\* No step takes a stage back, and none asks for two approvals at once.
LEMMA StagesStay ==
  ASSUME TypeOK, RowsOK, UpdatesOK, [Next]_vars, NEW a \in Approval
  PROVE  /\ apr[a].escalation \in Nat /\ apr'[a].escalation \in Nat
         /\ apr[a].escalation <= apr'[a].escalation
         /\ ~Tick => apr'[a].escalation = apr[a].escalation
<1>1. TypeOK'
  BY NextTypeOK
<1>2. apr[a].escalation \in Nat /\ apr'[a].escalation \in Nat
  <2>1. apr[a] \in Rows /\ apr'[a] \in Rows
    BY <1>1 DEF TypeOK
  <2>2. QED
    BY <2>1, StageType
<1>3. \/ apr'[a].escalation = apr[a].escalation
      \/ Tick /\ apr[a].escalation < apr'[a].escalation
  <2>1. CASE HandleUpdate
    <3>1. \/ apr' = apr
          \/ \E b \in Approval : /\ apr'[b].escalation = apr[b].escalation
                                 /\ \A d \in Approval \ {b} : apr'[d] = apr[d]
      BY <2>1, HandleEffect
    <3>2. QED
      BY <3>1
  <2>2. CASE ~HandleUpdate
    BY <2>2, RowsStep
  <2>3. QED
    BY <2>1, <2>2
<1>4. QED
  BY <1>2, <1>3

------------------------------------------------------------------------------
(* Every step keeps the invariant.                                           *)

\* Finitely many approvals were asked for, and the others have empty rows.
LEMMA RowsOKStep ==
  ASSUME TypeOK, RowsOK, UpdatesOK, [Next]_vars
  PROVE  RowsOK'
<1>1. CASE \E a \in Approval :
             /\ a \notin Asked /\ apr'[a].status # "none" /\ apr'[a].by = None
             /\ apr'[a].escalation = apr[a].escalation
             /\ \A b \in Approval \ {a} : apr'[b] = apr[b]
  <2>1. PICK a \in Approval : /\ apr'[a].status # "none"
                              /\ \A b \in Approval \ {a} : apr'[b] = apr[b]
    BY <1>1
  <2>2. Asked' = Asked \cup {a}
    BY <2>1 DEF Asked
  <2>3. IsFiniteSet(Asked')
    BY <2>2, FS_AddElement DEF RowsOK
  <2>4. QED
    BY <2>1, <2>2, <2>3 DEF RowsOK
<1>2. ASSUME \A a \in Approval : apr'[a] = apr[a] \/ (a \in Asked /\ apr'[a].status # "none")
      PROVE  RowsOK'
  <2>1. Asked' = Asked
    BY <1>2 DEF Asked
  <2>2. QED
    BY <1>2, <2>1 DEF RowsOK
<1>3. CASE HandleUpdate
  <2>1. \/ apr' = apr
        \/ \E a \in Approval : /\ Decidable(a) /\ apr'[a].status \in {"approved", "denied"}
                               /\ \A b \in Approval \ {a} : apr'[b] = apr[b]
    BY <1>3, HandleEffect
  <2>2. QED
    BY <1>2, <2>1 DEF Decidable, Pending, Asked
<1>4. QED
  BY <1>1, <1>2, <1>3, RowsStep

\* While channel, messages and chat do not move, growing stages keep them in order.
LEMMA OnTheWayKept ==
  ASSUME TypeOK, OnTheWay, channel' \in {channel, << >>}, UNCHANGED <<afloat, chat>>,
         \A a \in Approval : /\ apr[a].escalation \in Nat /\ apr'[a].escalation \in Nat
                             /\ apr[a].escalation <= apr'[a].escalation
  PROVE  OnTheWay'
<1>1. /\ \A m \in DOMAIN channel : channel[m].apr \in Approval /\ channel[m].step \in Nat
      /\ \A x \in afloat \cup ToSet(chat) : x.apr \in Approval /\ x.step \in Nat
  <2>1. \A m \in DOMAIN channel : channel[m] \in Escalation
    BY InSequence DEF TypeOK
  <2>2. afloat \cup ToSet(chat) \subseteq Message
    BY InSequence DEF TypeOK
  <2>3. QED
    BY <2>1, <2>2, StageType DEF Escalation, Message
<1>2. DOMAIN channel' \subseteq DOMAIN channel /\ \A m \in DOMAIN channel' : channel'[m] = channel[m]
  OBVIOUS
<1>3. \A m \in DOMAIN channel : channel[m].step <= apr'[channel[m].apr].escalation
  <2> SUFFICES ASSUME NEW m \in DOMAIN channel PROVE channel[m].step <= apr'[channel[m].apr].escalation
    OBVIOUS
  <2>1. channel[m].step <= apr[channel[m].apr].escalation
    BY DEF OnTheWay
  <2>2. QED
    BY <1>1, <2>1
<1>4. \A x \in afloat \cup ToSet(chat) : x.step \in ExternalStep..apr'[x.apr].escalation
  <2> SUFFICES ASSUME NEW x \in afloat \cup ToSet(chat)
               PROVE  x.step \in ExternalStep..apr'[x.apr].escalation
    OBVIOUS
  <2>1. x.step \in ExternalStep..apr[x.apr].escalation /\ ExternalStep \in Nat
    BY NotifyConstants DEF OnTheWay
  <2>2. QED
    BY <1>1, <2>1
<1>5. QED
  BY <1>2, <1>3, <1>4 DEF OnTheWay, AnnouncedOnce, SameStage

\* New stages come after those on the way.
LEMMA OnTheWayTick ==
  ASSUME TypeOK, RowsOK, UpdatesOK, OnTheWay, Tick
  PROVE  OnTheWay'
<1>1. PICK T \in SUBSET Overdue, S \in SUBSET Due, told \in SUBSET Due :
        /\ told \subseteq S
        /\ apr' = [a \in Approval |->
             IF a \in T THEN [apr[a] EXCEPT !.status = "timeout", !.by = Clock]
             ELSE IF a \in S THEN [apr[a] EXCEPT !.escalation = DueStep(a)] ELSE apr[a]]
        /\ channel' = channel \o Escalations(told)
  BY DEF Tick
<1>2. \A a \in S : a \in Approval /\ apr'[a].escalation = DueStep(a) /\ apr[a].escalation < DueStep(a)
  BY <1>1, TickEffect DEF Due
<1>3. \A a \in Approval : /\ apr[a].escalation \in Nat /\ apr'[a].escalation \in Nat
                          /\ apr[a].escalation <= apr'[a].escalation
  BY StagesStay DEF Next
<1>4. UNCHANGED <<afloat, chat>>
  BY DEF Tick
<1>5. QED
  <2> DEFINE E == Escalations(told)  L == Len(channel)
  <2>1. /\ E \in Seq(Escalation) /\ channel \in Seq(Escalation)
        /\ \A n \in DOMAIN E : E[n].apr \in S /\ E[n].step = DueStep(E[n].apr)
        /\ \A m, n \in DOMAIN E : m # n => ~SameStage(E[m], E[n])
    BY <1>1, EscalationsOf DEF TypeOK
  <2>0. channel' = channel \o E
    BY <1>1
  <2> HIDE DEF E
  <2>2. /\ DOMAIN channel = 1..L /\ DOMAIN E = 1..Len(E) /\ L \in Nat /\ Len(E) \in Nat
        /\ DOMAIN channel' = 1..L + Len(E)
        /\ \A n \in 1..L : channel'[n] = channel[n]
        /\ \A n \in L + 1..L + Len(E) : n - L \in DOMAIN E /\ channel'[n] = E[n - L]
    BY <2>0, <2>1
  <2>3. \A n \in DOMAIN channel' : n \in DOMAIN channel \/ n \in L + 1..L + Len(E)
    BY <2>2
  <2>4. \A n \in DOMAIN E : /\ E[n].apr \in Approval /\ E[n].step = apr'[E[n].apr].escalation
                            /\ apr[E[n].apr].escalation < E[n].step
    BY <1>2, <2>1
  <2>5. ASSUME NEW n \in DOMAIN E, NEW x, x.apr \in Approval, x.step \in Nat,
               x.step <= apr[x.apr].escalation
        PROVE  ~SameStage(E[n], x) /\ ~SameStage(x, E[n])
    <3>1. E[n].step \in Nat /\ apr[x.apr].escalation \in Nat
      BY <1>3, <2>4, <2>5
    <3>2. QED
      BY <2>4, <2>5, <3>1 DEF SameStage
  <2>6. \A m \in DOMAIN channel :
          channel[m].apr \in Approval /\ channel[m].step \in Nat /\ channel[m].step <= apr[channel[m].apr].escalation
    <3>1. \A m \in DOMAIN channel : channel[m] \in Escalation
      BY <2>1, InSequence
    <3>2. QED
      BY <3>1, StageType DEF Escalation, OnTheWay
  <2>7. \A x \in afloat \cup ToSet(chat) :
          x.apr \in Approval /\ x.step \in Nat /\ x.step <= apr[x.apr].escalation
    <3>1. afloat \cup ToSet(chat) \subseteq Message
      BY InSequence DEF TypeOK
    <3>2. QED
      BY <3>1, StageType DEF Message, OnTheWay
  <2>8. \A m \in DOMAIN channel' : channel'[m].step <= apr'[channel'[m].apr].escalation
    <3>1. ASSUME NEW m \in DOMAIN channel
          PROVE  channel'[m].step <= apr'[channel'[m].apr].escalation
      BY <1>3, <2>2, <2>6
    <3>2. ASSUME NEW m \in L + 1..L + Len(E)
          PROVE  channel'[m].step <= apr'[channel'[m].apr].escalation
      <4>1. m - L \in DOMAIN E /\ channel'[m] = E[m - L]
        BY <2>2
      <4>2. E[m - L].step = apr'[E[m - L].apr].escalation /\ apr'[E[m - L].apr].escalation \in Nat
        BY <1>3, <2>4, <4>1
      <4>3. QED
        BY <4>1, <4>2
    <3>3. QED
      BY <2>3, <3>1, <3>2
  <2>9. ASSUME NEW m \in DOMAIN channel', NEW n \in DOMAIN channel', m # n
        PROVE  ~SameStage(channel'[m], channel'[n])
    <3>1. CASE m \in DOMAIN channel /\ n \in DOMAIN channel
      BY <2>2, <2>9, <3>1 DEF OnTheWay
    <3>2. CASE m \in DOMAIN channel /\ n \in L + 1..L + Len(E)
      BY <2>2, <2>5, <2>6, <3>2
    <3>3. CASE m \in L + 1..L + Len(E) /\ n \in DOMAIN channel
      BY <2>2, <2>5, <2>6, <3>3
    <3>4. CASE m \in L + 1..L + Len(E) /\ n \in L + 1..L + Len(E)
      <4>1. m - L # n - L
        BY <2>2, <2>9, <3>4
      <4>2. QED
        BY <2>1, <2>2, <3>4, <4>1
    <3>5. QED
      BY <2>3, <3>1, <3>2, <3>3, <3>4
  <2>10. \A m \in DOMAIN channel', x \in afloat \cup ToSet(chat) : ~SameStage(channel'[m], x)
    <3>1. \A m \in DOMAIN channel, x \in afloat \cup ToSet(chat) : ~SameStage(channel'[m], x)
      BY <2>2 DEF OnTheWay
    <3>2. \A m \in L + 1..L + Len(E), x \in afloat \cup ToSet(chat) : ~SameStage(channel'[m], x)
      BY <2>2, <2>5, <2>7
    <3>3. QED
      BY <2>3, <3>1, <3>2
  <2>11. \A x \in afloat \cup ToSet(chat) : x.step \in ExternalStep..apr'[x.apr].escalation
    <3> SUFFICES ASSUME NEW x \in afloat \cup ToSet(chat)
                 PROVE  x.step \in ExternalStep..apr'[x.apr].escalation
      OBVIOUS
    <3>1. x.step \in ExternalStep..apr[x.apr].escalation /\ ExternalStep \in Nat
      BY NotifyConstants DEF OnTheWay
    <3>2. QED
      BY <1>3, <2>7, <3>1
  <2>12. QED
    BY <1>4, <2>8, <2>9, <2>10, <2>11 DEF OnTheWay, AnnouncedOnce

\* The next escalation is sent, or left.
LEMMA OnTheWayTake ==
  ASSUME TypeOK, OnTheWay, Take
  PROVE  OnTheWay'
<1> DEFINE e == Head(channel)  x == MessageOf(e)
<1>1. channel \in Seq(Escalation) /\ channel # << >> /\ channel' = Tail(channel) /\ apr' = apr /\ chat' = chat
  BY DEF Take, TypeOK, store
<1>2. /\ e \in Escalation /\ e = channel[1] /\ 1 \in DOMAIN channel
      /\ \A n \in DOMAIN channel' :
           n \in Int /\ n + 1 \in DOMAIN channel /\ n + 1 # 1 /\ channel'[n] = channel[n + 1]
  BY <1>1, FromTheFront
<1>3. x.apr = e.apr /\ x.step = e.step
  BY <1>2, MessageType
<1>4. afloat' = afloat \/ (External(e) /\ afloat' = afloat \cup {x})
  BY DEF Take
<1> HIDE DEF e, x
<1>5. \A m \in DOMAIN channel' : channel'[m].step <= apr'[channel'[m].apr].escalation
  BY <1>1, <1>2 DEF OnTheWay
<1>6. \A m, n \in DOMAIN channel' : m # n => ~SameStage(channel'[m], channel'[n])
  BY <1>2 DEF OnTheWay
<1>7. \A m \in DOMAIN channel' : ~SameStage(channel'[m], x)
  BY <1>2, <1>3 DEF OnTheWay, SameStage
<1>8. \A m \in DOMAIN channel', y \in afloat \cup ToSet(chat) : ~SameStage(channel'[m], y)
  BY <1>2 DEF OnTheWay
<1>9. \A y \in afloat \cup ToSet(chat) : ~SameStage(x, y) /\ ~SameStage(y, x)
  BY <1>2, <1>3 DEF OnTheWay, SameStage
<1>10. External(e) => x.step \in ExternalStep..apr[x.apr].escalation
  <2>1. e.step <= apr[e.apr].escalation
    BY <1>2 DEF OnTheWay
  <2>2. e.step \in Nat /\ ExternalStep \in Nat /\ apr[e.apr].escalation \in Nat
    BY <1>2, StageType, NotifyConstants DEF Escalation, TypeOK
  <2>3. QED
    BY <1>3, <2>1, <2>2 DEF External
<1>11. QED
  BY <1>1, <1>4, <1>5, <1>6, <1>7, <1>8, <1>9, <1>10 DEF OnTheWay, AnnouncedOnce

\* A message arrives.
LEMMA OnTheWayLand ==
  ASSUME TypeOK, OnTheWay, NEW m \in Message, Land(m)
  PROVE  OnTheWay'
<1>1. /\ m \in afloat /\ afloat' = afloat \ {m} /\ chat' = Append(chat, m) /\ chat \in Seq(Message)
      /\ channel' = channel /\ apr' = apr
  BY DEF Land, TypeOK, store
<1>2. /\ ToSet(chat') = ToSet(chat) \cup {m}
      /\ DOMAIN chat' = DOMAIN chat \cup {Len(chat) + 1} /\ Len(chat) + 1 \notin DOMAIN chat
      /\ chat'[Len(chat) + 1] = m /\ \A n \in DOMAIN chat : chat'[n] = chat[n]
  BY <1>1, AtTheEnd
<1>3. \A y \in ToSet(chat) : ~SameStage(m, y)
  BY <1>1 DEF OnTheWay
<1>4. \A n \in DOMAIN chat : chat[n] \in ToSet(chat)
  BY DEF ToSet
<1>5. AnnouncedOnce'
  BY <1>2, <1>3, <1>4 DEF OnTheWay, AnnouncedOnce, SameStage
<1>6. afloat' \cup ToSet(chat') = afloat \cup ToSet(chat)
  BY <1>1, <1>2
<1>7. \A y \in afloat' : ~SameStage(y, m)
  BY <1>1 DEF OnTheWay
<1>8. QED
  BY <1>1, <1>2, <1>5, <1>6, <1>7 DEF OnTheWay

\* On the way from ticker to chat.
LEMMA OnTheWayStep ==
  ASSUME TypeOK, RowsOK, UpdatesOK, OnTheWay, [Next]_vars
  PROVE  OnTheWay'
<1>1. \A a \in Approval : /\ apr[a].escalation \in Nat /\ apr'[a].escalation \in Nat
                          /\ apr[a].escalation <= apr'[a].escalation
  BY StagesStay
<1>2. CASE channel' \in {channel, << >>} /\ UNCHANGED <<afloat, chat>>
  BY <1>1, <1>2, OnTheWayKept
<1>3. QED
  BY <1>2, OnTheWayTick, OnTheWayTake, OnTheWayLand
     DEF Next, vars, outbound, Request, Delivered, Poll, HandleUpdate, Human, DecideHere,
         SetLocal, DeleteItem, Tap, Seal, Unseal, ClockAdvance, Restart

\* What the sender waits for.
LEMMA SendingOKStep ==
  ASSUME TypeOK, SendingOK, [Next]_vars
  PROVE  SendingOK'
<1>1. CASE Take
  <2>1. sending = Idle /\ chat' = chat
    BY <1>1 DEF Take
  <2>2. CASE External(Head(channel))
    <3>1. /\ sending' = [pc |-> "calling", what |-> Head(channel)]
          /\ afloat' = afloat \cup {MessageOf(Head(channel))}
      BY <1>1, <2>2 DEF Take
    <3>2. sending'.pc = "calling" /\ MessageOf(sending'.what) \in afloat'
      BY <3>1
    <3>3. QED
      BY <3>2 DEF SendingOK, MessageOf
  <2>3. CASE ~External(Head(channel))
    BY <1>1, <2>1, <2>3 DEF Take, SendingOK, Idle
  <2>4. QED
    BY <2>2, <2>3
<1>2. CASE Delivered \/ Restart
  BY <1>2 DEF Delivered, Restart, SendingOK, Idle
<1>3. ASSUME NEW m \in Message, Land(m) PROVE SendingOK'
  <2>1. /\ ToSet(chat') = ToSet(chat) \cup {m} /\ afloat' = afloat \ {m}
    BY <1>3, AtTheEnd DEF Land, TypeOK
  <2>2. CASE sending.pc = "calling" /\ MessageOf(sending.what) = m
    <3>1. sending' = [sending EXCEPT !.pc = "landed"] /\ sending \in Sendings
      BY <1>3, <2>2 DEF Land, TypeOK
    <3>2. sending'.pc = "landed" /\ sending'.what = sending.what
      BY <2>2, <3>1 DEF Sendings, Idle
    <3>3. QED
      BY <2>1, <2>2, <3>2 DEF SendingOK, MessageOf
  <2>3. CASE ~(sending.pc = "calling" /\ MessageOf(sending.what) = m)
    BY <1>3, <2>1, <2>3 DEF Land, SendingOK, MessageOf
  <2>4. QED
    BY <2>2, <2>3
<1>4. CASE UNCHANGED <<sending, afloat, chat>>
  BY <1>4 DEF SendingOK, MessageOf
<1>5. QED
  BY <1>1, <1>2, <1>3, <1>4
     DEF Next, vars, outbound, Request, Tick, Poll, HandleUpdate, Human, DecideHere,
         SetLocal, DeleteItem, Tap, Seal, Unseal, ClockAdvance

\* Buttons come from messages.
LEMMA UpdatesOKStep ==
  ASSUME TypeOK, UpdatesOK, [Next]_vars
  PROVE  UpdatesOK'
<1>1. \A a \in Approval : Offered(a) => Offered(a)'
  BY ChatGrows DEF Offered
<1>2. \A u \in ToSet(updates) \cup ToSet(batch) : u.apr \in Approval
  <2>1. ToSet(updates) \subseteq Update /\ ToSet(batch) \subseteq Update
    BY InSequence DEF TypeOK
  <2>2. QED
    BY <2>1 DEF Update
<1>3. ASSUME NEW v \in User, NEW approve \in BOOLEAN, Tap(v, approve) PROVE UpdatesOK'
  <2>1. PICK m \in ToSet(chat) :
          /\ m.buttons
          /\ updates' = Append(updates, [id |-> taps + 1, apr |-> m.apr, approve |-> approve, from |-> v])
    BY <1>3 DEF Tap
  <2> DEFINE u == [id |-> taps + 1, apr |-> m.apr, approve |-> approve, from |-> v]
  <2>2. u \in Update
    <3>1. m \in Message
      BY InSequence DEF TypeOK
    <3>2. taps + 1 \in 1..MaxTaps
      BY <1>3, NotifyConstants DEF Tap, TypeOK
    <3>3. QED
      BY <3>1, <3>2 DEF Update, Message
  <2>3. ToSet(updates') = ToSet(updates) \cup {u} /\ batch' = batch
    BY <1>3, <2>1, <2>2, AtTheEnd DEF Tap, TypeOK
  <2>4. Offered(m.apr) /\ m.apr \in Approval
    BY <2>1, <2>2 DEF Offered, Update
  <2>5. QED
    BY <1>1, <1>2, <2>3, <2>4 DEF UpdatesOK
<1>4. ASSUME ToSet(updates') \subseteq ToSet(updates),
             ToSet(batch') \subseteq ToSet(updates) \cup ToSet(batch)
      PROVE  UpdatesOK'
  BY <1>1, <1>2, <1>4 DEF UpdatesOK
<1>5. CASE Poll
  <2>1. ToSet(Unconfirmed) \subseteq ToSet(updates)
    BY UnconfirmedType
  <2>2. ToSet(<< >>) = {}
    BY DEF ToSet
  <2>3. QED
    BY <1>4, <1>5, <2>1, <2>2 DEF Poll
<1>6. CASE HandleUpdate
  <2>1. ToSet(Tail(batch)) \subseteq ToSet(batch)
    BY <1>6, FromTheFront DEF HandleUpdate, TypeOK
  <2>2. QED
    BY <1>4, <1>6, <2>1 DEF HandleUpdate
<1>7. CASE Restart
  <2>1. ToSet(batch') = {} /\ updates' = updates
    BY <1>7 DEF Restart, ToSet
  <2>2. QED
    BY <1>4, <2>1
<1>8. CASE UNCHANGED <<updates, batch>>
  BY <1>4, <1>8
<1>9. QED
  BY <1>3, <1>5, <1>6, <1>7, <1>8
     DEF Next, vars, inbound, Request, Tick, Take, Delivered, Land, Human, DecideHere,
         SetLocal, DeleteItem, Seal, Unseal, ClockAdvance

\* Records of deliveries.
LEMMA NotedStep ==
  ASSUME TypeOK, SendingOK, NotedTruthfully, [Next]_vars
  PROVE  NotedTruthfully'
<1>1. ToSet(chat) \subseteq ToSet(chat')
  BY ChatGrows
<1>2. CASE Delivered
  <2>1. noted' \subseteq noted \cup (IF sending.pc = "landed" THEN {MessageOf(sending.what)} ELSE {})
    BY <1>2 DEF Delivered, NotedAfter
  <2>2. QED
    BY <1>1, <2>1 DEF NotedTruthfully, SendingOK
<1>3. CASE noted' = noted
  BY <1>1, <1>3 DEF NotedTruthfully
<1>4. QED
  BY <1>2, <1>3
     DEF Next, vars, store, Request, Tick, Take, Land, Poll, HandleUpdate, Human, DecideHere,
         SetLocal, DeleteItem, Tap, Seal, Unseal, ClockAdvance, Restart

\* Who decided from outside.
LEMMA ByButtonStep ==
  ASSUME TypeOK, RowsOK, UpdatesOK, DecidedByButton, [Next]_vars
  PROVE  DecidedByButton'
<1>0. DecidedByButton <=> \A a \in Approval : apr[a].by \in User => apr[a].by \in AllowedUser /\ Offered(a)
  BY DEF DecidedByButton, Offered
<1>1. \A a \in Approval : Offered(a) => Offered(a)'
  BY ChatGrows DEF Offered
<1>2. {Page, Clock, None} \cap User = {}
  BY NotifyConstants
<1>3. ASSUME NEW a \in Approval, apr'[a].by \in User
      PROVE  apr'[a].by \in AllowedUser /\ Offered(a)'
  <2>1. CASE HandleUpdate
    <3>1. apr'[a] = apr[a] \/ (apr'[a].by \in AllowedUser /\ Offered(a))
      BY <2>1, HandleEffect
    <3>2. QED
      BY <1>0, <1>1, <1>3, <3>1
  <2>2. CASE ~HandleUpdate
    <3>1. apr'[a].by \in {apr[a].by, Page, Clock, None}
      BY <2>2, RowsStep
    <3>2. QED
      BY <1>0, <1>1, <1>2, <1>3, <3>1
  <2>3. QED
    BY <2>1, <2>2
<1>4. QED
  BY <1>3 DEF DecidedByButton, Offered

\* Nothing was asked for, and nothing is on the way.
LEMMA InitInv == Init => IInv
<1> SUFFICES ASSUME Init PROVE IInv
  OBVIOUS
<1>1. TypeOK
  <2>1. << >> \in Seq(Escalation) /\ << >> \in Seq(Message) /\ << >> \in Seq(Update)
    OBVIOUS
  <2>2. item \in [Item -> [live: BOOLEAN, local: BOOLEAN]] /\ apr \in [Approval -> Rows]
    <3>1. item \in [Item -> [live: {TRUE}, local: BOOLEAN]]
      BY DEF Init
    <3>2. [live: {TRUE}, local: BOOLEAN] \subseteq [live: BOOLEAN, local: BOOLEAN]
      OBVIOUS
    <3>3. apr = [a \in Approval |-> NoApproval]
      BY DEF Init
    <3>4. NoApproval \in Rows
      BY Blank
    <3>5. item \in [Item -> [live: BOOLEAN, local: BOOLEAN]]
      BY <3>1, <3>2
    <3>6. QED
      BY <3>3, <3>4, <3>5
  <2>3. MaxTime \in Nat /\ MaxTaps \in Nat /\ MaxCrashes \in Nat
    BY NotifyConstants
  <2>4. sealed \in BOOLEAN /\ noted \in SUBSET Message
        /\ sending \in Sendings /\ afloat \in SUBSET Message
    BY DEF Init, Sendings
  <2>5. /\ now \in 0..MaxTime
        /\ taps \in 0..MaxTaps /\ offset \in 0..MaxTaps + 1
        /\ handled \subseteq 1..MaxTaps /\ crashes \in 0..MaxCrashes
    BY <2>3 DEF Init
  <2>6. /\ channel \in Seq(Escalation) /\ chat \in Seq(Message)
        /\ updates \in Seq(Update) /\ batch \in Seq(Update)
    BY <2>1 DEF Init
  <2>7. QED
    BY <2>2, <2>4, <2>5, <2>6 DEF TypeOK
<1>2. RowsOK
  <2>1. Asked = {}
    BY DEF Init, Asked, NoApproval
  <2>2. QED
    BY <2>1, FS_EmptySet DEF Init, RowsOK
<1>3. DOMAIN channel = {} /\ afloat = {} /\ ToSet(chat) = {} /\ DOMAIN chat = {}
      /\ ToSet(updates) = {} /\ ToSet(batch) = {}
  BY DEF Init, ToSet
<1>4. OnTheWay /\ SendingOK /\ UpdatesOK /\ NotedTruthfully
  BY <1>3 DEF OnTheWay, AnnouncedOnce, SendingOK, UpdatesOK, NotedTruthfully, Init, Idle
<1>5. DecidedByButton
  BY NotifyConstants DEF Init, DecidedByButton, NoApproval
<1>6. QED
  BY <1>1, <1>2, <1>4, <1>5 DEF IInv

\* A step keeps the invariant.
LEMMA NextInv == IInv /\ [Next]_vars => IInv'
  BY NextTypeOK, RowsOKStep, OnTheWayStep, SendingOKStep, UpdatesOKStep, NotedStep, ByButtonStep
     DEF IInv

\* The invariant holds always.
LEMMA Invariant == Spec => []IInv
  BY InitInv, NextInv, PTL DEF Spec

------------------------------------------------------------------------------
(* Safety.                                                                   *)

\* Rows, channel, messages and updates keep their types.
THEOREM TypeCorrect == Spec => []TypeOK
  BY Invariant, PTL DEF IInv

\* Whatever ticks, commits that fail, restarts, late deliveries and lost answers
\* there are: the chat hears of every stage once at most (access.rs:804-820,
\* telegram.rs:128-142).
THEOREM EachStageOnce == Spec => []AnnouncedOnce
  BY Invariant, PTL DEF IInv, OnTheWay

\* The chat hears only of stages that are recorded and meant for it (state.rs:294-315,
\* telegram.rs:116).
THEOREM OnlyRecordedStages == Spec => []AnnouncedWasRecorded
<1>1. IInv => AnnouncedWasRecorded
  BY DEF IInv, OnTheWay, AnnouncedWasRecorded
<1>2. QED
  BY <1>1, Invariant, PTL

\* A delivery in the ledger is a message in the chat (telegram.rs:129-138).
THEOREM DeliveriesHappened == Spec => []NotedTruthfully
  BY Invariant, PTL DEF IInv

\* Nobody decides from the chat but users on the list, on a button they were
\* offered for that approval (telegram.rs:147-200).
THEOREM ListedUsersDecide == Spec => []DecidedByButton
  BY Invariant, PTL DEF IInv

\* A button decides nothing of an item that is local-only or gone, or while the
\* vault is sealed, at the time it is handled (telegram.rs:186-194).
THEOREM LocalItemsStayLocal == Spec => LocalStaysLocal
<1> DEFINE Local == \A a \in Approval : apr'[a].by \in User /\ apr[a].by # apr'[a].by =>
                      ~sealed /\ item[apr[a].item].live /\ ~item[apr[a].item].local
<1>1. IInv /\ [Next]_vars => [Local]_vars
  <2> SUFFICES ASSUME IInv, Next, NEW a \in Approval, apr'[a].by \in User, apr[a].by # apr'[a].by
               PROVE  ~sealed /\ item[apr[a].item].live /\ ~item[apr[a].item].local
    OBVIOUS
  <2>0. TypeOK /\ RowsOK /\ UpdatesOK /\ {Page, Clock, None} \cap User = {}
    BY NotifyConstants DEF IInv
  <2>1. CASE HandleUpdate
    <3>1. ~LocalOnly(apr[a].item)
      BY <2>0, <2>1, HandleEffect
    <3>2. QED
      BY <3>1 DEF LocalOnly
  <2>2. CASE ~HandleUpdate
    <3>1. apr'[a].by \in {apr[a].by, Page, Clock, None}
      BY <2>0, <2>2, RowsStep
    <3>2. QED
      BY <2>0, <3>1
  <2>3. QED
    BY <2>1, <2>2
<1>2. QED
  BY <1>1, Invariant, PTL DEF Spec, LocalStaysLocal

------------------------------------------------------------------------------
(* Notify implements ApprovalFlow.                                           *)

\* The first states are first states of the flow.
LEMMA FlowStart == Init => Flow!FlowInit
  BY DEF Init, Flow!FlowInit, NoApproval

\* A decision is a yes or a no of the flow.
LEMMA FlowDecided ==
  ASSUME TypeOK, NEW a \in Approval, NEW approve \in BOOLEAN, NEW who \in Deciders,
         Decidable(a), Decided(a, approve, who), now' = now
  PROVE  Flow!Yes(a) \/ Flow!No({a})
<1>1. /\ apr'[a].status = (IF approve THEN "approved" ELSE "denied")
      /\ apr'[a].expires = apr[a].expires
      /\ \A b \in Approval \ {a} : apr'[b] = apr[b]
  BY DecidedEffect
<1>2. apr[a].status = "pending" /\ now < apr[a].expires
  BY DEF Decidable, Pending
<1>3. CASE approve
  BY <1>1, <1>2, <1>3 DEF Flow!Yes
<1>4. CASE ~approve
  BY <1>1, <1>2, <1>4 DEF Flow!No
<1>5. QED
  BY <1>3, <1>4

\* Every step is a step of the flow, or none of its business.
LEMMA FlowStep ==
  ASSUME IInv, [Next]_vars
  PROVE  [Flow!FlowNext]_(Flow!flow)
<1>0. TypeOK /\ RowsOK /\ UpdatesOK
  BY DEF IInv
<1>1. ASSUME NEW a \in Approval, NEW i \in Item, Request(a, i) PROVE Flow!Ask(a)
  <2>1. /\ apr[a].status = "none" /\ now' = now
        /\ apr'[a].status = "pending" /\ apr'[a].expires = now + ApprovalWait
        /\ \A b \in Approval \ {a} : apr'[b] = apr[b]
    BY <1>0, <1>1 DEF Request, TypeOK, NoApproval
  <2>2. QED
    BY <2>1 DEF Flow!Ask
<1>2. ASSUME NEW a \in Approval, DecideHere(a) PROVE Flow!Yes(a) \/ Flow!No({a})
  <2>1. Page \in Deciders
    BY DEF Deciders
  <2>2. QED
    BY <1>0, <1>2, <2>1, FlowDecided DEF DecideHere
<1>3. ASSUME NEW i \in Item, DeleteItem(i) PROVE \E S \in SUBSET Approval : Flow!No(S)
  <2>0. PICK S \in SUBSET Approval : S = {a \in Approval : Pending(a) /\ apr[a].item = i}
    OBVIOUS
  <2>1. ASSUME NEW a \in S
        PROVE  apr'[a].status = "denied" /\ apr'[a].expires = apr[a].expires /\ apr[a].status = "pending"
    <3>1. a \in Approval /\ Pending(a) /\ apr[a].item = i
      BY <2>0
    <3>2. apr'[a] = [apr[a] EXCEPT !.status = "denied", !.by = Page]
      BY <1>3, <3>1 DEF DeleteItem
    <3>3. apr[a] \in Rows
      BY <1>0, <3>1 DEF TypeOK
    <3>4. QED
      BY <3>1, <3>2, <3>3 DEF Rows, Pending
  <2>2. \A a \in Approval \ S : apr'[a] = apr[a]
    BY <1>3, <2>0 DEF DeleteItem
  <2>3. now' = now
    BY <1>3 DEF DeleteItem
  <2>5. \A a \in Approval : /\ apr'[a].expires = apr[a].expires
                            /\ apr'[a].status = IF a \in S THEN "denied" ELSE apr[a].status
    BY <2>1, <2>2
  <2>7. Flow!No(S)
    BY <2>1, <2>3, <2>5 DEF Flow!No
  <2>8. QED
    BY <2>7
<1>4. CASE Tick
  <2>1. PICK T \in SUBSET Overdue, S \in SUBSET Due :
          apr' = [a \in Approval |->
               IF a \in T THEN [apr[a] EXCEPT !.status = "timeout", !.by = Clock]
               ELSE IF a \in S THEN [apr[a] EXCEPT !.escalation = DueStep(a)] ELSE apr[a]]
    BY <1>4 DEF Tick
  <2>2. /\ \A a \in T : /\ apr'[a].status = "timeout" /\ apr'[a].expires = apr[a].expires
        /\ \A a \in S : /\ apr'[a].status = apr[a].status /\ apr'[a].expires = apr[a].expires
        /\ \A a \in Approval \ (T \cup S) : apr'[a] = apr[a]
    BY <1>0, <2>1, TickEffect
  <2>3. /\ \A a \in T : apr[a].status = "pending" /\ apr[a].expires <= now
        /\ T \in SUBSET Approval /\ S \in SUBSET Approval /\ now' = now
    BY <1>4 DEF Overdue, Due, Pending, Tick
  <2>4. \A a \in Approval : /\ apr'[a].expires = apr[a].expires
                            /\ apr'[a].status = IF a \in T THEN "timeout" ELSE apr[a].status
    BY <2>2, <2>3
  <2>5. Flow!No(T)
    BY <2>3, <2>4 DEF Flow!No
  <2>6. QED
    BY <2>3, <2>5 DEF Flow!FlowNext
<1>5. CASE HandleUpdate
  <2>1. CASE apr' = apr
    BY <1>5, <2>1 DEF HandleUpdate, Flow!flow
  <2>2. CASE apr' # apr
    <3>1. batch # << >> /\ batch \in Seq(Update)
      BY <1>0, <1>5 DEF HandleUpdate, TypeOK
    <3>2. PICK u \in Update : u = Head(batch)
      BY <3>1, FromTheFront
    <3>3. PICK a \in Approval, approve \in BOOLEAN, who \in Deciders :
            a = u.apr /\ approve = u.approve /\ who = u.from
      BY DEF Update, Deciders
    <3>4. Decidable(a) /\ Decided(a, approve, who) /\ now' = now
      BY <1>5, <2>2, <3>2, <3>3 DEF HandleUpdate, Decidable, Pending, Decided
    <3>5. Flow!Yes(a) \/ Flow!No({a})
      BY <1>0, <3>4, FlowDecided
    <3>6. QED
      BY <3>5 DEF Flow!FlowNext
  <2>3. QED
    BY <2>1, <2>2
<1>6. CASE ClockAdvance
  BY <1>6 DEF ClockAdvance, Flow!FlowNext, Flow!Pass, store
<1>7. CASE UNCHANGED <<now, apr>>
  BY <1>7 DEF Flow!flow
<1>8. QED
  BY <1>1, <1>2, <1>3, <1>4, <1>5, <1>6, <1>7
     DEF Next, vars, store, Take, Delivered, Land, Poll, Human, SetLocal, Tap, Seal, Unseal,
         Restart, Flow!FlowNext

\* With a page, a chat and a clock that all decide, late buttons and restarts, an
\* approval is asked once, answered once, and not after its deadline
\* (access.rs:714-761).
THEOREM FlowImplemented == Spec => ImplementsApprovalFlow
<1>1. Spec => Flow!FlowInit /\ [][Flow!FlowNext]_(Flow!flow)
  BY FlowStart, FlowStep, Invariant, PTL DEF Spec
<1>2. QED
  BY <1>1 DEF ImplementsApprovalFlow, Flow!FlowSpec
=============================================================================
