------------------------------- MODULE Notify -------------------------------
(***************************************************************************)
(* How humans are told of a pending approval, and how a button in a        *)
(* Telegram chat decides one: the ticker's list of new stages              *)
(* (AppState::tick), the unbounded channel behind ChannelNotifier, the     *)
(* task that delivers, the task that polls getUpdates, and the service     *)
(* between them and the humans, which keeps updates until a later poll     *)
(* confirms them.  The page's decisions, the flags of an item, deletion,   *)
(* seal and crashes go on beside them.                                     *)
(*                                                                         *)
(* What an approval is good for afterwards is Access.                      *)
(***************************************************************************)
EXTENDS Integers, Sequences, FiniteSets, SequencesExt

CONSTANTS
  Approval,      \* approval ids that request_approval can draw
  Item,          \* items they can be asked for
  User,          \* people who can press a button
  AllowedUser,   \* TelegramConfig::allowed_users (all of User for an empty list)
  Ladder,        \* Config::ladder
  ExternalStep,  \* TelegramConfig::external_step
  ApprovalWait,  \* Config::approval_wait
  None,          \* no item, nothing being sent, nobody
  Page, Clock,   \* who decides, when it is not a user of the chat
  MaxTime,       \* bound: the clock stops here
  MaxTaps,       \* bound: buttons pressed
  MaxCrashes     \* bound: restarts of the daemon

ASSUME NotifyConstants ==
  /\ AllowedUser \subseteq User
  /\ Ladder \in Seq(Nat) /\ ExternalStep \in Nat \ {0}
  /\ ApprovalWait \in Nat \ {0}
  /\ None \notin Item \cup User \cup {Page, Clock}
  /\ Page \notin User /\ Clock \notin User
  /\ MaxTime \in Nat /\ MaxTaps \in Nat /\ MaxCrashes \in Nat

VARIABLES
  now,       \* the wall clock
  sealed,    \* Vault::state = State::Sealed
  item,      \* per item: is it there, may it be decided away from the machine
  apr,       \* table approval, with the approval_escalated records of each
  noted,     \* the approval_notified records of the ledger
  channel,   \* the mpsc channel: escalations not yet taken by the sender
  sending,   \* the escalation in Telegram::deliver, and how far it got
  afloat,    \* messages sent and not in the chat: under way, delayed or lost
  chat,      \* messages in the chat, oldest first
  updates,   \* button presses the service still keeps, oldest first
  taps,      \* how many buttons were pressed: the last update_id given out
  offset,    \* local variable of Telegram::run
  batch,     \* updates of the last poll that were not handled yet
  handled,   \* history: update_ids some handle_update came to the end of
  crashes    \* how often the daemon was restarted

store == <<item, apr, noted>>
outbound == <<channel, sending, afloat, chat>>
inbound == <<updates, taps, offset, batch, handled>>
vars == <<now, sealed, store, outbound, inbound, crashes>>

Step == 1..Len(Ladder)
Statuses == {"none", "pending", "approved", "denied", "timeout"}
Deciders == User \cup {Page, Clock, None}
Escalation == [apr: Approval, step: Step, localOnly: BOOLEAN]
Message == [apr: Approval, step: Step, buttons: BOOLEAN]
Update == [id: 1..MaxTaps, apr: Approval, approve: BOOLEAN, from: User]
Rows == [status: Statuses, item: Item \cup {None}, requested: Nat, expires: Nat,
         escalation: Step \cup {0}, by: Deciders]
NoApproval == [status |-> "none", item |-> None, requested |-> 0, expires |-> 0,
               escalation |-> 0, by |-> None]
Idle == [pc |-> "idle", what |-> None]
Sendings == [pc: {"calling", "landed"}, what: Escalation] \cup {Idle}

TypeOK ==
  /\ now \in 0..MaxTime /\ sealed \in BOOLEAN
  /\ item \in [Item -> [live: BOOLEAN, local: BOOLEAN]]
  /\ apr \in [Approval -> Rows]
  /\ noted \in SUBSET Message
  /\ channel \in Seq(Escalation)
  /\ sending \in Sendings
  /\ afloat \in SUBSET Message /\ chat \in Seq(Message)
  /\ updates \in Seq(Update) /\ batch \in Seq(Update)
  /\ taps \in 0..MaxTaps /\ offset \in 0..MaxTaps + 1
  /\ handled \subseteq 1..MaxTaps /\ crashes \in 0..MaxCrashes

Init ==
  /\ now = 0 /\ sealed = FALSE /\ crashes = 0
  /\ item \in [Item -> [live: {TRUE}, local: BOOLEAN]]
  /\ apr = [a \in Approval |-> NoApproval]
  /\ noted = {} /\ channel = << >> /\ sending = Idle
  /\ afloat = {} /\ chat = << >>
  /\ updates = << >> /\ taps = 0 /\ offset = 0 /\ batch = << >> /\ handled = {}

------------------------------------------------------------------------------
(* The table approval.                                                       *)

Pending(a) == apr[a].status = "pending"

\* Vault::request_approval for an item an agent may ask for.
Request(a, i) ==
  /\ apr[a].status = "none" /\ item[i].live /\ ~sealed
  /\ apr' = [apr EXCEPT ![a] = [NoApproval EXCEPT !.status = "pending", !.item = i,
                                  !.requested = now, !.expires = now + ApprovalWait]]
  /\ UNCHANGED <<now, sealed, item, noted, outbound, inbound, crashes>>

\* Fault: only the deadline is looked at.
Decidable_Again(a) == apr[a].status # "none" /\ now < apr[a].expires

\* What decide_approval asks of the row.
Decidable(a) == Pending(a) /\ now < apr[a].expires

\* Fault: the word of the button is written for the status.
Decided_Misnamed(a, approve, who) ==
  apr' = [apr EXCEPT ![a].status = IF approve THEN "approve" ELSE "deny", ![a].by = who]

Decided(a, approve, who) ==
  apr' = [apr EXCEPT ![a].status = IF approve THEN "approved" ELSE "denied",
                     ![a].by = who]

\* A decision on the page.
DecideHere(a) ==
  /\ Decidable(a)
  /\ \E approve \in BOOLEAN : Decided(a, approve, Page)
  /\ UNCHANGED <<now, sealed, item, noted, outbound, inbound, crashes>>

\* set_item_flags, the local_approval_only column.
SetLocal(i) ==
  /\ item[i].live
  /\ item' = [item EXCEPT ![i].local = ~@]
  /\ UNCHANGED <<now, sealed, apr, noted, outbound, inbound, crashes>>

\* delete_item denies what is pending for it.
DeleteItem(i) ==
  /\ item[i].live /\ ~sealed
  /\ item' = [item EXCEPT ![i] = [live |-> FALSE, local |-> FALSE]]
  /\ apr' = [a \in Approval |->
               IF Pending(a) /\ apr[a].item = i
                 THEN [apr[a] EXCEPT !.status = "denied", !.by = Page] ELSE apr[a]]
  /\ UNCHANGED <<now, sealed, noted, outbound, inbound, crashes>>

\* Fault: an item that cannot be read counts as free to decide anywhere.
LocalOnly_IfKnown(i) == ~sealed /\ item[i].live /\ item[i].local

\* detail(..).map(local_approval_only).unwrap_or(true): the detail of an item is
\* missing when the item is, or when the vault is sealed.
LocalOnly(i) == sealed \/ ~item[i].live \/ item[i].local

------------------------------------------------------------------------------
(* The ticker's pass.                                                        *)

DueStep(a) == Cardinality({k \in DOMAIN Ladder : now >= apr[a].requested + Ladder[k]})

\* Fault: a stage is due as long as it is the current one.
Due_Again == {a \in Approval : Pending(a) /\ now < apr[a].expires /\ DueStep(a) >= apr[a].escalation}

\* The approvals escalate_approvals has a new stage to record for.
Due == {a \in Approval : Pending(a) /\ now < apr[a].expires /\ DueStep(a) > apr[a].escalation}
Overdue == {a \in Approval : Pending(a) /\ apr[a].expires <= now}

\* What the pass hands to ChannelNotifier, one escalation for each new stage.
Escalations(S) ==
  [n \in 1..Cardinality(S) |->
     LET a == SetToSeq(S)[n] IN
     [apr |-> a, step |-> DueStep(a), localOnly |-> LocalOnly(apr[a].item)]]

\* One pass.  Timeouts and stages are a commit each.  When one of the stages
\* fails, those before it stay recorded, but the list of them is lost on the way
\* to the notifier, and likewise when the process dies after the commits; and a
\* stage whose approval cannot be read again is passed over.
Tick ==
  \E T \in SUBSET Overdue, S \in SUBSET Due : \E told \in SUBSET S :
    /\ told # {} => S = Due
    /\ T \cup S # {}
    /\ apr' = [a \in Approval |->
         IF a \in T THEN [apr[a] EXCEPT !.status = "timeout", !.by = Clock]
         ELSE IF a \in S THEN [apr[a] EXCEPT !.escalation = DueStep(a)] ELSE apr[a]]
    /\ channel' = channel \o Escalations(told)
    /\ UNCHANGED <<now, sealed, item, noted, sending, afloat, chat, inbound, crashes>>

------------------------------------------------------------------------------
(* Telegram::deliver, one escalation after the other.                        *)

\* Fault: every stage goes out.
External_Every(e) == TRUE

External(e) == e.step >= ExternalStep

MessageOf(e) == [apr |-> e.apr, step |-> e.step, buttons |-> ~e.localOnly]

\* The task takes the next escalation and calls sendMessage for an external one.
Take ==
  /\ sending = Idle /\ channel # << >>
  /\ channel' = Tail(channel)
  /\ LET e == Head(channel) IN
     IF External(e)
       THEN sending' = [pc |-> "calling", what |-> e] /\ afloat' = afloat \cup {MessageOf(e)}
       ELSE UNCHANGED <<sending, afloat>>
  /\ UNCHANGED <<now, sealed, store, chat, inbound, crashes>>

\* The service accepts a message, now, or long after the call for it gave up.
Land(m) ==
  /\ m \in afloat /\ afloat' = afloat \ {m}
  /\ chat' = Append(chat, m)
  /\ sending' = IF sending.pc = "calling" /\ MessageOf(sending.what) = m
                  THEN [sending EXCEPT !.pc = "landed"] ELSE sending
  /\ UNCHANGED <<now, sealed, store, channel, inbound, crashes>>

\* Fault: the record is written whatever came back.
NotedAfter_Any(pc) == TRUE

\* sendMessage answers ok only when the message is there.
NotedAfter(pc) == pc = "landed"

\* An answer, or none in 40 seconds: only an ok is recorded, and the record may
\* fail; nothing is sent a second time.
Delivered ==
  /\ sending # Idle
  /\ noted' \in {noted} \cup
       (IF NotedAfter(sending.pc) THEN {noted \cup {MessageOf(sending.what)}} ELSE {})
  /\ sending' = Idle
  /\ UNCHANGED <<now, sealed, item, apr, channel, afloat, chat, inbound, crashes>>

------------------------------------------------------------------------------
(* Buttons.                                                                  *)

\* Somebody presses a button of a message, however old it is.  The service
\* numbers the presses and keeps them.
Tap(u, approve) ==
  /\ taps < MaxTaps
  /\ \E m \in ToSet(chat) :
       /\ m.buttons
       /\ updates' = Append(updates, [id |-> taps + 1, apr |-> m.apr,
                                      approve |-> approve, from |-> u])
  /\ taps' = taps + 1
  /\ UNCHANGED <<now, sealed, store, outbound, offset, batch, handled, crashes>>

\* What is not confirmed: updates are kept in the order of their ids.
Unconfirmed ==
  LET confirmed == {n \in DOMAIN updates : updates[n].id < offset} IN
  SubSeq(updates, Cardinality(confirmed) + 1, Len(updates))

\* getUpdates when nothing of the last batch is left: the service forgets what
\* is below the offset and answers the rest, or the answer is lost.
Poll ==
  /\ batch = << >> /\ updates # << >>
  /\ updates' = Unconfirmed
  /\ batch' \in {Unconfirmed, << >>}
  /\ UNCHANGED <<now, sealed, store, outbound, taps, offset, handled, crashes>>

\* Fault: the next poll asks for the update again.
NextOffset_Same(u) == IF u.id > offset THEN u.id ELSE offset

\* offset.max(id + 1), before the update is handled.
NextOffset(u) == IF u.id + 1 > offset THEN u.id + 1 ELSE offset

\* Fault: anybody in the chat decides.
MayDecide_Anybody(u) == ~LocalOnly(apr[u.apr].item)

\* handle_update goes on to decide_approval: the user is on the list, and the
\* item may be decided away from the machine, now.
MayDecide(u) == u.from \in AllowedUser /\ ~LocalOnly(apr[u.apr].item)

\* handle_update in one hold of the mutex.  Refusals, a row that is decided or
\* overdue and a failing store all end in an acknowledgement that nothing
\* depends on: answerCallbackQuery and editMessageText are left out.
HandleUpdate ==
  LET u == Head(batch) IN
  /\ batch # << >>
  /\ \/ MayDecide(u) /\ Decidable(u.apr) /\ Decided(u.apr, u.approve, u.from)
     \/ UNCHANGED apr
  /\ offset' = NextOffset(u)
  /\ batch' = Tail(batch)
  /\ handled' = handled \cup {u.id}
  /\ UNCHANGED <<now, sealed, item, noted, outbound, updates, taps, crashes>>

------------------------------------------------------------------------------
(* The rest of the world.                                                    *)

Seal == ~sealed /\ sealed' = TRUE /\ UNCHANGED <<now, store, outbound, inbound, crashes>>
Unseal == sealed /\ sealed' = FALSE /\ UNCHANGED <<now, store, outbound, inbound, crashes>>

ClockAdvance ==
  /\ now < MaxTime /\ now' = now + 1
  /\ UNCHANGED <<sealed, store, outbound, inbound, crashes>>

\* The daemon dies and is started again: channel, call in progress, batch and
\* offset are gone.  The service keeps messages and unconfirmed updates.
Restart ==
  /\ crashes < MaxCrashes /\ crashes' = crashes + 1
  /\ sealed' \in BOOLEAN
  /\ channel' = << >> /\ sending' = Idle /\ batch' = << >> /\ offset' = 0
  /\ UNCHANGED <<now, store, afloat, chat, updates, taps, handled>>

Human ==
  \/ \E a \in Approval : DecideHere(a)
  \/ \E i \in Item : SetLocal(i) \/ DeleteItem(i)
  \/ \E u \in User, approve \in BOOLEAN : Tap(u, approve)
  \/ Seal \/ Unseal

Next ==
  \/ \E a \in Approval, i \in Item : Request(a, i)
  \/ Tick
  \/ Take \/ Delivered
  \/ \E m \in Message : Land(m)
  \/ Poll \/ HandleUpdate
  \/ Human
  \/ ClockAdvance \/ Restart

Spec == Init /\ [][Next]_vars

\* The two tasks of Telegram::run never stop: a batch is handled to its end, and
\* a poll that failed is made again after five seconds.  That one of them gets an
\* answer in the end is assumed of the network (a poll without one that changes
\* nothing is a stuttering step).
Fairness ==
  /\ WF_vars(HandleUpdate)
  /\ WF_vars(Poll) /\ WF_vars(Poll /\ batch' # << >>)

FairSpec == Spec /\ Fairness

------------------------------------------------------------------------------
(* Safety.                                                                   *)

\* No stage of an approval is announced twice in the chat, however often ticks,
\* restarts and failures come: escalation is committed before the channel is
\* filled, and a message that may have arrived is not sent again
\* (access.rs:804-820, telegram.rs:128-142).
AnnouncedOnce ==
  \A m, n \in DOMAIN chat :
    m # n => chat[m].apr # chat[n].apr \/ chat[m].step # chat[n].step

\* The chat hears of a stage only when it is recorded and external: never of what
\* a failed commit or a crash took back (state.rs:294-315, telegram.rs:116).
AnnouncedWasRecorded ==
  \A m \in ToSet(chat) : m.step \in ExternalStep..apr[m.apr].escalation

\* The ledger claims a delivery only for a message that is in the chat, with the
\* buttons it says (telegram.rs:129-138).
NotedTruthfully == noted \subseteq ToSet(chat)

\* Who decides from outside is on the list and had buttons to press for exactly
\* this approval (telegram.rs:147-200).
DecidedByButton ==
  \A a \in Approval : apr[a].by \in User =>
    /\ apr[a].by \in AllowedUser
    /\ \E m \in ToSet(chat) : m.apr = a /\ m.buttons

\* Buttons that were sent before an item became local-only, was deleted or the
\* vault was sealed decide nothing any more, whenever they are pressed, fetched
\* and handled (telegram.rs:186-194).
LocalStaysLocal ==
  [][\A a \in Approval : apr'[a].by \in User /\ apr[a].by # apr'[a].by =>
       ~sealed /\ item[apr[a].item].live /\ ~item[apr[a].item].local]_vars

\* With two ways to decide, late and repeated buttons and restarts, an approval
\* still has the life ApprovalFlow promises (access.rs:714-761).
Flow == INSTANCE ApprovalFlow WITH
  Wait <- ApprovalWait,
  clock <- now,
  phase <- [a \in Approval |-> apr[a].status],
  deadline <- [a \in Approval |-> apr[a].expires],
  out <- [a \in Approval |-> 0]

ImplementsApprovalFlow == Flow!FlowSpec

------------------------------------------------------------------------------
(* Liveness.                                                                 *)

\* A button that was pressed is not lost: some handle_update comes to its end for
\* it and the service is told to forget it, over lost answers, failed polls and
\* restarts between fetching and handling (telegram.rs:239-258).
TapHandled ==
  \A n \in 1..MaxTaps :
    taps >= n ~> n \in handled /\ (\A k \in DOMAIN updates : updates[k].id # n)
=============================================================================
