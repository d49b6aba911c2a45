---------------------------- MODULE ApprovalFlow ----------------------------
(***************************************************************************)
(* What an approval request promises, whatever the daemon does around it   *)
(* (docs/adr/0005-approval-and-reminder-model.md, API_CONTRACT section 2): *)
(* it is asked once, answered once and before its deadline or not at all,  *)
(* an approval can be spent once by polling, and a value is handed over    *)
(* for it at most once and only after it was spent.                        *)
(***************************************************************************)
EXTENDS Integers

CONSTANTS Approval, Wait

VARIABLES
  clock,     \* the time
  phase,     \* where each request stands
  deadline,  \* when silence becomes a denial
  out        \* how many values were handed over by polling it

flow == <<clock, phase, deadline, out>>

Phases == {"none", "pending", "approved", "spent", "denied", "timeout"}

FlowInit ==
  /\ clock = 0
  /\ phase = [a \in Approval |-> "none"]
  /\ deadline = [a \in Approval |-> 0]
  /\ out = [a \in Approval |-> 0]

Pass == clock' = clock + 1 /\ UNCHANGED <<phase, deadline, out>>

Ask(a) ==
  /\ phase[a] = "none"
  /\ phase' = [phase EXCEPT ![a] = "pending"]
  /\ deadline' = [deadline EXCEPT ![a] = clock + Wait]
  /\ UNCHANGED <<clock, out>>

\* A yes comes before the deadline or never.
Yes(a) ==
  /\ phase[a] = "pending" /\ clock < deadline[a]
  /\ phase' = [phase EXCEPT ![a] = "approved"]
  /\ UNCHANGED <<clock, deadline, out>>

\* Some pending requests are closed: by a no, by the deletion of their item, or
\* by silence, which takes the whole wait.
No(S) ==
  /\ \A a \in S : phase[a] = "pending"
  /\ \E answer \in {"denied", "timeout"} :
       /\ answer = "timeout" => \A a \in S : deadline[a] <= clock
       /\ phase' = [a \in Approval |-> IF a \in S THEN answer ELSE phase[a]]
  /\ UNCHANGED <<clock, deadline, out>>

Spend(a) ==
  /\ phase[a] = "approved"
  /\ phase' = [phase EXCEPT ![a] = "spent"]
  /\ UNCHANGED <<clock, deadline, out>>

HandOver(a) ==
  /\ phase[a] = "spent" /\ out[a] = 0
  /\ out' = [out EXCEPT ![a] = 1]
  /\ UNCHANGED <<clock, phase, deadline>>

FlowNext ==
  \/ Pass
  \/ \E a \in Approval : Ask(a) \/ Yes(a) \/ Spend(a) \/ HandOver(a)
  \/ \E S \in SUBSET Approval : No(S)

FlowSpec == FlowInit /\ [][FlowNext]_flow
=============================================================================
