---------------------------- MODULE LimitsProofs ----------------------------
(***************************************************************************)
(* Proofs about Limits, for any number of calls, tokens and clients, any   *)
(* limits and any lengths of the windows.                                  *)
(***************************************************************************)
EXTENDS Limits, FiniteSetTheorems, TLAPS

LoginPcs == {"login", "verify", "wrong", "count"}

\* A call works for a token or for a client, as its step needs it.
KeysOK ==
  \A p \in Call :
    /\ call[p].pc = "rate" => call[p].key \in Token
    /\ call[p].pc \in LoginPcs => call[p].key \in Client

\* What an entry counts for the present window.
CountNow(e, length) == IF e.window = Window(length) THEN e.n ELSE 0

\* The calls between login_allowed and the verdict, and between the verdict and
\* the count of it.
Verifying(c) == {p \in Call : call[p].pc = "verify" /\ call[p].key = c}
Uncounted(c) == {p \in Call : call[p].pc \in {"wrong", "count"} /\ call[p].key = c}

\* What a window can let a client try: the limit less one, and one per call.
Most == Attempts - 1 + Cardinality(Call)

\* No count passes the limit, and every call let through since the window began
\* is in the count, or was forgotten by a late call, which forgets PerMin at most.
RateInv(t) ==
  /\ rate[t].n <= PerMin
  /\ passed[t] <= lateRate[t] * (PerMin + 1) + CountNow(rate[t], RateWindow)

\* Every wrong passphrase since the window began is counted, on its way to the
\* count, was forgotten by a late call, or is one nobody waited to hear of; and
\* those being verified were let in when there was room for them.
LoginInv(c) ==
  /\ tried[c] <= lateLogin[c] * Most + CountNow(failures[c], LoginWindow) + Cardinality(Uncounted(c))
                   + unheard[c]
  /\ tried[c] + Cardinality(Verifying(c)) <= (lateLogin[c] + 1) * Most + unheard[c]

IInv ==
  /\ TypeOK /\ KeysOK
  /\ \A t \in Token : RateInv(t)
  /\ \A c \in Client : LoginInv(c)

------------------------------------------------------------------------------
(* The clock and its windows.                                                *)

\* A window starts at a time the clock can have.
LEMMA WindowType ==
  ASSUME TypeOK, NEW length \in Nat \ {0}
  PROVE  Window(length) \in 0..MaxTime
<1>1. now \in Nat /\ now <= MaxTime /\ MaxTime \in Nat
  BY LimitsConstants DEF TypeOK
<1>2. now % length \in 0..length - 1
  BY <1>1
<1>3. now % length <= now
  BY <1>1, <1>2
<1>4. QED
  BY <1>1, <1>2, <1>3 DEF Window

\* The lengths and limits are numbers.
LEMMA Lengths == RateWindow \in Nat \ {0} /\ LoginWindow \in Nat \ {0} /\ PerMin \in Nat /\ Attempts \in Nat \ {0}
  BY LimitsConstants

\* An entry for a window is typed, is of that window, and counts no more than
\* the entry before.
LEMMA EntryForType ==
  ASSUME NEW e \in Entry, NEW w \in 0..MaxTime
  PROVE  /\ EntryFor(e, w) \in Entry /\ EntryFor(e, w).window = w
         /\ EntryFor(e, w).n = IF e.window = w THEN e.n ELSE 0
         /\ Counted(e, w) \in Entry /\ Counted(e, w).window = w
         /\ Counted(e, w).n = EntryFor(e, w).n + 1
  BY DEF Entry, EntryFor, Counted

\* A call that moves on or ends leaves the other calls alone.
LEMMA MoveEffect ==
  ASSUME TypeOK, NEW p \in Call, NEW pc \in Pcs,
         NEW key \in Token \cup Client \cup {Nobody}, NEW w \in 0..MaxTime, Move(p, pc, key, w)
  PROVE  /\ call' \in [Call -> Calls]
         /\ call'[p].pc = pc /\ call'[p].key = key /\ call'[p].window = w
         /\ \A q \in Call \ {p} : call'[q] = call[q]
  BY DEF TypeOK, Move, Calls

\* So does a call that is over.
LEMMA FinishEffect ==
  ASSUME TypeOK, NEW p \in Call, Finish(p)
  PROVE  /\ call' \in [Call -> Calls] /\ call'[p].pc = "idle"
         /\ \A q \in Call \ {p} : call'[q] = call[q]
  BY LimitsConstants DEF TypeOK, Finish, Calls, Idle, Pcs

\* A late call adds one to its own history; any other call adds nothing.
LEMMA LateEffect ==
  ASSUME NEW D, NEW h \in [D -> Nat], NEW k \in D, NEW w, NEW length
  PROVE  /\ Late(h, k, w, length) \in [D -> Nat]
         /\ Late(h, k, w, length)[k] = IF w = Window(length) THEN h[k] ELSE h[k] + 1
         /\ \A x \in D \ {k} : Late(h, k, w, length)[x] = h[x]
  BY DEF Late

------------------------------------------------------------------------------
(* Types.                                                                    *)

\* A daemon that has just started is typed.
LEMMA InitTypeOK == Init => TypeOK /\ KeysOK
  BY LimitsConstants DEF Init, TypeOK, KeysOK, Entry, NoEntry, Idle, Calls, Pcs, LoginPcs

\* Every step keeps types and keys.
LEMMA NextTypeOK ==
  ASSUME TypeOK, KeysOK, [Next]_vars
  PROVE  TypeOK' /\ KeysOK'
<1> USE Lengths
<1>1. ASSUME NEW p \in Call, NEW t \in Token, RateClock(p, t) PROVE TypeOK' /\ KeysOK'
  <2>1. Window(RateWindow) \in 0..MaxTime
    BY WindowType
  <2>2. /\ call' \in [Call -> Calls]
        /\ call'[p].pc = "rate" /\ call'[p].key = t
        /\ \A q \in Call \ {p} : call'[q] = call[q]
    BY <1>1, <2>1, MoveEffect DEF RateClock, Pcs
  <2>3. TypeOK'
    BY <1>1, <2>2 DEF TypeOK, RateClock, maps, rateHistory, loginHistory
  <2>4. QED
    BY <2>2, <2>3 DEF KeysOK, LoginPcs
<1>2. ASSUME NEW p \in Call, NEW c \in Client, LoginClock(p, c) PROVE TypeOK' /\ KeysOK'
  <2>1. Window(LoginWindow) \in 0..MaxTime
    BY WindowType
  <2>2. /\ call' \in [Call -> Calls]
        /\ call'[p].pc = "login" /\ call'[p].key = c
        /\ \A q \in Call \ {p} : call'[q] = call[q]
    BY <1>2, <2>1, MoveEffect DEF LoginClock, Pcs
  <2>3. TypeOK'
    BY <1>2, <2>2 DEF TypeOK, LoginClock, maps, rateHistory, loginHistory
  <2>4. QED
    BY <2>2, <2>3 DEF KeysOK, LoginPcs
<1>3. ASSUME NEW p \in Call, RateCheck(p) PROVE TypeOK' /\ KeysOK'
  <2> DEFINE t == call[p].key  w == call[p].window
  <2>1. t \in Token /\ w \in 0..MaxTime /\ rate[t] \in Entry
    BY <1>3 DEF RateCheck, KeysOK, TypeOK, Calls
  <2>2. /\ call' \in [Call -> Calls] /\ call'[p].pc = "idle"
        /\ \A q \in Call \ {p} : call'[q] = call[q]
    BY <1>3, FinishEffect DEF RateCheck
  <2>3. EntryFor(rate[t], w) \in Entry
    BY <2>1, EntryForType
  <2>4. Counted(EntryFor(rate[t], w), w) \in Entry
    BY <2>1, <2>3, EntryForType
  <2>5. rate' \in [Token -> Entry]
    BY <1>3, <2>3, <2>4 DEF RateCheck, TypeOK
  <2>6. passed' \in [Token -> Nat]
    <3>1. [passed EXCEPT ![t] = @ + 1] \in [Token -> Nat]
      BY <2>1 DEF TypeOK
    <3>2. passed' \in {passed, [passed EXCEPT ![t] = @ + 1]}
      BY <1>3, Zenon DEF RateCheck
    <3>3. QED
      BY <3>1, <3>2 DEF TypeOK
  <2>7. lateRate' \in [Token -> Nat]
    BY <1>3, <2>1, LateEffect DEF RateCheck, TypeOK
  <2>8. TypeOK'
    BY <1>3, <2>2, <2>5, <2>6, <2>7 DEF RateCheck, TypeOK, loginHistory
  <2>9. QED
    BY <2>2, <2>8 DEF KeysOK, LoginPcs
<1>4. ASSUME NEW p \in Call, LoginCheck(p) PROVE TypeOK' /\ KeysOK'
  <2> DEFINE c == call[p].key  w == call[p].window
  <2>1. c \in Client /\ w \in 0..MaxTime
    BY <1>4 DEF LoginCheck, KeysOK, TypeOK, Calls, LoginPcs
  <2>2. /\ call' \in [Call -> Calls]
        /\ \/ call'[p].pc = "idle"
           \/ call'[p].pc = "verify" /\ call'[p].key = c
        /\ \A q \in Call \ {p} : call'[q] = call[q]
    <3>1. CASE Allowed(c, w)
      BY <1>4, <2>1, <3>1, MoveEffect, LimitsConstants DEF LoginCheck, Pcs
    <3>2. CASE ~Allowed(c, w)
      BY <1>4, <3>2, FinishEffect DEF LoginCheck
    <3>3. QED
      BY <3>1, <3>2
  <2>3. lateLogin' \in [Client -> Nat]
    BY <1>4, <2>1, LateEffect DEF LoginCheck, TypeOK
  <2>4. TypeOK'
    BY <1>4, <2>2, <2>3 DEF LoginCheck, TypeOK, maps, rateHistory
  <2>5. QED
    BY <2>1, <2>2, <2>4 DEF KeysOK, LoginPcs
<1>5. ASSUME NEW p \in Call, Verify(p) PROVE TypeOK' /\ KeysOK'
  <2> DEFINE c == call[p].key
  <2>1. c \in Client
    BY <1>5 DEF Verify, KeysOK, LoginPcs
  <2>2. /\ call' \in [Call -> Calls]
        /\ \/ call'[p].pc = "idle"
           \/ call'[p].pc = "wrong" /\ call'[p].key = c
        /\ \A q \in Call \ {p} : call'[q] = call[q]
    <3>1. CASE Finish(p)
      BY <3>1, FinishEffect
    <3>2. CASE Move(p, "wrong", c, 0)
      BY <2>1, <3>2, MoveEffect, LimitsConstants DEF Pcs
    <3>3. QED
      BY <1>5, <3>1, <3>2 DEF Verify
  <2>3. tried' \in [Client -> Nat]
    BY <1>5 DEF Verify, TypeOK
  <2>4. TypeOK'
    BY <1>5, <2>2, <2>3 DEF Verify, TypeOK, maps, rateHistory
  <2>5. QED
    BY <2>1, <2>2, <2>4 DEF KeysOK, LoginPcs
<1>6. ASSUME NEW p \in Call, CountClock(p) PROVE TypeOK' /\ KeysOK'
  <2>1. Window(LoginWindow) \in 0..MaxTime /\ call[p].key \in Client
    BY <1>6, WindowType DEF CountClock, KeysOK, LoginPcs
  <2>2. /\ call' \in [Call -> Calls]
        /\ call'[p].pc = "count" /\ call'[p].key = call[p].key
        /\ \A q \in Call \ {p} : call'[q] = call[q]
    BY <1>6, <2>1, MoveEffect DEF CountClock, Pcs
  <2>3. TypeOK'
    BY <1>6, <2>2 DEF TypeOK, CountClock, maps, rateHistory, loginHistory
  <2>4. QED
    BY <2>1, <2>2, <2>3 DEF KeysOK, LoginPcs
<1>7. ASSUME NEW p \in Call, CountFailed(p) PROVE TypeOK' /\ KeysOK'
  <2> DEFINE c == call[p].key  w == call[p].window
  <2>1. c \in Client /\ w \in 0..MaxTime /\ failures[c] \in Entry
    BY <1>7 DEF CountFailed, KeysOK, TypeOK, Calls, LoginPcs
  <2>2. /\ call' \in [Call -> Calls] /\ call'[p].pc = "idle"
        /\ \A q \in Call \ {p} : call'[q] = call[q]
    BY <1>7, FinishEffect DEF CountFailed
  <2>3. Counted(failures[c], w) \in Entry
    BY <2>1, EntryForType
  <2>4. failures' \in [Client -> Entry]
    BY <1>7, <2>3 DEF CountFailed, FailureCounted, TypeOK
  <2>5. lateLogin' \in [Client -> Nat]
    BY <1>7, <2>1, LateEffect DEF CountFailed, TypeOK
  <2>6. TypeOK'
    BY <1>7, <2>2, <2>4, <2>5 DEF CountFailed, TypeOK, rateHistory
  <2>7. QED
    BY <2>2, <2>6 DEF KeysOK, LoginPcs
<1>8. ASSUME NEW n \in 0..MaxTime, ClockTo(n), UNCHANGED <<maps, call>>, back' \in 0..MaxBack
      PROVE  TypeOK' /\ KeysOK'
  BY <1>8 DEF ClockTo, TypeOK, KeysOK, maps
<1>9. CASE ClockAdvance
  <2>1. now + 1 \in 0..MaxTime /\ back \in 0..MaxBack
    BY <1>9, LimitsConstants DEF ClockAdvance, TypeOK
  <2>2. QED
    BY <1>8, <1>9, <2>1 DEF ClockAdvance
<1>10. CASE ClockBack
  <2>1. PICK n \in 0..now - 1 : ClockTo(n)
    BY <1>10 DEF ClockBack
  <2>2. n \in 0..MaxTime /\ back' \in 0..MaxBack
    BY <1>10, LimitsConstants DEF ClockBack, TypeOK
  <2>3. QED
    BY <1>8, <1>10, <2>1, <2>2 DEF ClockBack
<1>11. CASE Restart
  BY <1>11, LimitsConstants DEF Restart, TypeOK, KeysOK, Entry, NoEntry, Idle, Calls, Pcs, LoginPcs
<1>12. CASE UNCHANGED vars
  BY <1>12 DEF vars, maps, rateHistory, loginHistory, TypeOK, KeysOK
<1>13. ASSUME NEW p \in Call, Disconnect(p) PROVE TypeOK' /\ KeysOK'
  <2>1. /\ call' \in [Call -> Calls] /\ call'[p].pc = "idle"
        /\ \A q \in Call \ {p} : call'[q] = call[q]
    BY <1>13, FinishEffect DEF Disconnect
  <2>2. unheard' \in [Client -> Nat]
    BY <1>13 DEF Disconnect, KeysOK, LoginPcs, TypeOK
  <2>3. TypeOK'
    BY <1>13, <2>1, <2>2 DEF Disconnect, TypeOK, maps, rateHistory
  <2>4. QED
    BY <2>1, <2>3 DEF KeysOK, LoginPcs
<1>14. QED
  BY <1>1, <1>2, <1>3, <1>4, <1>5, <1>6, <1>7, <1>9, <1>10, <1>11, <1>12, <1>13 DEF Next

\* Clock, maps and histories keep their types, for any calls and any clock.
THEOREM TypeCorrect == Spec => []TypeOK
<1>1. Init => TypeOK /\ KeysOK
  BY InitTypeOK
<1>2. (TypeOK /\ KeysOK) /\ [Next]_vars => (TypeOK /\ KeysOK)'
  BY NextTypeOK
<1>3. QED
  BY <1>1, <1>2, PTL DEF Spec

------------------------------------------------------------------------------
(* Calls per token.                                                          *)

\* One more late call, one more share of the limit.
LEMMA OneMore ==
  ASSUME NEW a \in Nat, NEW b \in Nat
  PROVE  a * b \in Nat /\ (a + 1) * b \in Nat /\ (a + 1) * b = a * b + b
  OBVIOUS

\* What holds of a token goes on to hold while nothing of it moves, and begins
\* anew with a window.
LEMMA RateKept ==
  ASSUME TypeOK, NEW t \in Token, RateInv(t), rate'[t] = rate[t],
         \/ now' = now /\ passed'[t] = passed[t] /\ lateRate'[t] = lateRate[t]
         \/ /\ Window(RateWindow)' = Window(RateWindow)
            /\ passed'[t] = passed[t] /\ lateRate'[t] = lateRate[t]
         \/ passed'[t] = 0 /\ lateRate'[t] = 0
  PROVE  RateInv(t)'
<1>1. rate[t] \in Entry /\ PerMin \in Nat
  BY LimitsConstants DEF TypeOK
<1>2. CountNow(rate[t], RateWindow)' \in Nat
  BY <1>1 DEF CountNow, Entry
<1>3. CASE passed'[t] = 0 /\ lateRate'[t] = 0
  BY <1>1, <1>2, <1>3 DEF RateInv
<1>4. CASE passed'[t] = passed[t] /\ lateRate'[t] = lateRate[t] /\ Window(RateWindow)' = Window(RateWindow)
  BY <1>4 DEF RateInv, CountNow
<1>5. CASE now' = now /\ passed'[t] = passed[t] /\ lateRate'[t] = lateRate[t]
  BY <1>4, <1>5 DEF Window
<1>6. QED
  BY <1>3, <1>4, <1>5

\* A check of a call of this token, on time or late, let through or not.
LEMMA RateChecked ==
  ASSUME TypeOK, KeysOK, NEW p \in Call, RateCheck(p), NEW t \in Token, t = call[p].key, RateInv(t)
  PROVE  RateInv(t)'
<1> DEFINE w == call[p].window  e == EntryFor(rate[t], w)
           W == Window(RateWindow)
           n == CountNow(rate[t], RateWindow)  late == lateRate[t]
<1>1. t \in Token /\ w \in 0..MaxTime /\ rate[t] \in Entry /\ PerMin \in Nat
  BY LimitsConstants DEF RateCheck, KeysOK, TypeOK, Calls
<1>2. /\ passed[t] \in Nat /\ late \in Nat /\ rate[t].n \in Nat
      /\ W' = W
  BY <1>1 DEF TypeOK, Entry, RateCheck, Window
<1>3. e \in Entry /\ e.window = w /\ e.n = IF rate[t].window = w THEN rate[t].n ELSE 0
  BY <1>1, EntryForType
<1>4. Counted(e, w) \in Entry /\ Counted(e, w).window = w /\ Counted(e, w).n = e.n + 1
  <2>1. Counted(e, w) \in Entry /\ Counted(e, w).window = w /\ Counted(e, w).n = EntryFor(e, w).n + 1
    BY <1>1, <1>3, EntryForType
  <2>2. EntryFor(e, w) = e
    BY <1>3 DEF EntryFor
  <2>3. QED
    BY <2>1, <2>2
<1>5. rate'[t] = (IF Over(e) THEN e ELSE Counted(e, w)) /\ e.n \in Nat /\ e.n <= PerMin
  BY <1>1, <1>2, <1>3 DEF RateCheck, TypeOK, RateInv
<1>6. passed'[t] = IF Over(e) THEN passed[t] ELSE passed[t] + 1
  <2>1. passed' = IF Over(e) THEN passed ELSE [passed EXCEPT ![t] = @ + 1]
    BY DEF RateCheck
  <2>2. QED
    BY <1>1, <2>1 DEF TypeOK
<1>7. lateRate'[t] = IF w = W THEN late ELSE late + 1
  BY <1>1, LateEffect DEF RateCheck, TypeOK
<1>8. rate'[t].window = w /\ rate'[t].n = IF Over(e) THEN e.n ELSE e.n + 1
  BY <1>3, <1>4, <1>5
<1>9. rate'[t].n <= PerMin
  BY <1>1, <1>5, <1>8 DEF Over
<1>10. /\ late * (PerMin + 1) \in Nat
       /\ (late + 1) * (PerMin + 1) = late * (PerMin + 1) + (PerMin + 1)
  BY <1>1, <1>2, OneMore
<1>11. passed[t] <= late * (PerMin + 1) + n /\ n \in Nat /\ n <= PerMin
  BY <1>1, <1>2 DEF RateInv, CountNow
<1>12. passed'[t] <= lateRate'[t] * (PerMin + 1) + CountNow(rate[t], RateWindow)'
  <2>1. CASE w = W
    <3>1. e.n = n /\ CountNow(rate[t], RateWindow)' = rate'[t].n
      BY <1>2, <1>3, <1>8, <2>1 DEF CountNow
    <3>2. CASE Over(e)
      BY <1>6, <1>7, <1>8, <1>11, <2>1, <3>1, <3>2
    <3>3. CASE ~Over(e)
      BY <1>2, <1>6, <1>7, <1>8, <1>10, <1>11, <2>1, <3>1, <3>3
    <3>4. QED
      BY <3>2, <3>3
  <2>2. CASE w # W
    <3>1. lateRate'[t] * (PerMin + 1) = late * (PerMin + 1) + (PerMin + 1)
      BY <1>7, <1>10, <2>2
    <3>2. CountNow(rate[t], RateWindow)' = 0
      BY <1>2, <1>8, <2>2 DEF CountNow
    <3>3. passed'[t] <= passed[t] + 1
      BY <1>2, <1>6
    <3>4. QED
      BY <1>1, <1>2, <1>6, <1>10, <1>11, <3>1, <3>2, <3>3
  <2>3. QED
    BY <2>1, <2>2
<1>13. QED
  BY <1>9, <1>12 DEF RateInv

\* Every step keeps the account of a token.
LEMMA RateStep ==
  ASSUME TypeOK, KeysOK, [Next]_vars, NEW t \in Token, RateInv(t)
  PROVE  RateInv(t)'
<1>1. ASSUME NEW p \in Call, RateCheck(p) PROVE RateInv(t)'
  <2>1. CASE t = call[p].key
    BY <1>1, <2>1, RateChecked
  <2>2. CASE t # call[p].key
    <3>1. call[p].key \in Token
      BY <1>1 DEF RateCheck, KeysOK
    <3>2. rate'[t] = rate[t] /\ now' = now
      BY <1>1, <2>2, <3>1 DEF RateCheck, TypeOK
    <3>3. passed'[t] = passed[t]
      BY <1>1, <2>2, <3>1 DEF RateCheck, TypeOK
    <3>4. lateRate'[t] = lateRate[t]
      BY <1>1, <2>2, <3>1, LateEffect DEF RateCheck, TypeOK
    <3>5. QED
      BY <3>2, <3>3, <3>4, RateKept
  <2>3. QED
    BY <2>1, <2>2
<1>2. ASSUME NEW n \in Nat, ClockTo(n), UNCHANGED maps PROVE RateInv(t)'
  <2>1. CASE n - (n % RateWindow) = Window(RateWindow)
    <3>1. Window(RateWindow)' = Window(RateWindow)
      BY <1>2, <2>1 DEF ClockTo, Window
    <3>2. passed' = passed /\ lateRate' = lateRate
      BY <1>2, <2>1 DEF ClockTo
    <3>3. QED
      BY <1>2, <3>1, <3>2, RateKept DEF maps
  <2>2. CASE n - (n % RateWindow) # Window(RateWindow)
    <3>1. passed'[t] = 0 /\ lateRate'[t] = 0
      BY <1>2, <2>2 DEF ClockTo, TypeOK
    <3>2. QED
      BY <1>2, <3>1, RateKept DEF maps
  <2>3. QED
    BY <2>1, <2>2
<1>3. CASE ClockAdvance
  BY <1>2, <1>3 DEF ClockAdvance, TypeOK
<1>4. CASE ClockBack
  BY <1>2, <1>4 DEF ClockBack, TypeOK
<1>5. CASE Restart
  <2>1. rate'[t] = NoEntry /\ passed'[t] = 0 /\ lateRate'[t] = 0 /\ PerMin \in Nat
    BY <1>5, LimitsConstants DEF Restart
  <2>2. CountNow(rate[t], RateWindow)' = 0
    BY <2>1 DEF CountNow, NoEntry
  <2>3. QED
    BY <2>1, <2>2 DEF RateInv, NoEntry
<1>6. CASE UNCHANGED <<now, rate, passed, lateRate>>
  BY <1>6, RateKept
<1>7. QED
  BY <1>1, <1>3, <1>4, <1>5, <1>6
     DEF Next, RateClock, LoginClock, LoginCheck, Verify, Disconnect, CountClock, CountFailed,
         vars, maps, rateHistory, loginHistory

\* A daemon that has just started has let nothing through.
LEMMA InitRate == Init => \A t \in Token : RateInv(t)
  BY LimitsConstants DEF Init, RateInv, CountNow, NoEntry

\* However calls interleave, and whenever the clock is read and set: no more
\* calls of a token pass in one window than its limit, and a fresh limit and one
\* for each call that checked in it with a clock read outside (state.rs:217-230).
THEOREM LimitHolds == Spec => []RateHolds
<1> DEFINE Inv == TypeOK /\ KeysOK /\ \A t \in Token : RateInv(t)
<1>1. Init => Inv
  BY InitTypeOK, InitRate
<1>2. Inv /\ [Next]_vars => Inv'
  BY NextTypeOK, RateStep
<1>3. Inv => RateHolds
  <2> SUFFICES ASSUME Inv, NEW t \in Token
               PROVE  passed[t] <= (lateRate[t] + 1) * PerMin + lateRate[t]
    BY DEF RateHolds
  <2>1. lateRate[t] \in Nat /\ passed[t] \in Nat /\ PerMin \in Nat /\ rate[t].n \in Nat
    BY LimitsConstants DEF TypeOK, Entry
  <2>2. passed[t] <= lateRate[t] * (PerMin + 1) + PerMin
    BY <2>1 DEF RateInv, CountNow
  <2>3. lateRate[t] * (PerMin + 1) + PerMin = (lateRate[t] + 1) * PerMin + lateRate[t]
    BY <2>1
  <2>4. QED
    BY <2>2, <2>3
<1>4. QED
  BY <1>1, <1>2, <1>3, PTL DEF Spec

------------------------------------------------------------------------------
(* Wrong passphrases per client.                                             *)

\* Two groups of calls that share none are no more than all calls.
LEMMA Groups ==
  ASSUME NEW V \in SUBSET Call, NEW U \in SUBSET Call, V \cap U = {}
  PROVE  /\ IsFiniteSet(V) /\ IsFiniteSet(U)
         /\ Cardinality(V) \in Nat /\ Cardinality(U) \in Nat /\ Cardinality(Call) \in Nat
         /\ Cardinality(V) + Cardinality(U) <= Cardinality(Call)
<1>1. IsFiniteSet(Call) /\ IsFiniteSet(V) /\ IsFiniteSet(U)
  BY FS_Subset, LimitsConstants
<1>2. Cardinality(V) \in Nat /\ Cardinality(U) \in Nat /\ Cardinality(Call) \in Nat
  BY <1>1, FS_CardinalityType
<1>3. Cardinality(V \cap U) = 0
  BY FS_EmptySet
<1>4. Cardinality(V \cup U) = Cardinality(V) + Cardinality(U)
  <2>1. Cardinality(V \cup U) = Cardinality(V) + Cardinality(U) - Cardinality(V \cap U)
    BY <1>1, FS_Union
  <2>2. QED
    BY <1>2, <1>3, <2>1
<1>5. V \cup U \in SUBSET Call
  OBVIOUS
<1>6. Cardinality(V \cup U) <= Cardinality(Call)
  BY <1>1, <1>5, FS_Subset
<1>7. QED
  BY <1>1, <1>2, <1>4, <1>6

\* Calls at work for a client are calls, and no call is at two places.
LEMMA AtWork ==
  ASSUME NEW c \in Client
  PROVE  /\ IsFiniteSet(Verifying(c)) /\ IsFiniteSet(Uncounted(c))
         /\ Cardinality(Verifying(c)) \in Nat /\ Cardinality(Uncounted(c)) \in Nat
         /\ Cardinality(Call) \in Nat
         /\ Cardinality(Verifying(c)) + Cardinality(Uncounted(c)) <= Cardinality(Call)
<1>1. Verifying(c) \subseteq Call /\ Uncounted(c) \subseteq Call /\ Verifying(c) \cap Uncounted(c) = {}
  BY DEF Verifying, Uncounted
<1>2. QED
  BY <1>1, Groups

\* One call joins or leaves.
LEMMA OneCall ==
  ASSUME NEW S, IsFiniteSet(S), NEW p
  PROVE  /\ p \notin S => Cardinality(S \cup {p}) = Cardinality(S) + 1
         /\ p \in S => Cardinality(S \ {p}) = Cardinality(S) - 1
  BY FS_AddElement, FS_RemoveElement

\* Where a call that moves is to be found, and that the others stay.
LEMMA WhoIsWhere ==
  ASSUME NEW p \in Call, NEW c \in Client, \A q \in Call \ {p} : call'[q] = call[q]
  PROVE  /\ Verifying(c)' = IF call'[p].pc = "verify" /\ call'[p].key = c
                              THEN Verifying(c) \cup {p} ELSE Verifying(c) \ {p}
         /\ Uncounted(c)' = IF call'[p].pc \in {"wrong", "count"} /\ call'[p].key = c
                              THEN Uncounted(c) \cup {p} ELSE Uncounted(c) \ {p}
  BY DEF Verifying, Uncounted

\* There is room for every call and one failure.
LEMMA MostType == Most \in Nat /\ Cardinality(Call) <= Most
  BY FS_CardinalityType, LimitsConstants DEF Most

\* What holds of a client goes on to hold while none of its calls comes nearer to
\* a count, and begins anew with a window.
LEMMA LoginKept ==
  ASSUME TypeOK, NEW c \in Client, LoginInv(c), failures'[c] = failures[c],
         \/ /\ now' = now \/ Window(LoginWindow)' = Window(LoginWindow)
            /\ tried'[c] = tried[c] /\ lateLogin'[c] = lateLogin[c] /\ unheard'[c] = unheard[c]
            /\ Cardinality(Uncounted(c))' = Cardinality(Uncounted(c))
            /\ Cardinality(Verifying(c))' <= Cardinality(Verifying(c))
         \/ tried'[c] = 0 /\ lateLogin'[c] = 0 /\ unheard'[c] = 0
  PROVE  LoginInv(c)'
<1>1. failures[c] \in Entry /\ tried[c] \in Nat /\ lateLogin[c] \in Nat /\ unheard[c] \in Nat
  BY DEF TypeOK
<1>2. CountNow(failures[c], LoginWindow)' \in Nat
  BY <1>1 DEF CountNow, Entry
<1>3. /\ Cardinality(Verifying(c)) \in Nat /\ Cardinality(Uncounted(c)) \in Nat
      /\ Cardinality(Verifying(c))' \in Nat /\ Cardinality(Uncounted(c))' \in Nat
      /\ Cardinality(Verifying(c))' <= Cardinality(Call)
      /\ Most \in Nat /\ Cardinality(Call) \in Nat /\ Cardinality(Call) <= Most
  <2>1. Verifying(c)' \subseteq Call /\ Uncounted(c)' \subseteq Call /\ Verifying(c)' \cap Uncounted(c)' = {}
    BY DEF Verifying, Uncounted
  <2>2. /\ Cardinality(Verifying(c))' \in Nat /\ Cardinality(Uncounted(c))' \in Nat
        /\ Cardinality(Verifying(c))' + Cardinality(Uncounted(c))' <= Cardinality(Call)
    BY <2>1, Groups
  <2>3. QED
    BY <2>2, AtWork, MostType
<1>4. CASE tried'[c] = 0 /\ lateLogin'[c] = 0 /\ unheard'[c] = 0
  BY <1>1, <1>2, <1>3, <1>4 DEF LoginInv
<1>5. CASE /\ now' = now \/ Window(LoginWindow)' = Window(LoginWindow)
           /\ tried'[c] = tried[c] /\ lateLogin'[c] = lateLogin[c] /\ unheard'[c] = unheard[c]
           /\ Cardinality(Uncounted(c))' = Cardinality(Uncounted(c))
           /\ Cardinality(Verifying(c))' <= Cardinality(Verifying(c))
  <2>1. CountNow(failures[c], LoginWindow)' = CountNow(failures[c], LoginWindow)
    BY <1>5 DEF CountNow, Window
  <2>2. /\ (lateLogin[c] + 1) * Most \in Nat
        /\ tried[c] + Cardinality(Verifying(c)) <= (lateLogin[c] + 1) * Most + unheard[c]
    BY <1>1, <1>3, OneMore DEF LoginInv
  <2>3. tried'[c] + Cardinality(Verifying(c))' <= (lateLogin'[c] + 1) * Most + unheard'[c]
    BY <1>1, <1>3, <1>5, <2>2
  <2>4. tried'[c] <= lateLogin'[c] * Most + CountNow(failures[c], LoginWindow)' + Cardinality(Uncounted(c))'
                       + unheard'[c]
    BY <1>5, <2>1 DEF LoginInv
  <2>5. QED
    BY <2>3, <2>4 DEF LoginInv
<1>6. QED
  BY <1>4, <1>5

\* A call that is not between check and count, before and after, changes nothing
\* for a client.
LEMMA LoginAside ==
  ASSUME TypeOK, NEW p \in Call, NEW c \in Client, LoginInv(c),
         \A q \in Call \ {p} : call'[q] = call[q],
         UNCHANGED <<now, failures, tried, lateLogin, unheard>>,
         p \in Verifying(c)' <=> p \in Verifying(c),
         p \in Uncounted(c)' <=> p \in Uncounted(c)
  PROVE  LoginInv(c)'
<1>1. Verifying(c)' = Verifying(c) /\ Uncounted(c)' = Uncounted(c)
  BY DEF Verifying, Uncounted
<1>2. Cardinality(Verifying(c)) \in Nat
  BY AtWork
<1>3. QED
  BY <1>1, <1>2, LoginKept

\* A check lets a call in only when there was room, or is late.
LEMMA LoginChecked ==
  ASSUME TypeOK, KeysOK, NEW p \in Call, LoginCheck(p), NEW c \in Client, LoginInv(c)
  PROVE  LoginInv(c)'
<1> DEFINE key == call[p].key  w == call[p].window
           V == Cardinality(Verifying(c))  U == Cardinality(Uncounted(c))
           n == CountNow(failures[c], LoginWindow)
<1>1. key \in Client /\ w \in 0..MaxTime
  BY DEF LoginCheck, KeysOK, TypeOK, Calls, LoginPcs
<1>2. /\ failures[c] \in Entry /\ tried[c] \in Nat /\ lateLogin[c] \in Nat /\ n \in Nat
      /\ unheard[c] \in Nat /\ unheard'[c] = unheard[c]
      /\ failures'[c] = failures[c] /\ tried'[c] = tried[c]
      /\ now' = now /\ Window(LoginWindow)' = Window(LoginWindow)
  BY DEF TypeOK, LoginCheck, maps, CountNow, Entry, Window
<1>3. /\ IsFiniteSet(Verifying(c)) /\ V \in Nat /\ U \in Nat /\ Most \in Nat /\ Most # 0
      /\ V + U <= Cardinality(Call) /\ Cardinality(Call) \in Nat /\ Attempts \in Nat \ {0}
      /\ Cardinality(Call) <= Most
  <2>1. Cardinality(Call) # 0
    BY FS_EmptySet, LimitsConstants
  <2>2. QED
    BY <2>1, AtWork, MostType, Lengths
<1>4. /\ \A q \in Call \ {p} : call'[q] = call[q]
      /\ call'[p].pc = (IF Allowed(key, w) THEN "verify" ELSE "idle")
      /\ Allowed(key, w) => call'[p].key = key
  <2>1. CASE Allowed(key, w)
    BY <1>1, <2>1, MoveEffect, LimitsConstants DEF LoginCheck, Pcs
  <2>2. CASE ~Allowed(key, w)
    BY <2>2, FinishEffect DEF LoginCheck
  <2>3. QED
    BY <2>1, <2>2
<1>5. p \notin Verifying(c) /\ p \notin Uncounted(c)
  BY DEF LoginCheck, Verifying, Uncounted
<1>6. Uncounted(c)' = Uncounted(c)
  BY <1>4, <1>5, WhoIsWhere
<1>7. CASE c # key \/ ~Allowed(key, w)
  <2>1. Verifying(c)' = Verifying(c)
    BY <1>4, <1>5, <1>7, WhoIsWhere
  <2>2. CASE lateLogin'[c] = lateLogin[c]
    BY <1>2, <1>3, <1>6, <2>1, <2>2, LoginKept
  <2>3. CASE lateLogin'[c] = lateLogin[c] + 1
    <3>1. lateLogin'[c] * Most = lateLogin[c] * Most + Most /\ lateLogin[c] * Most \in Nat
      BY <1>2, <1>3, <2>3, OneMore
    <3>2. (lateLogin'[c] + 1) * Most = (lateLogin[c] + 1) * Most + Most /\ (lateLogin[c] + 1) * Most \in Nat
      BY <1>2, <1>3, <2>3, OneMore
    <3>3. CountNow(failures[c], LoginWindow)' = n
      BY <1>2 DEF CountNow
    <3>4. QED
      BY <1>2, <1>3, <1>6, <2>1, <3>1, <3>2, <3>3 DEF LoginInv
  <2>4. lateLogin'[c] \in {lateLogin[c], lateLogin[c] + 1}
    BY <1>1, LateEffect DEF LoginCheck, TypeOK
  <2>5. QED
    BY <2>2, <2>3, <2>4
<1>8. CASE c = key /\ Allowed(key, w)
  <2>1. Cardinality(Verifying(c))' = V + 1
    BY <1>3, <1>4, <1>5, <1>8, WhoIsWhere, OneCall
  <2>2. CountNow(failures[c], LoginWindow)' = n
    BY <1>2 DEF CountNow
  <2>3. V + U + 1 <= Cardinality(Call)
    <3>1. Verifying(c)' \subseteq Call /\ Uncounted(c)' \subseteq Call /\ Verifying(c)' \cap Uncounted(c)' = {}
      BY DEF Verifying, Uncounted
    <3>2. QED
      BY <1>3, <1>6, <2>1, <3>1, Groups
  <2>4. lateLogin[c] * Most \in Nat /\ (lateLogin[c] + 1) * Most = lateLogin[c] * Most + Most
    BY <1>2, <1>3, OneMore
  <2>5. CASE w = Window(LoginWindow)
    <3>1. lateLogin'[c] = lateLogin[c]
      BY <1>8, <2>5, LateEffect DEF LoginCheck, TypeOK
    <3>2. n <= Attempts - 1
      BY <1>2, <1>3, <1>8, <2>5 DEF Allowed, CountNow, Entry
    <3>3. tried[c] + V + 1 <= (lateLogin[c] + 1) * Most + unheard[c]
      BY <1>2, <1>3, <2>3, <2>4, <3>2 DEF LoginInv, Most
    <3>4. QED
      BY <1>2, <1>3, <1>6, <2>1, <2>2, <3>1, <3>3 DEF LoginInv
  <2>6. CASE w # Window(LoginWindow)
    <3>1. lateLogin'[c] = lateLogin[c] + 1
      BY <1>8, <2>6, LateEffect DEF LoginCheck, TypeOK
    <3>2. (lateLogin'[c] + 1) * Most = (lateLogin[c] + 1) * Most + Most /\ (lateLogin[c] + 1) * Most \in Nat
      BY <1>2, <1>3, <3>1, OneMore
    <3>3. lateLogin'[c] * Most = lateLogin[c] * Most + Most
      BY <2>4, <3>1
    <3>4. QED
      BY <1>2, <1>3, <1>6, <2>1, <2>2, <2>4, <3>2, <3>3 DEF LoginInv
  <2>7. QED
    BY <2>5, <2>6
<1>9. QED
  BY <1>7, <1>8

\* A wrong passphrase is on its way to the count.
LEMMA LoginVerified ==
  ASSUME TypeOK, KeysOK, NEW p \in Call, Verify(p), NEW c \in Client, LoginInv(c)
  PROVE  LoginInv(c)'
<1> DEFINE key == call[p].key
           V == Cardinality(Verifying(c))  U == Cardinality(Uncounted(c))
           n == CountNow(failures[c], LoginWindow)
<1>1. key \in Client
  BY DEF Verify, KeysOK, LoginPcs
<1>2. /\ failures[c] \in Entry /\ tried[c] \in Nat /\ lateLogin[c] \in Nat /\ n \in Nat
      /\ unheard[c] \in Nat /\ unheard'[c] = unheard[c]
      /\ failures'[c] = failures[c] /\ lateLogin'[c] = lateLogin[c] /\ now' = now
  BY DEF TypeOK, Verify, maps, CountNow, Entry
<1>3. /\ IsFiniteSet(Verifying(c)) /\ IsFiniteSet(Uncounted(c)) /\ V \in Nat /\ U \in Nat
  BY AtWork
<1>4. p \notin Uncounted(c) /\ (c = key => p \in Verifying(c)) /\ (c # key => p \notin Verifying(c))
  BY DEF Verify, Verifying, Uncounted
<1>5. CASE Finish(p) /\ UNCHANGED tried
  <2>1. call'[p].pc = "idle" /\ \A q \in Call \ {p} : call'[q] = call[q]
    BY <1>5, FinishEffect
  <2>2. Uncounted(c)' = Uncounted(c) /\ Verifying(c)' = Verifying(c) \ {p}
    BY <1>4, <2>1, WhoIsWhere
  <2>3. Cardinality(Verifying(c))' <= V
    BY <1>3, <2>2, FS_RemoveElement
  <2>4. QED
    BY <1>2, <1>5, <2>2, <2>3, LoginKept
<1>6. CASE Move(p, "wrong", key, 0) /\ tried' = [tried EXCEPT ![key] = @ + 1]
  <2>1. call'[p].pc = "wrong" /\ call'[p].key = key /\ \A q \in Call \ {p} : call'[q] = call[q]
    BY <1>1, <1>6, MoveEffect, LimitsConstants DEF Pcs
  <2>2. CASE c # key
    <3>1. Uncounted(c)' = Uncounted(c) /\ Verifying(c)' = Verifying(c)
      BY <1>4, <2>1, <2>2, WhoIsWhere
    <3>2. tried'[c] = tried[c]
      BY <1>6, <2>2 DEF TypeOK
    <3>3. QED
      BY <1>2, <1>3, <3>1, <3>2, LoginKept
  <2>3. CASE c = key
    <3>1. Cardinality(Uncounted(c))' = U + 1 /\ Cardinality(Verifying(c))' = V - 1
      BY <1>3, <1>4, <2>1, <2>3, WhoIsWhere, OneCall
    <3>2. tried'[c] = tried[c] + 1
      BY <1>6, <2>3 DEF TypeOK
    <3>3. CountNow(failures[c], LoginWindow)' = n
      BY <1>2 DEF CountNow, Window
    <3>4. lateLogin[c] * Most \in Nat /\ (lateLogin[c] + 1) * Most \in Nat
      BY <1>2, MostType, OneMore
    <3>5. QED
      BY <1>2, <1>3, <3>1, <3>2, <3>3, <3>4 DEF LoginInv
  <2>4. QED
    BY <2>2, <2>3
<1>7. QED
  BY <1>5, <1>6 DEF Verify

\* A verdict whose handler is gone is on the account of those.
LEMMA LoginLeft ==
  ASSUME TypeOK, KeysOK, NEW p \in Call, Disconnect(p), NEW c \in Client, LoginInv(c)
  PROVE  LoginInv(c)'
<1> DEFINE key == call[p].key
           V == Cardinality(Verifying(c))  U == Cardinality(Uncounted(c))
           n == CountNow(failures[c], LoginWindow)
<1>1. key \in Client
  BY DEF Disconnect, KeysOK, LoginPcs
<1>2. /\ failures[c] \in Entry /\ tried[c] \in Nat /\ lateLogin[c] \in Nat /\ n \in Nat
      /\ unheard[c] \in Nat /\ tried'[c] = tried[c]
      /\ failures'[c] = failures[c] /\ lateLogin'[c] = lateLogin[c] /\ now' = now
  BY DEF TypeOK, Disconnect, maps, CountNow, Entry
<1>3. /\ IsFiniteSet(Verifying(c)) /\ IsFiniteSet(Uncounted(c)) /\ V \in Nat /\ U \in Nat
  BY AtWork
<1>4. p \notin Verifying(c) /\ (c = key => p \in Uncounted(c)) /\ (c # key => p \notin Uncounted(c))
  BY DEF Disconnect, Verifying, Uncounted
<1>5. call'[p].pc = "idle" /\ \A q \in Call \ {p} : call'[q] = call[q]
  BY FinishEffect DEF Disconnect
<1>6. Verifying(c)' = Verifying(c) /\ Uncounted(c)' = Uncounted(c) \ {p}
  BY <1>4, <1>5, WhoIsWhere
<1>7. CASE c # key
  <2>1. unheard'[c] = unheard[c]
    BY <1>1, <1>7 DEF Disconnect, TypeOK
  <2>2. Uncounted(c)' = Uncounted(c)
    BY <1>4, <1>6, <1>7
  <2>3. QED
    BY <1>2, <1>3, <1>6, <2>1, <2>2, LoginKept
<1>8. CASE c = key
  <2>1. Cardinality(Uncounted(c))' = U - 1 /\ Cardinality(Verifying(c))' = V
    BY <1>3, <1>4, <1>6, <1>8, OneCall
  <2>2. unheard'[c] = unheard[c] + 1
    BY <1>8 DEF Disconnect, TypeOK
  <2>3. CountNow(failures[c], LoginWindow)' = n
    BY <1>2 DEF CountNow, Window
  <2>4. lateLogin[c] * Most \in Nat /\ (lateLogin[c] + 1) * Most \in Nat
    BY <1>2, MostType, OneMore
  <2>5. QED
    BY <1>2, <1>3, <2>1, <2>2, <2>3, <2>4 DEF LoginInv
<1>9. QED
  BY <1>7, <1>8

\* A failure is counted; one that is counted late may undo the count.
LEMMA LoginCounted ==
  ASSUME TypeOK, KeysOK, NEW p \in Call, CountFailed(p), NEW c \in Client, LoginInv(c)
  PROVE  LoginInv(c)'
<1> DEFINE key == call[p].key  w == call[p].window
           V == Cardinality(Verifying(c))  U == Cardinality(Uncounted(c))
           n == CountNow(failures[c], LoginWindow)
<1>1. key \in Client /\ w \in 0..MaxTime
  BY DEF CountFailed, KeysOK, LoginPcs, TypeOK, Calls
<1>2. /\ failures[c] \in Entry /\ tried[c] \in Nat /\ lateLogin[c] \in Nat /\ n \in Nat
      /\ unheard[c] \in Nat /\ unheard'[c] = unheard[c]
      /\ tried'[c] = tried[c] /\ now' = now /\ Window(LoginWindow)' = Window(LoginWindow)
  BY DEF TypeOK, CountFailed, CountNow, Entry, Window
<1>3. /\ IsFiniteSet(Verifying(c)) /\ IsFiniteSet(Uncounted(c)) /\ V \in Nat /\ U \in Nat
      /\ Most \in Nat
  BY AtWork, MostType
<1>4. p \notin Verifying(c) /\ (c = key => p \in Uncounted(c)) /\ (c # key => p \notin Uncounted(c))
  BY DEF CountFailed, Verifying, Uncounted
<1>5. call'[p].pc = "idle" /\ \A q \in Call \ {p} : call'[q] = call[q]
  BY FinishEffect DEF CountFailed
<1>6. Verifying(c)' = Verifying(c) /\ Uncounted(c)' = Uncounted(c) \ {p}
  BY <1>4, <1>5, WhoIsWhere
<1>7. CASE c # key
  <2>1. Uncounted(c)' = Uncounted(c)
    BY <1>4, <1>6, <1>7
  <2>2. failures'[c] = failures[c]
    BY <1>1, <1>7 DEF CountFailed, TypeOK
  <2>3. lateLogin'[c] = lateLogin[c]
    BY <1>1, <1>7, LateEffect DEF CountFailed, TypeOK
  <2>4. QED
    BY <1>2, <1>3, <1>6, <2>1, <2>2, <2>3, LoginKept
<1>8. CASE c = key
  <2>1. Cardinality(Uncounted(c))' = U - 1 /\ U >= 1 /\ Cardinality(Verifying(c))' = V
    <3>1. Cardinality(Uncounted(c))' = U - 1
      BY <1>3, <1>4, <1>6, <1>8, OneCall
    <3>2. U # 0
      BY <1>3, <1>4, <1>8, FS_EmptySet
    <3>3. QED
      BY <1>3, <1>6, <3>1, <3>2
  <2>2. failures'[c] = Counted(failures[c], w)
    BY <1>8 DEF CountFailed, FailureCounted, TypeOK
  <2>3. /\ failures'[c].window = w
        /\ failures'[c].n = (IF failures[c].window = w THEN failures[c].n ELSE 0) + 1
    <3>1. /\ Counted(failures[c], w).window = w
          /\ Counted(failures[c], w).n = EntryFor(failures[c], w).n + 1
          /\ EntryFor(failures[c], w).n = IF failures[c].window = w THEN failures[c].n ELSE 0
      BY <1>1, <1>2, EntryForType, Zenon
    <3>2. QED
      BY <2>2, <3>1
  <2>4. /\ lateLogin[c] * Most \in Nat
        /\ (lateLogin[c] + 1) * Most = lateLogin[c] * Most + Most
    BY <1>2, <1>3, OneMore
  <2>5. CASE w = Window(LoginWindow)
    <3>1. lateLogin'[c] = lateLogin[c]
      BY <1>8, <2>5, LateEffect DEF CountFailed, TypeOK
    <3>2. CountNow(failures[c], LoginWindow)' = n + 1
      BY <1>2, <2>3, <2>5 DEF CountNow
    <3>3. QED
      BY <1>2, <1>3, <2>1, <2>4, <3>1, <3>2 DEF LoginInv
  <2>6. CASE w # Window(LoginWindow)
    <3>1. lateLogin'[c] = lateLogin[c] + 1
      BY <1>8, <2>6, LateEffect DEF CountFailed, TypeOK
    <3>2. CountNow(failures[c], LoginWindow)' = 0
      BY <1>2, <2>3, <2>6 DEF CountNow
    <3>3. (lateLogin'[c] + 1) * Most = (lateLogin[c] + 1) * Most + Most /\ (lateLogin[c] + 1) * Most \in Nat
      BY <1>2, <1>3, <3>1, OneMore
    <3>4. QED
      BY <1>2, <1>3, <2>1, <2>4, <3>1, <3>2, <3>3 DEF LoginInv
  <2>7. QED
    BY <2>5, <2>6
<1>9. QED
  BY <1>7, <1>8

\* Every step keeps the account of a client.
LEMMA LoginStep ==
  ASSUME TypeOK, KeysOK, [Next]_vars, NEW c \in Client, LoginInv(c)
  PROVE  LoginInv(c)'
<1>1. ASSUME NEW p \in Call, NEW t \in Token, RateClock(p, t) PROVE LoginInv(c)'
  <2>1. call'[p].pc = "rate" /\ \A q \in Call \ {p} : call'[q] = call[q]
    BY <1>1, WindowType, Lengths, MoveEffect DEF RateClock, Pcs
  <2>2. QED
    BY <1>1, <2>1, LoginAside DEF RateClock, maps, loginHistory, Verifying, Uncounted
<1>2. ASSUME NEW p \in Call, NEW d \in Client, LoginClock(p, d) PROVE LoginInv(c)'
  <2>1. call'[p].pc = "login" /\ \A q \in Call \ {p} : call'[q] = call[q]
    BY <1>2, WindowType, Lengths, MoveEffect DEF LoginClock, Pcs
  <2>2. QED
    BY <1>2, <2>1, LoginAside DEF LoginClock, maps, loginHistory, Verifying, Uncounted
<1>3. ASSUME NEW p \in Call, RateCheck(p) PROVE LoginInv(c)'
  <2>1. call[p].pc = "rate" /\ call'[p].pc = "idle" /\ \A q \in Call \ {p} : call'[q] = call[q]
    BY <1>3, FinishEffect DEF RateCheck
  <2>2. UNCHANGED <<now, failures, tried, lateLogin, unheard>>
    BY <1>3 DEF RateCheck, loginHistory
  <2>3. QED
    BY <2>1, <2>2, LoginAside DEF Verifying, Uncounted
<1>4. ASSUME NEW p \in Call, CountClock(p) PROVE LoginInv(c)'
  <2>1. call[p].key \in Client /\ call[p].pc = "wrong"
    BY <1>4 DEF CountClock, KeysOK, LoginPcs
  <2>2. /\ call'[p].pc = "count" /\ call'[p].key = call[p].key
        /\ \A q \in Call \ {p} : call'[q] = call[q]
    BY <1>4, <2>1, WindowType, Lengths, MoveEffect DEF CountClock, Pcs
  <2>3. QED
    BY <1>4, <2>1, <2>2, LoginAside DEF CountClock, maps, loginHistory, Verifying, Uncounted
<1>5. ASSUME NEW n \in Nat, ClockTo(n), UNCHANGED <<maps, call>> PROVE LoginInv(c)'
  <2>1. Verifying(c)' = Verifying(c) /\ Uncounted(c)' = Uncounted(c) /\ failures'[c] = failures[c]
    BY <1>5 DEF Verifying, Uncounted, maps
  <2>2. Cardinality(Verifying(c)) \in Nat
    BY AtWork
  <2>3. CASE n - (n % LoginWindow) = Window(LoginWindow)
    <3>1. Window(LoginWindow)' = Window(LoginWindow)
      BY <1>5, <2>3 DEF ClockTo, Window
    <3>2. tried' = tried /\ lateLogin' = lateLogin /\ unheard' = unheard
      BY <1>5, <2>3 DEF ClockTo
    <3>3. QED
      BY <2>1, <2>2, <3>1, <3>2, LoginKept
  <2>4. CASE n - (n % LoginWindow) # Window(LoginWindow)
    <3>1. tried'[c] = 0 /\ lateLogin'[c] = 0 /\ unheard'[c] = 0
      BY <1>5, <2>4 DEF ClockTo, TypeOK
    <3>2. QED
      BY <2>1, <3>1, LoginKept
  <2>5. QED
    BY <2>3, <2>4
<1>6. CASE ClockAdvance
  BY <1>5, <1>6 DEF ClockAdvance, TypeOK
<1>7. CASE ClockBack
  BY <1>5, <1>7 DEF ClockBack, TypeOK
<1>8. CASE Restart
  <2>1. failures'[c] = NoEntry /\ tried'[c] = 0 /\ lateLogin'[c] = 0 /\ unheard'[c] = 0
    BY <1>8 DEF Restart
  <2>2. Verifying(c)' = {} /\ Uncounted(c)' = {}
    BY <1>8 DEF Restart, Verifying, Uncounted, Idle
  <2>3. CountNow(failures[c], LoginWindow)' = 0
    BY <2>1 DEF CountNow, NoEntry
  <2>4. QED
    BY <2>1, <2>2, <2>3, MostType, FS_EmptySet DEF LoginInv
<1>9. CASE UNCHANGED vars
  <2>1. Verifying(c)' = Verifying(c) /\ Uncounted(c)' = Uncounted(c)
    BY <1>9 DEF vars, Verifying, Uncounted
  <2>2. Cardinality(Verifying(c)) \in Nat
    BY AtWork
  <2>3. QED
    BY <1>9, <2>1, <2>2, LoginKept DEF vars, maps, loginHistory
<1>10. QED
  BY <1>1, <1>2, <1>3, <1>4, <1>6, <1>7, <1>8, <1>9, LoginChecked, LoginVerified, LoginLeft,
     LoginCounted
     DEF Next

\* A daemon that has just started has tried nothing.
LEMMA InitLogin == Init => \A c \in Client : LoginInv(c)
<1> SUFFICES ASSUME Init, NEW c \in Client PROVE LoginInv(c)
  OBVIOUS
<1>1. Verifying(c) = {} /\ Uncounted(c) = {}
  BY DEF Init, Verifying, Uncounted, Idle
<1>2. failures[c] = NoEntry /\ tried[c] = 0 /\ lateLogin[c] = 0 /\ unheard[c] = 0
  BY DEF Init
<1>3. CountNow(failures[c], LoginWindow) = 0
  BY <1>2 DEF CountNow, NoEntry
<1>4. QED
  BY <1>1, <1>2, <1>3, MostType, FS_EmptySet DEF LoginInv

\* However logins overlap with each other and with the clock: no more wrong
\* passphrases of a client are verified in one window than the limit and the
\* calls at work allow, and as many again for each late check or count, and one
\* for each verdict its handler did not live to hear (state.rs:234-259,
\* human.rs:115-136).
THEOREM ThrottleHolds == Spec => []LoginHolds
<1> DEFINE Inv == TypeOK /\ KeysOK /\ \A c \in Client : LoginInv(c)
<1>1. Init => Inv
  BY InitTypeOK, InitLogin
<1>2. Inv /\ [Next]_vars => Inv'
  BY NextTypeOK, LoginStep
<1>3. Inv => LoginHolds
  <2> SUFFICES ASSUME Inv, NEW c \in Client
               PROVE  tried[c] <= (lateLogin[c] + 1) * (Attempts - 1 + Cardinality(Call)) + unheard[c]
    BY DEF LoginHolds
  <2>1. tried[c] \in Nat /\ lateLogin[c] \in Nat /\ unheard[c] \in Nat /\ Cardinality(Verifying(c)) \in Nat
    BY AtWork DEF TypeOK
  <2>2. (lateLogin[c] + 1) * Most \in Nat
    BY <2>1, MostType, OneMore
  <2>3. tried[c] <= (lateLogin[c] + 1) * Most + unheard[c]
    BY <2>1, <2>2 DEF LoginInv
  <2>4. QED
    BY <2>3 DEF Most
<1>4. QED
  BY <1>1, <1>2, <1>3, PTL DEF Spec
=============================================================================
