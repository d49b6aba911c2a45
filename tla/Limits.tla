------------------------------- MODULE Limits -------------------------------
(***************************************************************************)
(* The two limits the daemon keeps in memory: calls per token and minute   *)
(* (AppState::rate_check) and wrong passphrases per client and ten minutes *)
(* (login_allowed and login_failed around the verification on a blocking   *)
(* thread).  Both count in aligned windows, and both read the clock before *)
(* they take the lock of their map, so a call can come to its count when   *)
(* the window it read is over.  The handler of a login waits for the       *)
(* blocking thread at an await: when its client hangs up there, the thread *)
(* still verifies, and nobody counts what it finds.                        *)
(***************************************************************************)
EXTENDS Integers, FiniteSets

CONSTANTS
  Token,         \* tokens of agents
  Client,        \* keys of client_addr
  Call,          \* slots for calls being served at the same time
  PerMin,        \* TokenRecord::rate_limit_per_min
  RateWindow,    \* the 60 seconds of rate_check
  Attempts,      \* Config::login_attempts_per_10m
  LoginWindow,   \* the 600 seconds of login_allowed
  Nobody,        \* no key
  MaxTime,       \* bound: the clock stops here
  MaxBack,       \* bound: how often the clock is set back
  MaxLeft        \* bound: how often a client hangs up on a login in a window

ASSUME LimitsConstants ==
  /\ PerMin \in Nat /\ Attempts \in Nat \ {0}
  /\ RateWindow \in Nat \ {0} /\ LoginWindow \in Nat \ {0}
  /\ IsFiniteSet(Call)
  /\ Nobody \notin Token \cup Client
  /\ MaxTime \in Nat /\ MaxBack \in Nat /\ MaxLeft \in Nat

VARIABLES
  now,       \* AppState::now
  rate,      \* AppState::rate, a window and a count per token
  failures,  \* AppState::login_failures, the same per client
  call,      \* calls in progress
  back,      \* how often the clock was set back
  passed,    \* history: calls of a token let through since this window began
  lateRate,  \* history: rate checks since then on a clock read before it
  tried,     \* history: wrong passphrases of a client verified in this window
  lateLogin, \* history: login checks and counts on a clock read before it
  unheard    \* history: wrong ones since then that no handler waited to hear of

maps == <<rate, failures>>
rateHistory == <<passed, lateRate>>
loginHistory == <<tried, lateLogin, unheard>>
vars == <<now, maps, call, back, rateHistory, loginHistory>>

Entry == [window: 0..MaxTime, n: Nat]
Pcs == {"idle", "rate", "login", "verify", "wrong", "count"}
Calls == [pc: Pcs, key: Token \cup Client \cup {Nobody}, window: 0..MaxTime]
Idle == [pc |-> "idle", key |-> Nobody, window |-> 0]
NoEntry == [window |-> 0, n |-> 0]

TypeOK ==
  /\ now \in 0..MaxTime /\ back \in 0..MaxBack
  /\ rate \in [Token -> Entry] /\ failures \in [Client -> Entry]
  /\ call \in [Call -> Calls]
  /\ passed \in [Token -> Nat] /\ lateRate \in [Token -> Nat]
  /\ tried \in [Client -> Nat] /\ lateLogin \in [Client -> Nat]
  /\ unheard \in [Client -> Nat]

\* A daemon that has just started: no entry, which counts like an empty one.
Init ==
  /\ now = 0 /\ back = 0
  /\ rate = [t \in Token |-> NoEntry] /\ failures = [c \in Client |-> NoEntry]
  /\ call = [p \in Call |-> Idle]
  /\ passed = [t \in Token |-> 0] /\ lateRate = [t \in Token |-> 0]
  /\ tried = [c \in Client |-> 0] /\ lateLogin = [c \in Client |-> 0]
  /\ unheard = [c \in Client |-> 0]

------------------------------------------------------------------------------
\* Fault: the end of the window in place of its start.
Window_End(length) == now - (now % length) + length

\* now - now.rem_euclid(length).
Window(length) == now - (now % length)

\* or_insert, then a fresh count when the entry is of another window.
EntryFor(e, w) == IF e.window = w THEN e ELSE [window |-> w, n |-> 0]

Counted(e, w) == [EntryFor(e, w) EXCEPT !.n = @ + 1]

Move(p, pc, key, w) == call' = [call EXCEPT ![p] = [pc |-> pc, key |-> key, window |-> w]]
Finish(p) == call' = [call EXCEPT ![p] = Idle]

\* One more check on a clock that was read in another window.
Late(history, key, w, length) ==
  IF w = Window(length) THEN history ELSE [history EXCEPT ![key] = @ + 1]

------------------------------------------------------------------------------
(* Agent calls: require_live.                                                *)

RateClock(p, t) ==
  /\ call[p].pc = "idle"
  /\ Move(p, "rate", t, Window(RateWindow))
  /\ UNCHANGED <<now, maps, back, rateHistory, loginHistory>>

\* Fault: one more than the limit.
Over_OffByOne(e) == e.n > PerMin

Over(e) == e.n >= PerMin

\* The rest of rate_check, under the lock of the map.
RateCheck(p) ==
  LET t == call[p].key  w == call[p].window  e == EntryFor(rate[t], w) IN
  /\ call[p].pc = "rate"
  /\ rate' = [rate EXCEPT ![t] = IF Over(e) THEN e ELSE Counted(e, w)]
  /\ passed' = IF Over(e) THEN passed ELSE [passed EXCEPT ![t] = @ + 1]
  /\ lateRate' = Late(lateRate, t, w, RateWindow)
  /\ Finish(p)
  /\ UNCHANGED <<now, failures, back, loginHistory>>

------------------------------------------------------------------------------
(* Logins: the handler unseal.                                               *)

LoginClock(p, c) ==
  /\ call[p].pc = "idle"
  /\ Move(p, "login", c, Window(LoginWindow))
  /\ UNCHANGED <<now, maps, back, rateHistory, loginHistory>>

\* Fault: the window of the entry is not looked at.
Allowed_Ever(c, w) == failures[c].n < Attempts

\* login_allowed, with the window it read.
Allowed(c, w) == failures[c].window = w => failures[c].n < Attempts

LoginCheck(p) ==
  LET c == call[p].key  w == call[p].window IN
  /\ call[p].pc = "login"
  /\ IF Allowed(c, w) THEN Move(p, "verify", c, 0) ELSE Finish(p)
  /\ lateLogin' = Late(lateLogin, c, w, LoginWindow)
  /\ UNCHANGED <<now, maps, back, rateHistory, tried, unheard>>

\* The blocking thread verifies the passphrase: right, or an error that is not
\* about the passphrase, or wrong.
Verify(p) ==
  LET c == call[p].key IN
  /\ call[p].pc = "verify"
  /\ \/ Finish(p) /\ UNCHANGED tried
     \/ Move(p, "wrong", c, 0) /\ tried' = [tried EXCEPT ![c] = @ + 1]
  /\ UNCHANGED <<now, maps, back, rateHistory, lateLogin, unheard>>

\* The client has hung up while the handler waited for the blocking thread: the
\* thread has verified all the same, and the handler does not get its turn.
Disconnect(p) ==
  LET c == call[p].key IN
  /\ call[p].pc = "wrong" /\ unheard[c] < MaxLeft
  /\ unheard' = [unheard EXCEPT ![c] = @ + 1]
  /\ Finish(p)
  /\ UNCHANGED <<now, maps, back, rateHistory, tried, lateLogin>>

\* login_failed reads the clock again,
CountClock(p) ==
  /\ call[p].pc = "wrong"
  /\ Move(p, "count", call[p].key, Window(LoginWindow))
  /\ UNCHANGED <<now, maps, back, rateHistory, loginHistory>>

\* Fault: nothing is counted in a window that has an entry already.
FailureCounted_Once(e, w) == IF e.window = w /\ e.n > 0 THEN e ELSE Counted(e, w)

FailureCounted(e, w) == Counted(e, w)

\* and counts under the lock of the map.
CountFailed(p) ==
  LET c == call[p].key  w == call[p].window IN
  /\ call[p].pc = "count"
  /\ failures' = [failures EXCEPT ![c] = FailureCounted(@, w)]
  /\ lateLogin' = Late(lateLogin, c, w, LoginWindow)
  /\ Finish(p)
  /\ UNCHANGED <<now, rate, back, rateHistory, tried, unheard>>

------------------------------------------------------------------------------
(* The clock, and a restart, which forgets both maps.                        *)

\* The histories are of the present window: they begin anew with it.
ClockTo(n) ==
  LET same(length) == n - (n % length) = Window(length)
      kept(f, length) == IF same(length) THEN f ELSE [x \in DOMAIN f |-> 0] IN
  /\ now' = n
  /\ passed' = kept(passed, RateWindow) /\ lateRate' = kept(lateRate, RateWindow)
  /\ tried' = kept(tried, LoginWindow) /\ lateLogin' = kept(lateLogin, LoginWindow)
  /\ unheard' = kept(unheard, LoginWindow)

ClockAdvance ==
  /\ now < MaxTime /\ ClockTo(now + 1)
  /\ UNCHANGED <<maps, call, back>>

ClockBack ==
  /\ back < MaxBack /\ back' = back + 1
  /\ \E n \in 0..now - 1 : ClockTo(n)
  /\ UNCHANGED <<maps, call>>

Restart ==
  /\ rate' = [t \in Token |-> NoEntry] /\ failures' = [c \in Client |-> NoEntry]
  /\ call' = [p \in Call |-> Idle]
  /\ passed' = [t \in Token |-> 0] /\ lateRate' = [t \in Token |-> 0]
  /\ tried' = [c \in Client |-> 0] /\ lateLogin' = [c \in Client |-> 0]
  /\ unheard' = [c \in Client |-> 0]
  /\ UNCHANGED <<now, back>>

Next ==
  \/ \E p \in Call :
       \/ \E t \in Token : RateClock(p, t)
       \/ \E c \in Client : LoginClock(p, c)
       \/ RateCheck(p) \/ LoginCheck(p) \/ Verify(p) \/ CountClock(p) \/ CountFailed(p)
       \/ Disconnect(p)
  \/ ClockAdvance \/ ClockBack \/ Restart

Spec == Init /\ [][Next]_vars

\* Time passes; nothing else is owed.
FairSpec == Spec /\ WF_vars(ClockAdvance)

------------------------------------------------------------------------------
\* While the clock stays in one window, no more calls of a token pass than its
\* limit, and as often again, and one more, as calls that read the clock in
\* another window come to their check in this one: each of them can make the
\* count start anew (state.rs:217-230).
RateHolds ==
  \A t \in Token : passed[t] <= (lateRate[t] + 1) * PerMin + lateRate[t]

\* While the clock stays in one window, a client tries no more wrong passphrases
\* than the limit and one less than there are calls at once, since as many may be
\* between login_allowed and login_failed, and as often again as a clock read in
\* another window is used in this one (state.rs:234-259); and one more for each
\* wrong one it did not wait for, which never comes to login_failed and which the
\* throttle does not see (human.rs:121-136).
LoginHolds ==
  \A c \in Client :
    tried[c] <= (lateLogin[c] + 1) * (Attempts - 1 + Cardinality(Call)) + unheard[c]

\* The throttle is not a lock-out: a client that is refused is let try again in
\* the next window at the latest, whatever is counted meanwhile and although the
\* clock is set back (state.rs:242-245).
AllowedAgain ==
  \A c \in Client :
    ~Allowed(c, Window(LoginWindow)) /\ now + LoginWindow <= MaxTime
      ~> Allowed(c, Window(LoginWindow))
=============================================================================
