-------------------------- MODULE RetryGatewayProofs --------------------------
(* The bounds of one model call, for all time limits and budgets: its types,   *)
(* its attempts, its duration and what it sends again.                         *)
EXTENDS RetryGateway, TLAPS

(* Attempts are counted when they are made, retries when one is decided on.    *)
CountInv ==
  /\ posts <= attempts
  /\ attempts <= retries + 1
  /\ pc \in {"idle", "attempt", "sleep"} => attempts <= retries

(* What is left of every wait still fits into the deadline; connecting leaves  *)
(* room for the first wait of reading.                                         *)
TimeInv ==
  /\ clock <= deadline + overrun
  /\ pc = "idle" => clock = 0
  /\ pc = "connect" => clock + left + readLimit <= deadline + overrun
  /\ pc \in {"read", "sleep"} => clock + left <= deadline + overrun
  /\ pc = "failed" => failedAt = clock

(* What is about to be sent again may be, and has waited or will have.         *)
Allowed ==
  /\ error \in {"transport", "rate_limit", "server"}
  /\ failedAt <= RetryWindow
  /\ asked <= MaxDelay

ReplayInv ==
  /\ pc = "attempt" /\ posts > 0 => Allowed /\ clock >= failedAt + asked
  /\ pc = "sleep" => Allowed /\ clock + left >= failedAt + asked
  /\ pc = "idle" => posts = 0

GInv == GatewayTypeOK /\ CountInv /\ TimeInv /\ ReplayInv

-------------------------------------------------------------------------------
(* The time limits of a request: both are there, and together they are no more *)
(* than what remains (production.py:103-104).                                  *)
LEMMA LimitsFit ==
  ASSUME NEW remaining \in Int, remaining > MinRequest
  PROVE  /\ ConnectLimit(remaining) \in Nat
         /\ ReadLimit(remaining) \in 0..MaxRead
         /\ ConnectLimit(remaining) + ReadLimit(remaining) <= remaining
<1>1. remaining > 0 /\ MinConnect <= remaining /\ MinConnect \in Nat /\ MaxConnect \in Nat /\ MaxRead \in Nat
  BY GatewayAssumption
<1>2. remaining \div 4 \in Nat /\ remaining \div 4 <= remaining
  BY <1>1
<1>3. ConnectLimit(remaining) \in Nat /\ ConnectLimit(remaining) <= remaining
  BY <1>1, <1>2 DEF ConnectLimit, Least, Most
<1> QED
  BY <1>1, <1>3 DEF ReadLimit, Least

(* A call starts with the invariant.                                           *)
LEMMA InitGInv == Init => GInv
<1> SUFFICES ASSUME Init PROVE GInv
  OBVIOUS
<1>1. GatewayTypeOK
  BY GatewayAssumption DEF Init, GatewayTypeOK, Places, Errors
<1> QED
  BY <1>1 DEF Init, GInv, CountInv, TimeInv, ReplayInv

(* What counts and measures is a number, and so is every limit.                *)
Numbers ==
  /\ {clock, deadline, retries, attempts, posts, left, readLimit, asked, failedAt, overrun} \subseteq Nat
  /\ {HardDeadline, RetryWindow, MaxDelay, MinAttempt, MinRequest, MaxRead, MaxRetries} \subseteq Nat

LEMMA GInvNumbers == GInv => Numbers
  BY GatewayAssumption DEF GInv, GatewayTypeOK, Numbers

(* Entering complete sets the deadline, and nothing has been sent.             *)
LEMMA CallKeepsGInv ==
  ASSUME GInv, NEW budget \in Budgets, Call(budget)
  PROVE  GInv'
<1>1. budget \in Int /\ HardDeadline \in Nat
  BY GatewayAssumption
<1>2. GatewayTypeOK'
  BY <1>1 DEF GInv, GatewayTypeOK, Call, Places, requestVars, failureVars, Least
<1>3. CountInv'
  BY <1>1, <1>2, GInvNumbers DEF GInv, Numbers, CountInv, ReplayInv, Call, requestVars, failureVars, Least
<1>4. TimeInv'
  BY <1>1, <1>2, GInvNumbers DEF GInv, Numbers, TimeInv, Call, requestVars, failureVars, Least
<1>5. ReplayInv'
  BY <1>1, <1>2, GInvNumbers DEF GInv, Numbers, ReplayInv, TimeInv, Allowed, Call, requestVars, failureVars, Least
<1> QED
  BY <1>2, <1>3, <1>4, <1>5 DEF GInv

(* The endings of a call.                                                      *)
LEMMA EndingKeepsGInv ==
  ASSUME GInv, GiveUp \/ Refuse \/ Raise \/ Succeeds
  PROVE  GInv'
<1>1. /\ pc \in {"attempt", "failed", "body"}
      /\ pc' \in Ended
      /\ \/ attempts' = attempts
         \/ pc = "attempt" /\ attempts' = attempts + 1
      /\ \/ UNCHANGED requestVars
         \/ left' = 0 /\ readLimit' = 0 /\ pieces' = 0
      /\ UNCHANGED <<clock, deadline, retries, posts, overslept, failureVars, overrun>>
  BY DEF GiveUp, Refuse, Raise, Succeeds, Ended, requestVars, failureVars
<1>2. GatewayTypeOK'
  BY <1>1, GatewayAssumption DEF GInv, GatewayTypeOK, Places, Ended, requestVars, failureVars
<1>3. CountInv'
  BY <1>1, <1>2, GInvNumbers DEF GInv, Numbers, CountInv, ReplayInv, Ended, requestVars, failureVars
<1>4. TimeInv'
  BY <1>1, <1>2, GInvNumbers DEF GInv, Numbers, TimeInv, Ended, requestVars, failureVars
<1>5. ReplayInv'
  BY <1>1, <1>2, GInvNumbers DEF GInv, Numbers, ReplayInv, TimeInv, Allowed, Ended, requestVars, failureVars
<1> QED
  BY <1>2, <1>3, <1>4, <1>5 DEF GInv

(* A request gets limits that fit what remains.                                *)
LEMMA PostKeepsGInv ==
  ASSUME GInv, Post
  PROVE  GInv'
<1>1. Remaining \in Int /\ Remaining > MinRequest
  BY DEF Post, Remaining, GInv, GatewayTypeOK
<1>2. left' \in Nat /\ readLimit' \in 0..MaxRead /\ left' + readLimit' <= deadline - clock
  BY <1>1, LimitsFit DEF Post, Remaining
<1>3. GatewayTypeOK'
  BY <1>2, GatewayAssumption DEF GInv, GatewayTypeOK, Post, Places, failureVars
<1> QED
  BY <1>2, <1>3 DEF GInv, GatewayTypeOK, CountInv, TimeInv, ReplayInv, Post, failureVars

(* A failure is caught in the tick it happens.                                 *)
LEMMA FailKeepsGInv ==
  ASSUME GInv, NEW e \in Errors, NEW delay \in Nat, Fail(e, delay),
         pc \in {"connect", "read", "body"}
  PROVE  GInv'
<1>1. GatewayTypeOK'
  BY GatewayAssumption DEF GInv, GatewayTypeOK, Fail, Places
<1> QED
  BY <1>1, GInvNumbers DEF GInv, Numbers, CountInv, TimeInv, ReplayInv, Fail

LEMMA FailuresKeepGInv ==
  ASSUME GInv, ConnectFails \/ ReadTimesOut \/ ConnectionLost \/ BodyStalls \/ ReplyFails
  PROVE  GInv'
<1>1. pc \in {"connect", "read", "body"}
  BY DEF ConnectFails, ReadTimesOut, ConnectionLost, BodyStalls, ReplyFails
<1>2. PICK e \in Errors, delay \in Nat : Fail(e, delay)
  BY GatewayAssumption, Zenon DEF ConnectFails, ReadTimesOut, ConnectionLost, BodyStalls, ReplyFails, Errors
<1> QED
  BY <1>1, <1>2, FailKeepsGInv

(* The waits for the service: reading starts with what was kept for it.        *)
LEMMA WaitKeepsGInv ==
  ASSUME GInv, Connected \/ Headers \/ MorePieces
  PROVE  GInv'
<1>1. GatewayTypeOK'
  BY GatewayAssumption DEF GInv, GatewayTypeOK, Connected, Headers, MorePieces, WaitFor, Places, failureVars
<1>2. CountInv'
  BY <1>1, GInvNumbers DEF GInv, Numbers, CountInv, ReplayInv, Connected, Headers, MorePieces, WaitFor, failureVars
<1>3. TimeInv'
  BY <1>1, GInvNumbers DEF GInv, Numbers, TimeInv, Connected, Headers, MorePieces, WaitFor, failureVars
<1>4. ReplayInv'
  BY <1>1, GInvNumbers DEF GInv, Numbers, ReplayInv, TimeInv, Allowed, Connected, Headers, MorePieces, WaitFor, failureVars
<1> QED
  BY <1>1, <1>2, <1>3, <1>4 DEF GInv

(* Deciding on a retry: the pause ends before the deadline.                    *)
LEMMA ReplayKeepsGInv ==
  ASSUME GInv, Replay
  PROVE  GInv'
<1>1. /\ error \in {"transport", "rate_limit", "server"}
      /\ retries < MaxRetries /\ clock <= RetryWindow /\ asked <= MaxDelay
      /\ deadline - clock - asked > MinAttempt /\ MinAttempt \in Nat
  BY GatewayAssumption DEF Replay, CanRetry, Retryable, RetriesLeft, InWindow
<1>2. GatewayTypeOK'
  BY <1>1, GatewayAssumption DEF GInv, GatewayTypeOK, Replay, Pause, Places, failureVars
<1>3. CountInv'
  BY <1>1, <1>2, GInvNumbers DEF GInv, Numbers, CountInv, ReplayInv, Replay, Pause, failureVars
<1>4. TimeInv'
  BY <1>1, <1>2, GInvNumbers DEF GInv, Numbers, TimeInv, Replay, Pause, failureVars
<1>5. ReplayInv'
  BY <1>1, <1>2, GInvNumbers DEF GInv, Numbers, ReplayInv, TimeInv, Allowed, Replay, Pause, failureVars
<1> QED
  BY <1>2, <1>3, <1>4, <1>5 DEF GInv

LEMMA WakeKeepsGInv ==
  ASSUME GInv, Wake
  PROVE  GInv'
<1>1. GatewayTypeOK'
  BY DEF GInv, GatewayTypeOK, Wake, Places, requestVars, failureVars
<1> QED
  BY <1>1, GInvNumbers DEF GInv, Numbers, CountInv, TimeInv, ReplayInv, Allowed, Wake, requestVars, failureVars

LEMMA TickKeepsGInv ==
  ASSUME GInv, Tick
  PROVE  GInv'
<1>1. GatewayTypeOK'
  BY GatewayAssumption DEF GInv, GatewayTypeOK, Tick, failureVars
<1>2. CountInv'
  BY <1>1, GInvNumbers DEF GInv, Numbers, CountInv, ReplayInv, Tick, failureVars
<1>3. TimeInv'
  BY <1>1, GInvNumbers DEF GInv, Numbers, TimeInv, Tick, failureVars
<1>4. ReplayInv'
  BY <1>1, GInvNumbers DEF GInv, Numbers, ReplayInv, TimeInv, Allowed, Tick, failureVars
<1> QED
  BY <1>1, <1>2, <1>3, <1>4 DEF GInv

LEMMA NextKeepsGInv == GInv /\ [Next]_vars => GInv'
<1> SUFFICES ASSUME GInv, [Next]_vars PROVE GInv'
  OBVIOUS
<1>1. CASE \E budget \in Budgets : Call(budget)
  BY <1>1, CallKeepsGInv
<1>2. CASE Step
  BY <1>2, EndingKeepsGInv, PostKeepsGInv, FailuresKeepGInv, ReplayKeepsGInv, WakeKeepsGInv DEF Step
<1>3. CASE Network
  BY <1>3, EndingKeepsGInv, FailuresKeepGInv, WaitKeepsGInv DEF Network
<1>4. CASE Tick
  BY <1>4, TickKeepsGInv
<1>5. CASE UNCHANGED vars
  BY <1>5 DEF GInv, GatewayTypeOK, CountInv, TimeInv, ReplayInv, Allowed, vars, requestVars, failureVars
<1> QED
  BY <1>1, <1>2, <1>3, <1>4, <1>5 DEF Next, Returned

LEMMA GInvHolds == Spec => []GInv
  BY InitGInv, NextKeepsGInv, PTL DEF Spec

-------------------------------------------------------------------------------
(* The types of a call's state, for all time limits; the deadline never        *)
(* exceeds the hard one (contracts.py:22-49, retry.py:70-73).                  *)
THEOREM TypeCorrectGateway == Spec => []GatewayTypeOK
<1>1. GInv => GatewayTypeOK BY DEF GInv
<1> QED BY <1>1, GInvHolds, PTL

(* Attempts are MaxRetries + 1 at most (retry.py:75-98).                       *)
THEOREM AttemptsBounded == Spec => []AtMostOneReplay
<1>1. GInv => AtMostOneReplay
  BY GatewayAssumption DEF GInv, GatewayTypeOK, CountInv, AtMostOneReplay
<1> QED BY <1>1, GInvHolds, PTL

(* A call is over by its deadline but for slow bodies and long sleeps, however *)
(* the limits relate to each other (retry.py:70-78, production.py:102-104).    *)
THEOREM CallsEndInTime == Spec => []NeverLate
<1>1. GInv => NeverLate
  BY DEF GInv, TimeInv, NeverLate
<1> QED BY <1>1, GInvHolds, PTL

(* Only early, retryable failures are replayed, after the pause they asked for *)
(* (retry.py:85-100).                                                           *)
THEOREM ReplaysAreAllowed == Spec => ReplayIsAllowed
<1> DEFINE Replays ==
      posts' > posts /\ posts > 0 =>
        /\ error \in {"transport", "rate_limit", "server"}
        /\ failedAt <= RetryWindow
        /\ asked <= MaxDelay
        /\ clock >= failedAt + asked
<1>1. GInv /\ [Next]_vars => [Replays]_vars
  <2> SUFFICES ASSUME GInv, [Next]_vars PROVE [Replays]_vars
    OBVIOUS
  <2>1. CASE Post
    BY <2>1 DEF GInv, ReplayInv, Allowed, Post
  <2>2. CASE posts' = posts
    BY <2>2 DEF GInv, GatewayTypeOK
  <2>3. Post \/ posts' = posts
    BY DEF Next, Step, Network, Call, GiveUp, Refuse, Raise, Replay, Wake, ReadTimesOut, BodyStalls,
       Connected, ConnectFails, Headers, MorePieces, ConnectionLost, Succeeds, ReplyFails, Fail,
       WaitFor, Tick, Returned, vars
  <2> QED BY <2>1, <2>2, <2>3
<1> QED BY <1>1, GInvHolds, PTL DEF Spec, ReplayIsAllowed
===============================================================================
