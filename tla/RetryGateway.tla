----------------------------- MODULE RetryGateway -----------------------------
(* One call of BoundedRetryGateway.complete (runtime/retry.py) over the        *)
(* _HcxTransportGateway (server/production.py) and HcxClient.chat: how the     *)
(* caller's time becomes the time limits of one HTTP request, which failures   *)
(* are replayed, and when.  requests.Session.post and time.sleep are external: *)
(* a time limit of requests bounds one wait for the socket, not the request.   *)
EXTENDS Integers

CONSTANTS
  Budgets,      \* the values of remaining_seconds a caller may pass, in ticks
  Delays,       \* the values of a Retry-After header, in ticks; 0 for none
  HardDeadline, \* RuntimeConfig.hard_deadline_seconds
  RetryWindow,  \* RuntimeConfig.retry_window_seconds
  MaxDelay,     \* RuntimeConfig.max_retry_delay_seconds
  MinAttempt,   \* RuntimeConfig.minimum_attempt_seconds
  MaxRetries,   \* RuntimeConfig.max_retries
  MinRequest,   \* the 0.2 s below which the transport refuses
  MinConnect,   \* its shortest and
  MaxConnect,   \* its longest connect time limit
  MaxRead,      \* its longest read time limit
  MaxPieces,    \* waits for further parts of one response (bound of the model)
  MaxOversleep  \* ticks a sleep lasts longer than asked (bound of the model)

ASSUME GatewayAssumption ==
  /\ Budgets \subseteq Int
  /\ Delays \subseteq Nat
  /\ {HardDeadline, RetryWindow, MaxDelay, MinAttempt, MinConnect, MaxConnect, MaxRead} \subseteq Nat \ {0}
  /\ MaxRetries \in 0..1
  /\ MinRequest \in Nat
  /\ MinAttempt < HardDeadline
  /\ MinConnect <= MinRequest
  /\ MaxPieces \in Nat
  /\ MaxOversleep \in Nat

VARIABLES
  pc,         \* where the call is
  clock,      \* time since complete was entered
  deadline,   \* the call's deadline on that clock
  retries,    \* the local variable of complete
  attempts,   \* transport attempts of this call
  posts,      \* HTTP requests of this call
  left,       \* what is left of the wait in progress
  readLimit,  \* the read time limit of the request
  pieces,     \* further parts of the response that were waited for
  overslept,  \* ticks the sleep has lasted longer than asked
  error,      \* the class of the last failure
  asked,      \* the delay it asked for
  failedAt,   \* when it was caught
  overrun     \* time no limit of the code bounds: in bodies, and overslept

requestVars == <<left, readLimit, pieces>>
failureVars == <<error, asked, failedAt>>
vars == <<pc, clock, deadline, retries, attempts, posts, requestVars, overslept,
          failureVars, overrun>>

Places == {"idle", "attempt", "connect", "read", "body", "failed", "sleep", "ok", "raised", "deadline"}
Ended  == {"ok", "raised", "deadline"}
Errors == {"none", "transport", "read_timeout", "rate_limit", "server", "other"}

GatewayTypeOK ==
  /\ pc \in Places
  /\ clock \in Nat
  /\ deadline \in 0..HardDeadline
  /\ retries \in 0..MaxRetries
  /\ attempts \in Nat
  /\ posts \in Nat
  /\ left \in Nat
  /\ readLimit \in 0..MaxRead
  /\ pieces \in 0..MaxPieces
  /\ overslept \in 0..MaxOversleep
  /\ error \in Errors
  /\ asked \in Nat
  /\ failedAt \in Nat
  /\ overrun \in Nat

Init ==
  /\ pc = "idle"
  /\ clock = 0 /\ deadline = 0
  /\ retries = 0 /\ attempts = 0 /\ posts = 0
  /\ left = 0 /\ readLimit = 0 /\ pieces = 0 /\ overslept = 0
  /\ error = "none" /\ asked = 0 /\ failedAt = 0
  /\ overrun = 0

Least(a, b) == IF a <= b THEN a ELSE b
Most(a, b)  == IF a >= b THEN a ELSE b

-------------------------------------------------------------------------------
(* complete: entry, and the top of its loop.                                   *)

Call(budget) ==
  /\ pc = "idle"
  /\ \/ budget <= 0 /\ pc' = "deadline" /\ UNCHANGED deadline
     \/ budget > 0  /\ pc' = "attempt"  /\ deadline' = Least(budget, HardDeadline)
  /\ UNCHANGED <<clock, retries, attempts, posts, requestVars, overslept, failureVars, overrun>>

Remaining == deadline - clock

(* RuntimeDeadlineError, from complete itself ...                              *)
GiveUp ==
  /\ pc = "attempt"
  /\ Remaining <= MinAttempt
  /\ pc' = "deadline"
  /\ UNCHANGED <<clock, deadline, retries, attempts, posts, requestVars, overslept, failureVars, overrun>>

(* ... or from the transport, which wants more time than complete asked for;   *)
(* it is no HcxError and is not replayed.                                      *)
Refuse ==
  /\ pc = "attempt"
  /\ Remaining > MinAttempt
  /\ Remaining <= MinRequest
  /\ attempts' = attempts + 1
  /\ pc' = "deadline"
  /\ UNCHANGED <<clock, deadline, retries, posts, requestVars, overslept, failureVars, overrun>>

ConnectLimit(remaining) == Least(MaxConnect, Most(MinConnect, remaining \div 4))

WholeReadLimit(remaining) == Least(MaxRead, remaining)   \* faulty variant: connecting is free

ReadLimit(remaining) == Least(MaxRead, remaining - ConnectLimit(remaining))

Post ==
  /\ pc = "attempt"
  /\ Remaining > MinAttempt
  /\ Remaining > MinRequest
  /\ attempts' = attempts + 1
  /\ posts' = posts + 1
  /\ left' = ConnectLimit(Remaining)
  /\ readLimit' = ReadLimit(Remaining)
  /\ pieces' = 0
  /\ pc' = "connect"
  /\ UNCHANGED <<clock, deadline, retries, overslept, failureVars, overrun>>

-------------------------------------------------------------------------------
(* The request on the wire.                                                    *)

Fail(e, delay) ==
  /\ pc' = "failed"
  /\ error' = e
  /\ asked' = delay
  /\ failedAt' = clock
  /\ left' = 0 /\ readLimit' = 0 /\ pieces' = 0
  /\ UNCHANGED <<clock, deadline, retries, attempts, posts, overslept, overrun>>

(* No connection, refused or out of time: HcxConnectTimeout and                *)
(* HcxTransportError are treated alike.                                        *)
ConnectFails ==
  /\ pc = "connect"
  /\ Fail("transport", 0)

WaitFor(place) ==
  /\ pc' = place
  /\ left' = readLimit
  /\ UNCHANGED <<clock, deadline, retries, attempts, posts, readLimit, overslept, failureVars, overrun>>

(* A connection, new or kept alive, takes the request to the service.          *)
Connected ==
  /\ pc = "connect"
  /\ WaitFor("read")
  /\ UNCHANGED pieces

NeverTimesOut == FALSE   \* faulty variant: post called without a read time limit

ReadTimesOut ==
  /\ pc = "read"
  /\ left = 0
  /\ Fail("read_timeout", 0)

(* The connection breaks while the reply is awaited or read.  requests raises  *)
(* ConnectionError, which chat turns into HcxTransportError.                   *)
ConnectionLost ==
  /\ pc \in {"read", "body"}
  /\ Fail("transport", 0)

(* The status line and the headers are there; post reads the body, too.        *)
Headers ==
  /\ pc = "read"
  /\ WaitFor("body")
  /\ UNCHANGED pieces

MorePieces ==
  /\ pc = "body"
  /\ pieces < MaxPieces
  /\ pieces' = pieces + 1
  /\ WaitFor("body")

(* A silent wait within the body is no ReadTimeout: requests raises            *)
(* ConnectionError for it.                                                     *)
BodyStalls ==
  /\ pc = "body"
  /\ left = 0
  /\ Fail("transport", 0)

Succeeds ==
  /\ pc = "body"
  /\ pc' = "ok"
  /\ left' = 0 /\ readLimit' = 0 /\ pieces' = 0
  /\ UNCHANGED <<clock, deadline, retries, attempts, posts, overslept, failureVars, overrun>>

(* 429 with what it asks for, 5xx, or any other reply chat does not accept.    *)
ReplyFails ==
  /\ pc = "body"
  /\ \/ \E delay \in Delays : Fail("rate_limit", delay)
     \/ Fail("server", 0)
     \/ Fail("other", 0)

-------------------------------------------------------------------------------
(* complete: what follows a failure.                                           *)

(* _retry_delay gives a delay.                                                 *)
Retryable == error \in {"transport", "rate_limit", "server"}

InWindow == clock <= RetryWindow

RetriesLeft == retries < MaxRetries

CanRetry ==
  /\ Retryable
  /\ RetriesLeft
  /\ InWindow
  /\ asked <= MaxDelay
  /\ deadline - clock - asked > MinAttempt

Raise ==
  /\ pc = "failed"
  /\ ~CanRetry
  /\ pc' = "raised"
  /\ UNCHANGED <<clock, deadline, retries, attempts, posts, requestVars, overslept, failureVars, overrun>>

PauseNever == pc' = "attempt" /\ UNCHANGED <<left, overslept>>   \* faulty variant: no sleep

Pause ==
  IF asked = 0
  THEN pc' = "attempt" /\ UNCHANGED <<left, overslept>>
  ELSE pc' = "sleep" /\ left' = asked /\ overslept' = 0

Replay ==
  /\ pc = "failed"
  /\ CanRetry
  /\ retries' = retries + 1
  /\ Pause
  /\ UNCHANGED <<clock, deadline, attempts, posts, readLimit, pieces, failureVars, overrun>>

Wake ==
  /\ pc = "sleep"
  /\ left = 0
  /\ pc' = "attempt"
  /\ UNCHANGED <<clock, deadline, retries, attempts, posts, requestVars, overslept, failureVars, overrun>>

-------------------------------------------------------------------------------
(* Time passes in the waits; computing takes none of it.  A socket wait ends   *)
(* at its limit, a sleep some time after.                                      *)
Tick ==
  /\ \/ /\ pc \in {"connect", "read", "body", "sleep"}
        /\ left > 0
        /\ left' = left - 1
        /\ overrun' = IF pc = "body" THEN overrun + 1 ELSE overrun
        /\ UNCHANGED overslept
     \/ /\ pc = "sleep"
        /\ left = 0
        /\ overslept < MaxOversleep
        /\ overslept' = overslept + 1
        /\ overrun' = overrun + 1
        /\ UNCHANGED left
  /\ clock' = clock + 1
  /\ UNCHANGED <<pc, deadline, retries, attempts, posts, readLimit, pieces, failureVars>>

Returned ==
  /\ pc \in Ended
  /\ UNCHANGED vars

(* What the code and the timers of its sockets do, and what the network does.  *)
Step == GiveUp \/ Refuse \/ Post \/ Raise \/ Replay \/ Wake \/ ReadTimesOut \/ BodyStalls

TimedOut == pc = "connect" /\ left = 0 /\ ConnectFails

Network == Connected \/ ConnectFails \/ Headers \/ MorePieces \/ ConnectionLost \/ Succeeds \/ ReplyFails

Next == (\E budget \in Budgets : Call(budget)) \/ Step \/ Network \/ Tick \/ Returned

Spec == Init /\ [][Next]_vars

(* The thread runs, its timers fire and time passes; the network does nothing  *)
(* it need do.                                                                 *)
FairSpec == Spec /\ WF_vars(Step \/ TimedOut) /\ WF_vars(Tick)

-------------------------------------------------------------------------------
(* Properties.                                                                 *)

(* A call makes MaxRetries + 1 attempts at most, and sends no more requests    *)
(* than it counts attempts (retry.py:75-98).                                   *)
AtMostOneReplay == attempts <= MaxRetries + 1 /\ posts <= attempts

(* The two attempts, the pause and every time limit come out of one budget:    *)
(* but for what a slow body and a long sleep add, the call is over by the      *)
(* deadline its caller gave (retry.py:70-78, production.py:102-104).           *)
NeverLate == clock <= deadline + overrun

(* What is sent again is a failure that may be, was caught early, asked for a  *)
(* short pause, and was given it (retry.py:85-100).                             *)
ReplayIsAllowed ==
  [][posts' > posts /\ posts > 0 =>
       /\ error \in {"transport", "rate_limit", "server"}
       /\ failedAt <= RetryWindow
       /\ asked <= MaxDelay
       /\ clock >= failedAt + asked]_vars

(* A call that was made ends, whatever the network does, as long as a response *)
(* has an end (retry.py:75-100).                                                *)
CallEnds == pc = "attempt" ~> pc \in Ended
===============================================================================
