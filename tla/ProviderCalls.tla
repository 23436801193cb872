--------------------------- MODULE ProviderCalls ---------------------------
(***************************************************************************)
(* The calls of a process to Tushare.  All its TushareClients share one     *)
(* sliding window limiter, and repeat a call that the provider refused for   *)
(* its rate.                                                                *)
(*                                                                         *)
(* The deque of the limiter holds the grants from index `oldest` on: grants  *)
(* themselves are kept as history.  asyncio's locks serve their waiters in   *)
(* order, and asyncio.sleep does not return early.                          *)
(***************************************************************************)
EXTENDS Integers, Sequences

CONSTANTS
  Callers,       \* coroutines that call Tushare
  MaxCalls,      \* TUSHARE_RATE_LIMIT_MAX_CALLS
  Window,        \* TUSHARE_RATE_LIMIT_WINDOW_SECONDS
  MaxCallRetries,\* max_retries of _rate_limited_call
  BaseWait,      \* its base_wait
  MaxClock,      \* bound on the clock
  MaxPermits     \* bound on the permitted calls

ASSUME CallsAssumption ==
  /\ MaxCalls \in Nat \ {0} /\ Window \in Nat
  /\ {MaxCallRetries, BaseWait, MaxClock, MaxPermits} \subseteq Nat

VARIABLES
  clock,      \* time.monotonic(), from 1 on
  grants,     \* history: the times at which a Tushare call was permitted
  oldest,     \* index of the first grant still in _timestamps
  lockQueue,  \* the holder of the limiter's lock and those waiting for it
  callPc,     \* where each Tushare caller is
  wakeAt,     \* when its sleep is over
  attempt     \* its number of retries

limiter == <<grants, oldest, lockQueue>>
callVars == <<clock, grants, oldest, lockQueue, callPc, wakeAt, attempt>>

CallsTypeOK ==
  /\ clock \in Nat \ {0}
  /\ grants \in Seq(Nat)
  /\ oldest \in 1..Len(grants) + 1
  /\ lockQueue \in Seq(Callers)
  /\ callPc \in [Callers -> {"idle", "queued", "asleep", "calling", "backoff"}]
  /\ wakeAt \in [Callers -> Int]
  /\ attempt \in [Callers -> 0..MaxCallRetries]

CallsInit ==
  /\ clock = 1
  /\ grants = <<>> /\ oldest = 1 /\ lockQueue = <<>>
  /\ callPc = [c \in Callers |-> "idle"]
  /\ wakeAt = [c \in Callers |-> 0]
  /\ attempt = [c \in Callers |-> 0]

-----------------------------------------------------------------------------
(* Tushare: SlidingWindowRateLimiter.acquire inside _rate_limited_call. *)

Enqueue(c) ==
  /\ lockQueue' = Append(lockQueue, c)
  /\ callPc' = [callPc EXCEPT ![c] = "queued"]

CallTushare(c) ==
  /\ callPc[c] = "idle" /\ Len(grants) < MaxPermits
  /\ Enqueue(c)
  /\ UNCHANGED <<clock, grants, oldest, wakeAt, attempt>>

Holds(c) == lockQueue # <<>> /\ Head(lockQueue) = c

\* Faulty: a timestamp expires one unit early.
ExpiredEarly(i) == clock - grants[i] >= Window - 1

Expired(i) == clock - grants[i] >= Window

\* popleft while the first timestamp is outside the window.
Cleaned ==
  {f \in oldest..Len(grants) + 1 :
     /\ \A i \in oldest..(f - 1) : Expired(i)
     /\ f <= Len(grants) => ~Expired(f)}

Full(f) == Len(grants) + 1 - f >= MaxCalls

\* The timestamp is recorded, the lock released, and the provider called.
Permit(c) ==
  /\ grants' = Append(grants, clock)
  /\ lockQueue' = Tail(lockQueue)
  /\ callPc' = [callPc EXCEPT ![c] = "calling"]

Acquire(c) ==
  /\ callPc[c] = "queued" /\ Holds(c)
  /\ \E f \in Cleaned :
       /\ oldest' = f
       /\ ~Full(f)
       /\ Permit(c)
  /\ UNCHANGED <<clock, wakeAt, attempt>>

\* At the limit the holder sleeps until the oldest call leaves the window, and
\* everybody behind it waits for the lock.
AcquireWaits(c) ==
  /\ callPc[c] = "queued" /\ Holds(c)
  /\ \E f \in Cleaned :
       /\ oldest' = f
       /\ Full(f)
       /\ wakeAt' = [wakeAt EXCEPT ![c] = grants[f] + Window]
  /\ callPc' = [callPc EXCEPT ![c] = "asleep"]
  /\ UNCHANGED <<clock, grants, lockQueue, attempt>>

\* It does not look at the limit again: its own call was the oldest one's turn.
AcquireAfterWait(c) ==
  /\ callPc[c] = "asleep" /\ clock >= wakeAt[c]
  /\ oldest' \in Cleaned
  /\ Permit(c)
  /\ wakeAt' = [wakeAt EXCEPT ![c] = 0]
  /\ UNCHANGED <<clock, attempt>>

\* The result, or an error that is not about the rate, goes to the caller.
TushareAnswers(c) ==
  /\ callPc[c] = "calling"
  /\ callPc' = [callPc EXCEPT ![c] = "idle"]
  /\ attempt' = [attempt EXCEPT ![c] = 0]
  /\ UNCHANGED <<clock, limiter, wakeAt>>

\* The provider says its rate was exceeded: wait and try again, or raise.
RateExceeded(c) ==
  /\ callPc[c] = "calling" /\ attempt[c] < MaxCallRetries
  /\ wakeAt' = [wakeAt EXCEPT ![c] = clock + BaseWait * 2 ^ attempt[c]]
  /\ attempt' = [attempt EXCEPT ![c] = @ + 1]
  /\ callPc' = [callPc EXCEPT ![c] = "backoff"]
  /\ UNCHANGED <<clock, limiter>>

Retried(c) ==
  /\ callPc[c] = "backoff" /\ clock >= wakeAt[c]
  /\ Enqueue(c)
  /\ wakeAt' = [wakeAt EXCEPT ![c] = 0]
  /\ UNCHANGED <<clock, grants, oldest, attempt>>

ClockTicks ==
  /\ clock < MaxClock
  /\ clock' = clock + 1
  /\ UNCHANGED <<grants, oldest, lockQueue, callPc, wakeAt, attempt>>

TushareStep(c) ==
  \/ CallTushare(c) \/ Acquire(c) \/ AcquireWaits(c) \/ AcquireAfterWait(c)
  \/ TushareAnswers(c) \/ RateExceeded(c) \/ Retried(c)

CallsNext ==
  \/ \E c \in Callers : TushareStep(c)
  \/ ClockTicks

CallsSpec == CallsInit /\ [][CallsNext]_callVars

-----------------------------------------------------------------------------

\* What the provider is promised: the deque, the lock and the sleeps are hidden.
Promise == INSTANCE SlidingWindow
  WITH MaxCalls <- MaxCalls, Window <- Window, clock <- clock, grants <- grants

\* However many coroutines ask, sleep and retry, the limiter grants what the
\* sliding window allows and nothing else.
GrantsWithinWindow == Promise!WindowSpec
=============================================================================
