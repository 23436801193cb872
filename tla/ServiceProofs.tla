----------------------------- MODULE ServiceProofs -----------------------------
(***************************************************************************)
(* What holds of the calls to other services: that the shared limiter keeps    *)
(* its promise to the provider for every number of callers, calls and retries, *)
(* every limit and every window, and the calls to AkShare keep apart for every *)
(* number of callers and every interval; that the registry of language models  *)
(* is always one state of the table of configurations, that a call fails only  *)
(* after all its models, and that searches keep what Bocha answers and serve   *)
(* nothing stale, for any number of requests, calls, configurations, experts   *)
(* and failures.                                                             *)
(***************************************************************************)
EXTENDS ProviderCalls, AkShareCalls, LLMPlatform, WebSearch, FiniteSetTheorems, SequenceTheorems,
        TLAPS

-----------------------------------------------------------------------------
(* The calls to the providers *)

\* The timestamps that left the deque are outside the window.
LeftTheWindow == \A i \in 1..(oldest - 1) : clock - grants[i] >= Window

\* The deque never holds more than MaxCalls timestamps.
DequeBounded == Len(grants) + 1 - oldest <= MaxCalls

\* Whoever sleeps for the window holds the lock, so that the oldest timestamp
\* is still the one it waits for.
SleeperHolds ==
  \A c \in Callers : callPc[c] = "asleep" =>
    /\ Holds(c)
    /\ oldest <= Len(grants)
    /\ wakeAt[c] = grants[oldest] + Window

CallsInv == CallsTypeOK /\ LeftTheWindow /\ DequeBounded /\ SleeperHolds

-----------------------------------------------------------------------------
(* The queue and the deque. *)

LEMMA AppendKeepsHead ==
  ASSUME lockQueue \in Seq(Callers), NEW c \in Callers
  PROVE  /\ Append(lockQueue, c) \in Seq(Callers)
         /\ \A d \in Callers : Holds(d) => Append(lockQueue, c) # <<>> /\ Head(Append(lockQueue, c)) = d
  BY AppendProperties, HeadTailAppend DEF Holds

\* What a grant appends to the history.
LEMMA GrantAppended ==
  ASSUME grants \in Seq(Nat), clock \in Nat
  PROVE  /\ Append(grants, clock) \in Seq(Nat)
         /\ Len(Append(grants, clock)) = Len(grants) + 1
         /\ \A i \in 1..Len(grants) : Append(grants, clock)[i] = grants[i]
         /\ Append(grants, clock)[Len(grants) + 1] = clock
  BY AppendProperties

\* The while loop leaves only expired timestamps behind.
LEMMA CleanedFacts ==
  ASSUME CallsInv, NEW f \in Cleaned
  PROVE  /\ f \in oldest..Len(grants) + 1
         /\ f <= Len(grants) => ~Expired(f)
         /\ \A i \in 1..(f - 1) : clock - grants[i] >= Window
  <1>1. /\ f \in oldest..Len(grants) + 1
        /\ \A i \in oldest..(f - 1) : Expired(i)
        /\ f <= Len(grants) => ~Expired(f)
    BY DEF Cleaned
  <1>2. oldest \in Int /\ Len(grants) \in Nat
    BY LenProperties DEF CallsInv, CallsTypeOK
  <1>3. ASSUME NEW i \in 1..(f - 1) PROVE clock - grants[i] >= Window
    <2>1. CASE i \in oldest..(f - 1)
      BY <1>1, <2>1 DEF Expired
    <2>2. CASE i \in 1..(oldest - 1)
      BY <2>2 DEF CallsInv, LeftTheWindow
    <2>3. QED
      BY <1>1, <1>2, <2>1, <2>2
  <1>4. QED
    BY <1>1, <1>3

\* A deque that is not full after the clean-up admits one more call.
LEMMA RoomForOne ==
  ASSUME CallsInv, NEW f \in Cleaned, Len(grants) + 2 - f <= MaxCalls
  PROVE  Len(grants) >= MaxCalls => clock - grants[Len(grants) + 1 - MaxCalls] >= Window
  <1>1. /\ f \in oldest..Len(grants) + 1
        /\ \A i \in 1..(f - 1) : clock - grants[i] >= Window
    BY CleanedFacts
  <1>2. Len(grants) \in Nat /\ MaxCalls \in Nat \ {0} /\ oldest \in Int
    BY CallsAssumption, LenProperties DEF CallsInv, CallsTypeOK
  <1>3. Len(grants) >= MaxCalls => Len(grants) + 1 - MaxCalls \in 1..(f - 1)
    BY <1>1, <1>2
  <1>4. QED
    BY <1>1, <1>3

-----------------------------------------------------------------------------
(* One lemma per kind of step. *)

LEMMA InvInit == CallsInit => CallsInv
  <1> SUFFICES ASSUME CallsInit PROVE CallsInv
    OBVIOUS
  <1>1. CallsTypeOK
    BY CallsAssumption, EmptySeq DEF CallsInit, CallsTypeOK
  <1>2. LeftTheWindow /\ DequeBounded
    BY CallsAssumption, EmptySeq DEF CallsInit, LeftTheWindow, DequeBounded
  <1>3. SleeperHolds
    BY DEF CallsInit, SleeperHolds
  <1>4. QED
    BY <1>1, <1>2, <1>3 DEF CallsInv

\* Steps that leave the limiter's deque and the clock alone.
LEMMA InvQuiet ==
  ASSUME CallsInv, CallsTypeOK', UNCHANGED <<clock, grants, oldest>>, SleeperHolds'
  PROVE  CallsInv'
  BY DEF CallsInv, LeftTheWindow, DequeBounded

\* A caller joins the queue from a state in which it does not sleep.
LEMMA InvEnqueue ==
  ASSUME CallsInv, NEW c \in Callers, Enqueue(c), UNCHANGED <<clock, grants, oldest>>,
         \A d \in Callers \ {c} : wakeAt'[d] = wakeAt[d],
         wakeAt' \in [Callers -> Int], attempt' \in [Callers -> 0..MaxCallRetries]
  PROVE  CallsInv'
  <1>1. Append(lockQueue, c) \in Seq(Callers)
        /\ \A d \in Callers : Holds(d) => Holds(d)'
    BY AppendKeepsHead DEF CallsInv, CallsTypeOK, Enqueue, Holds
  <1>2. CallsTypeOK'
    BY <1>1 DEF CallsInv, CallsTypeOK, Enqueue
  <1>3. SleeperHolds'
    BY <1>1 DEF CallsInv, CallsTypeOK, SleeperHolds, Enqueue
  <1>4. QED
    BY <1>2, <1>3, InvQuiet

\* A call is permitted to the holder of the lock.
LEMMA InvPermit ==
  ASSUME CallsInv, NEW c \in Callers, Holds(c), Permit(c), NEW f \in Cleaned, oldest' = f,
         Len(grants) + 2 - f <= MaxCalls, UNCHANGED <<clock, attempt>>,
         wakeAt' \in [Callers -> Int]
  PROVE  CallsInv'
  <1>1. /\ f \in oldest..Len(grants) + 1
        /\ \A i \in 1..(f - 1) : clock - grants[i] >= Window
    BY CleanedFacts
  <1>2. /\ grants' \in Seq(Nat)
        /\ Len(grants') = Len(grants) + 1
        /\ \A i \in 1..Len(grants) : grants'[i] = grants[i]
    BY GrantAppended DEF CallsInv, CallsTypeOK, Permit
  <1>3. Len(grants) \in Nat /\ oldest \in 1..Len(grants) + 1
    BY LenProperties DEF CallsInv, CallsTypeOK
  <1>4. lockQueue' \in Seq(Callers)
    BY HeadTailProperties DEF CallsInv, CallsTypeOK, Holds, Permit
  <1>5. CallsTypeOK'
    <2>1. oldest' \in 1..Len(grants') + 1
      BY <1>1, <1>2, <1>3
    <2>2. callPc' \in [Callers -> {"idle", "queued", "asleep", "calling", "backoff"}]
      BY DEF CallsInv, CallsTypeOK, Permit
    <2>3. QED
      BY <1>2, <1>4, <2>1, <2>2 DEF CallsInv, CallsTypeOK
  <1>6. LeftTheWindow'
    <2>1. SUFFICES ASSUME NEW i \in 1..(f - 1) PROVE clock - grants'[i] >= Window
      BY DEF LeftTheWindow
    <2>2. i \in 1..Len(grants)
      BY <1>1, <1>3, <2>1
    <2>3. grants'[i] = grants[i] /\ clock - grants[i] >= Window
      BY <1>1, <1>2, <2>1, <2>2
    <2>4. QED
      BY <2>3
  <1>7. DequeBounded'
    BY <1>1, <1>2, <1>3 DEF DequeBounded
  <1>8. SleeperHolds'
    <2>1. \A d \in Callers \ {c} : callPc[d] # "asleep"
      BY DEF CallsInv, SleeperHolds, Holds
    <2>2. \A d \in Callers : callPc'[d] # "asleep"
      BY <2>1 DEF CallsInv, CallsTypeOK, Permit
    <2>3. QED
      BY <2>2 DEF SleeperHolds
  <1>9. QED
    BY <1>5, <1>6, <1>7, <1>8 DEF CallsInv

LEMMA AcquireHasRoom ==
  ASSUME CallsInv, NEW c \in Callers, Acquire(c)
  PROVE  \E f \in Cleaned : oldest' = f /\ Len(grants) + 2 - f <= MaxCalls
  <1>1. PICK f \in Cleaned : oldest' = f /\ ~Full(f)
    BY DEF Acquire
  <1>2. f \in Int /\ Len(grants) \in Nat /\ MaxCalls \in Nat
    BY CallsAssumption, LenProperties DEF Cleaned, CallsInv, CallsTypeOK
  <1>3. QED
    BY <1>1, <1>2 DEF Full

\* The sleeper's own wait has taken the oldest timestamp out of the window.
LEMMA SleepMakesRoom ==
  ASSUME CallsInv, NEW c \in Callers, AcquireAfterWait(c)
  PROVE  /\ Holds(c)
         /\ \E f \in Cleaned : oldest' = f /\ Len(grants) + 2 - f <= MaxCalls
  <1>1. Holds(c) /\ oldest <= Len(grants) /\ wakeAt[c] = grants[oldest] + Window
    BY DEF CallsInv, SleeperHolds, AcquireAfterWait
  <1>2. PICK f \in Cleaned : oldest' = f
    BY DEF AcquireAfterWait
  <1>3. /\ Len(grants) \in Nat /\ oldest \in 1..Len(grants) + 1 /\ MaxCalls \in Nat
        /\ clock \in Nat /\ Window \in Nat
    BY CallsAssumption, LenProperties DEF CallsInv, CallsTypeOK
  <1>4. grants[oldest] \in Nat
    BY <1>1, <1>3, ElementOfSeq DEF CallsInv, CallsTypeOK
  <1>5. Expired(oldest)
    BY <1>1, <1>3, <1>4 DEF AcquireAfterWait, Expired
  <1>6. f \in oldest..Len(grants) + 1 /\ f # oldest
    BY <1>1, <1>5, CleanedFacts
  <1>7. Len(grants) + 2 - f <= MaxCalls
    BY <1>3, <1>6 DEF CallsInv, DequeBounded
  <1>8. QED
    BY <1>1, <1>2, <1>7
-----------------------------------------------------------------------------

LEMMA InvNext == CallsInv /\ [CallsNext]_callVars => CallsInv'
  <1> SUFFICES ASSUME CallsInv, [CallsNext]_callVars PROVE CallsInv'
    OBVIOUS
  <1>1. ASSUME NEW c \in Callers, CallTushare(c) PROVE CallsInv'
    <2>1. wakeAt' = wakeAt /\ attempt' = attempt
      BY <1>1 DEF CallTushare
    <2>2. QED
      BY <1>1, <2>1, InvEnqueue DEF CallTushare, CallsInv, CallsTypeOK
  <1>2. ASSUME NEW c \in Callers, Acquire(c) PROVE CallsInv'
    <2>1. PICK f \in Cleaned : oldest' = f /\ Len(grants) + 2 - f <= MaxCalls
      BY <1>2, AcquireHasRoom
    <2>2. Holds(c) /\ Permit(c) /\ UNCHANGED <<clock, wakeAt, attempt>>
      BY <1>2 DEF Acquire
    <2>3. wakeAt' \in [Callers -> Int]
      BY <2>2 DEF CallsInv, CallsTypeOK
    <2>4. QED
      BY <2>1, <2>2, <2>3, InvPermit
  <1>3. ASSUME NEW c \in Callers, AcquireWaits(c) PROVE CallsInv'
    <2>1. PICK f \in Cleaned : /\ oldest' = f /\ Full(f)
                               /\ wakeAt' = [wakeAt EXCEPT ![c] = grants[f] + Window]
      BY <1>3 DEF AcquireWaits
    <2>2. /\ f \in oldest..Len(grants) + 1
          /\ \A i \in 1..(f - 1) : clock - grants[i] >= Window
      BY CleanedFacts
    <2>3. /\ Len(grants) \in Nat /\ oldest \in 1..Len(grants) + 1
          /\ MaxCalls \in Nat \ {0} /\ Window \in Nat
      BY CallsAssumption, LenProperties DEF CallsInv, CallsTypeOK
    <2>4. f <= Len(grants)
      BY <2>1, <2>2, <2>3 DEF Full
    <2>5. grants[f] \in Nat
      BY <2>2, <2>3, <2>4, ElementOfSeq DEF CallsInv, CallsTypeOK
    <2>6. /\ Holds(c) /\ callPc' = [callPc EXCEPT ![c] = "asleep"]
          /\ UNCHANGED <<clock, grants, lockQueue, attempt>>
      BY <1>3 DEF AcquireWaits
    <2>7. wakeAt' \in [Callers -> Int]
      BY <2>1, <2>3, <2>5 DEF CallsInv, CallsTypeOK
    <2>8. CallsTypeOK'
      BY <2>1, <2>2, <2>3, <2>6, <2>7 DEF CallsInv, CallsTypeOK
    <2>9. LeftTheWindow' /\ DequeBounded'
      BY <2>1, <2>2, <2>3, <2>6 DEF CallsInv, LeftTheWindow, DequeBounded
    <2>10. SleeperHolds'
      <3>1. \A d \in Callers \ {c} : callPc[d] # "asleep"
        BY <2>6 DEF CallsInv, SleeperHolds, Holds
      <3>2. \A d \in Callers : callPc'[d] = "asleep" => d = c
        BY <2>6, <3>1 DEF CallsInv, CallsTypeOK
      <3>3. Holds(c)' /\ wakeAt'[c] = grants'[oldest'] + Window
        BY <2>1, <2>6 DEF CallsInv, CallsTypeOK, Holds
      <3>4. oldest' <= Len(grants')
        BY <2>1, <2>4, <2>6
      <3>5. QED
        BY <3>2, <3>3, <3>4 DEF SleeperHolds
    <2>11. QED
      BY <2>8, <2>9, <2>10 DEF CallsInv
  <1>4. ASSUME NEW c \in Callers, AcquireAfterWait(c) PROVE CallsInv'
    <2>1. PICK f \in Cleaned : oldest' = f /\ Len(grants) + 2 - f <= MaxCalls
      BY <1>4, SleepMakesRoom
    <2>2. Holds(c)
      BY <1>4, SleepMakesRoom
    <2>3. Permit(c) /\ UNCHANGED <<clock, attempt>> /\ wakeAt' = [wakeAt EXCEPT ![c] = 0]
      BY <1>4 DEF AcquireAfterWait
    <2>4. wakeAt' \in [Callers -> Int]
      BY <2>3 DEF CallsInv, CallsTypeOK
    <2>5. QED
      BY <2>1, <2>2, <2>3, <2>4, InvPermit
  <1>5. ASSUME NEW c \in Callers, TushareAnswers(c) PROVE CallsInv'
    <2>1. CallsTypeOK' /\ UNCHANGED <<clock, grants, oldest>>
      BY <1>5, CallsAssumption DEF CallsInv, CallsTypeOK, TushareAnswers, limiter
    <2>2. SleeperHolds'
      BY <1>5 DEF CallsInv, CallsTypeOK, SleeperHolds, TushareAnswers, limiter, Holds
    <2>3. QED
      BY <2>1, <2>2, InvQuiet
  <1>6. ASSUME NEW c \in Callers, RateExceeded(c) PROVE CallsInv'
    <2>1. attempt[c] \in Nat /\ attempt[c] + 1 \in 0..MaxCallRetries
      BY <1>6, CallsAssumption DEF CallsInv, CallsTypeOK, RateExceeded
    <2>2. clock + BaseWait * 2 ^ attempt[c] \in Int
      <3>1. 2 ^ attempt[c] \in Int
        BY <2>1
      <3>2. QED
        BY <3>1, CallsAssumption DEF CallsInv, CallsTypeOK
    <2>3. CallsTypeOK' /\ UNCHANGED <<clock, grants, oldest>>
      BY <1>6, <2>1, <2>2 DEF CallsInv, CallsTypeOK, RateExceeded, limiter
    <2>4. SleeperHolds'
      BY <1>6 DEF CallsInv, CallsTypeOK, SleeperHolds, RateExceeded, limiter, Holds
    <2>5. QED
      BY <2>3, <2>4, InvQuiet
  <1>7. ASSUME NEW c \in Callers, Retried(c) PROVE CallsInv'
    <2>1. /\ Enqueue(c) /\ UNCHANGED <<clock, grants, oldest, attempt>>
          /\ wakeAt' = [wakeAt EXCEPT ![c] = 0]
      BY <1>7 DEF Retried
    <2>2. /\ wakeAt' \in [Callers -> Int] /\ attempt' \in [Callers -> 0..MaxCallRetries]
          /\ \A d \in Callers \ {c} : wakeAt'[d] = wakeAt[d]
      BY <2>1 DEF CallsInv, CallsTypeOK
    <2>3. QED
      BY <2>1, <2>2, InvEnqueue
  <1>8. ASSUME ClockTicks PROVE CallsInv'
    <2>1. clock' = clock + 1 /\ clock \in Nat
          /\ UNCHANGED <<grants, oldest, lockQueue, callPc, wakeAt, attempt>>
      BY <1>8 DEF ClockTicks, CallsInv, CallsTypeOK
    <2>2. CallsTypeOK'
      BY <2>1 DEF CallsInv, CallsTypeOK
    <2>3. \A i \in 1..(oldest - 1) : grants[i] \in Nat
      BY ElementOfSeq, LenProperties DEF CallsInv, CallsTypeOK
    <2>4. LeftTheWindow'
      BY <2>1, <2>3, CallsAssumption DEF CallsInv, LeftTheWindow
    <2>5. DequeBounded' /\ SleeperHolds'
      BY <2>1 DEF CallsInv, DequeBounded, SleeperHolds, Holds
    <2>6. QED
      BY <2>2, <2>4, <2>5 DEF CallsInv
  <1>9. CASE UNCHANGED callVars
    BY <1>9 DEF CallsInv, CallsTypeOK, LeftTheWindow, DequeBounded, SleeperHolds, Holds, callVars
  <1>10. QED
    BY <1>1, <1>2, <1>3, <1>4, <1>5, <1>6, <1>7, <1>8, <1>9 DEF CallsNext, TushareStep

\* The deque holds at most MaxCalls timestamps, everything it dropped is
\* outside the window, and only the holder of the lock sleeps for it.
THEOREM DequeInvariant == CallsSpec => []CallsInv
  BY InvInit, InvNext, PTL DEF CallsSpec

-----------------------------------------------------------------------------
(* The refinement. *)

LEMMA GrantStep ==
  ASSUME CallsInv, NEW c \in Callers, Permit(c), UNCHANGED clock,
         \E f \in Cleaned : oldest' = f /\ Len(grants) + 2 - f <= MaxCalls
  PROVE  Promise!Grant
  BY RoomForOne DEF Permit, Promise!Grant

LEMMA StepMapped == CallsInv /\ [CallsNext]_callVars => [Promise!WindowNext]_(Promise!windowVars)
  <1> SUFFICES ASSUME CallsInv, CallsNext
               PROVE  Promise!WindowNext \/ UNCHANGED Promise!windowVars
    BY DEF callVars, Promise!windowVars
  <1>1. ASSUME NEW c \in Callers, Acquire(c) PROVE Promise!Grant
    BY <1>1, AcquireHasRoom, GrantStep DEF Acquire
  <1>2. ASSUME NEW c \in Callers, AcquireAfterWait(c) PROVE Promise!Grant
    BY <1>2, SleepMakesRoom, GrantStep DEF AcquireAfterWait
  <1>3. ASSUME ClockTicks PROVE Promise!Pass
    BY <1>3 DEF ClockTicks, Promise!Pass, CallsInv, CallsTypeOK
  <1>4. ASSUME NEW c \in Callers,
               CallTushare(c) \/ AcquireWaits(c) \/ TushareAnswers(c) \/ RateExceeded(c) \/ Retried(c)
        PROVE  UNCHANGED Promise!windowVars
    BY <1>4 DEF CallTushare, AcquireWaits, TushareAnswers, RateExceeded, Retried, limiter,
                Promise!windowVars
  <1>5. QED
    BY <1>1, <1>2, <1>3, <1>4 DEF CallsNext, TushareStep, Promise!WindowNext

\* However many coroutines queue, sleep, call and retry, SlidingWindowRateLimiter
\* grants a call only at least Window after the one MaxCalls before it: the
\* detailed limiter implements the sliding window.
THEOREM LimiterImplementsWindow == CallsSpec => GrantsWithinWindow
  <1>1. CallsInit => Promise!WindowInit
    BY DEF CallsInit, Promise!WindowInit
  <1>2. QED
    BY <1>1, StepMapped, DequeInvariant, PTL
       DEF CallsSpec, GrantsWithinWindow, Promise!WindowSpec

-----------------------------------------------------------------------------
(* What the sliding window gives the provider. *)

\* NoBurst with the types and the present it needs to be inductive.
WindowInv ==
  /\ clock \in Nat /\ grants \in Seq(Nat)
  /\ \A i \in 1..Len(grants) : grants[i] <= clock
  /\ Promise!NoBurst

LEMMA WindowInvInit == Promise!WindowInit => WindowInv
  BY EmptySeq DEF Promise!WindowInit, WindowInv, Promise!NoBurst

LEMMA WindowInvGrant == WindowInv /\ Promise!Grant => WindowInv'
  <1> SUFFICES ASSUME WindowInv, Promise!Grant PROVE WindowInv'
    OBVIOUS
  <1>1. /\ clock' = clock /\ grants' \in Seq(Nat)
        /\ Len(grants') = Len(grants) + 1
        /\ \A i \in 1..Len(grants) : grants'[i] = grants[i]
        /\ grants'[Len(grants) + 1] = clock
    BY GrantAppended DEF WindowInv, Promise!Grant
  <1>2. Len(grants) \in Nat /\ MaxCalls \in Nat \ {0}
    BY CallsAssumption, LenProperties DEF WindowInv
  <1>3. \A i \in 1..Len(grants) : grants[i] \in Nat
    BY ElementOfSeq DEF WindowInv
  <1>4. \A i \in 1..Len(grants') : grants'[i] <= clock'
    BY <1>1, <1>2 DEF WindowInv
  <1>5. \A i, j \in 1..Len(grants') : i <= j => grants'[i] <= grants'[j]
    <2> SUFFICES ASSUME NEW i \in 1..Len(grants'), NEW j \in 1..Len(grants'), i <= j
                 PROVE  grants'[i] <= grants'[j]
      OBVIOUS
    <2>1. CASE j = Len(grants) + 1
      BY <1>1, <1>4, <2>1
    <2>2. CASE j <= Len(grants)
      <3>1. i \in 1..Len(grants) /\ j \in 1..Len(grants)
        BY <1>2, <2>2
      <3>2. grants[i] <= grants[j]
        BY <3>1 DEF WindowInv, Promise!NoBurst
      <3>3. QED
        BY <1>1, <3>1, <3>2
    <2>3. QED
      BY <1>1, <1>2, <2>1, <2>2
  <1>6. \A i \in 1..Len(grants') :
          i + MaxCalls <= Len(grants') => grants'[i + MaxCalls] - grants'[i] >= Window
    <2> SUFFICES ASSUME NEW i \in 1..Len(grants'), i + MaxCalls <= Len(grants')
                 PROVE  grants'[i + MaxCalls] - grants'[i] >= Window
      OBVIOUS
    <2>1. CASE i + MaxCalls <= Len(grants)
      <3>1. i \in 1..Len(grants) /\ i + MaxCalls \in 1..Len(grants)
        BY <1>2, <2>1
      <3>2. grants[i + MaxCalls] - grants[i] >= Window
        BY <2>1, <3>1 DEF WindowInv, Promise!NoBurst
      <3>3. QED
        BY <1>1, <3>1, <3>2
    <2>2. CASE i + MaxCalls = Len(grants) + 1
      <3>1. i = Len(grants) + 1 - MaxCalls /\ Len(grants) >= MaxCalls /\ i \in 1..Len(grants)
        BY <1>1, <1>2, <2>2
      <3>2. clock - grants[i] >= Window
        BY <3>1 DEF Promise!Grant
      <3>3. QED
        BY <1>1, <2>2, <3>1, <3>2
    <2>3. i + MaxCalls <= Len(grants) \/ i + MaxCalls = Len(grants) + 1
      <3>1. Len(grants) \in Nat /\ Len(grants') = Len(grants) + 1 /\ i + MaxCalls \in Int
        BY <1>1, <1>2
      <3>2. QED
        BY <3>1
    <2>4. QED
      BY <2>1, <2>2, <2>3
  <1>7. QED
    BY <1>1, <1>4, <1>5, <1>6 DEF WindowInv, Promise!NoBurst

LEMMA WindowInvNext == WindowInv /\ [Promise!WindowNext]_(Promise!windowVars) => WindowInv'
  <1> SUFFICES ASSUME WindowInv, [Promise!WindowNext]_(Promise!windowVars) PROVE WindowInv'
    OBVIOUS
  <1>1. CASE Promise!Grant
    BY <1>1, WindowInvGrant
  <1>2. CASE Promise!Pass
    <2>1. clock' \in Nat /\ clock' > clock /\ grants' = grants
      BY <1>2 DEF Promise!Pass
    <2>2. \A i \in 1..Len(grants) : grants[i] \in Nat
      BY ElementOfSeq DEF WindowInv
    <2>3. \A i \in 1..Len(grants) : grants[i] <= clock'
      BY <2>1, <2>2 DEF WindowInv
    <2>4. QED
      BY <2>1, <2>3 DEF WindowInv, Promise!NoBurst
  <1>3. CASE UNCHANGED Promise!windowVars
    BY <1>3 DEF Promise!windowVars, WindowInv, Promise!NoBurst
  <1>4. QED
    BY <1>1, <1>2, <1>3 DEF Promise!WindowNext

\* Tushare never sees more than MaxCalls calls of this process within a window,
\* whatever the callers do.
THEOREM NoBurstOfCalls == CallsSpec => []Promise!NoBurst
  <1>1. WindowInv => Promise!NoBurst
    BY DEF WindowInv
  <1>2. QED
    BY <1>1, WindowInvInit, WindowInvNext, LimiterImplementsWindow, PTL
       DEF GrantsWithinWindow, Promise!WindowSpec

-----------------------------------------------------------------------------
(* Calls to AkShare.                                                       *)

AkCall == [limited : BOOLEAN, start : Nat, end : Nat, ok : BOOLEAN]

LEMMA CallsAreRecords ==
  AkTypeOK => /\ Len(akCalls) \in Nat
              /\ \A i \in 1..Len(akCalls) : akCalls[i] \in AkCall
<1>1. \A S : \A s \in Seq(S) : Len(s) \in Nat /\ \A i \in 1..Len(s) : s[i] \in S
  OBVIOUS
<1>2. AkTypeOK => akCalls \in Seq(AkCall)
  BY DEF AkTypeOK, AkCall
<1> QED BY <1>1, <1>2

\* Only the holder of the lock sleeps or calls, and only one coroutine checks the
\* calendar.
HolderActs ==
  /\ \A c \in AkCallers : akPc[c] \in {"asleep", "calling"} => AkHolds(c)
  /\ \A c, d \in AkCallers : akPc[c] = "checking" /\ akPc[d] = "checking" => c = d

\* _akshare_last_call is not before the end of a successful call of the limiter,
\* and a sleeper waits for the interval after it.
LastIsLatest ==
  /\ akLast <= akClock
  /\ \A i \in 1..Len(akCalls) :
       /\ akCalls[i].end <= akClock
       /\ akCalls[i].limited /\ akCalls[i].ok => 0 < akCalls[i].end /\ akCalls[i].end <= akLast
  /\ \A c \in AkCallers : akPc[c] = "asleep" => akTime[c] = akLast + AkInterval

\* A time that is apart from every call of a kind that has ended.
ApartFrom(t, limited) ==
  \A i \in 1..Len(akCalls) : akCalls[i].limited = limited =>
    /\ t >= akCalls[i].end
    /\ limited /\ akCalls[i].ok => t >= akCalls[i].end + AkInterval

\* A call or check that is under way was sent apart from those that have ended.
SentApart ==
  \A c \in AkCallers :
    /\ akPc[c] = "calling" => ApartFrom(akTime[c], TRUE)
    /\ akPc[c] = "checking" => ApartFrom(akTime[c], FALSE)

AkInv == AkTypeOK /\ HolderActs /\ LastIsLatest /\ SentApart /\ AkShareCallsApart

LEMMA AkInvInit == AkInit => AkInv
  BY AkAssumption DEF AkInit, AkInv, AkTypeOK, HolderActs, LastIsLatest, SentApart, ApartFrom,
                      AkShareCallsApart

\* Whoever joins the queue, its head stays.
LEMMA JoiningKeepsHolder ==
  ASSUME AkTypeOK, NEW c \in AkCallers, akQueue' = Append(akQueue, c), NEW d \in AkCallers, AkHolds(d)
  PROVE  AkHolds(d)'
<1>1. /\ Len(akQueue) \in Nat /\ Len(akQueue') = Len(akQueue) + 1
      /\ \A i \in 1..Len(akQueue) : akQueue'[i] = akQueue[i]
  BY DEF AkTypeOK
<1>2. akQueue # <<>> => Len(akQueue) > 0
  BY DEF AkTypeOK
<1> QED BY <1>1, <1>2 DEF AkHolds

\* What a call or check that ends adds to the history.
LEMMA EndedIsLast ==
  ASSUME AkTypeOK, NEW c \in AkCallers, NEW limited \in BOOLEAN, NEW ok \in BOOLEAN,
         Ended(c, limited, ok)
  PROVE  LET n == Len(akCalls) IN
         /\ n \in Nat /\ Len(akCalls') = n + 1
         /\ \A i \in 1..n : akCalls'[i] = akCalls[i]
         /\ akCalls'[n + 1] = [limited |-> limited, start |-> akTime[c], end |-> akClock, ok |-> ok]
         /\ akCalls' \in Seq(AkCall) /\ akTime' \in [AkCallers -> Nat]
<1> DEFINE new == [limited |-> limited, start |-> akTime[c], end |-> akClock, ok |-> ok]
<1>1. akCalls \in Seq(AkCall) /\ new \in AkCall /\ akTime' \in [AkCallers -> Nat]
  BY DEF AkTypeOK, AkCall, Ended
<1>2. akCalls' = Append(akCalls, new)
  BY DEF Ended
<1> HIDE DEF new
<1>3. akCalls' \in Seq(AkCall) /\ Len(akCalls) \in Nat /\ Len(akCalls') = Len(akCalls) + 1
  BY <1>1, <1>2
<1>4. /\ \A i \in 1..Len(akCalls) : akCalls'[i] = akCalls[i]
      /\ akCalls'[Len(akCalls) + 1] = new
  BY <1>1, <1>2
<1> QED BY <1>1, <1>3, <1>4 DEF new

\* A call of one kind that was sent apart from its own kind may join the history.
LEMMA EndedStaysApart ==
  ASSUME AkInv, NEW c \in AkCallers, NEW limited \in BOOLEAN, NEW ok \in BOOLEAN,
         Ended(c, limited, ok), ApartFrom(akTime[c], limited)
  PROVE  AkShareCallsApart'
<1> DEFINE n == Len(akCalls)
<1>1. AkTypeOK /\ AkShareCallsApart
  BY DEF AkInv
<1>2. /\ n \in Nat /\ Len(akCalls') = n + 1
      /\ \A i \in 1..n : akCalls'[i] = akCalls[i]
      /\ akCalls'[n + 1] = [limited |-> limited, start |-> akTime[c], end |-> akClock, ok |-> ok]
  BY <1>1, EndedIsLast
<1>3. SUFFICES ASSUME NEW i \in 1..n, NEW j \in 1..(n + 1), i < j,
                      akCalls'[i].limited = akCalls'[j].limited
               PROVE  /\ akCalls'[j].start >= akCalls'[i].end
                      /\ akCalls'[i].limited /\ akCalls'[i].ok
                           => akCalls'[j].start >= akCalls'[i].end + AkInterval
  BY <1>2 DEF AkShareCallsApart
<1>4. CASE j = n + 1
  BY <1>2, <1>4, <1>3 DEF ApartFrom
<1>5. CASE j # n + 1
  <2>1. j \in 1..n /\ akCalls'[i] = akCalls[i] /\ akCalls'[j] = akCalls[j]
    BY <1>2, <1>5
  <2> QED BY <1>1, <1>3, <2>1 DEF AkShareCallsApart
<1> QED BY <1>4, <1>5

LEMMA AkInvStep == AkInv /\ [AkNext]_akVars => AkInv'
<1> SUFFICES ASSUME AkInv, [AkNext]_akVars PROVE AkInv'
  OBVIOUS
<1> USE AkAssumption
<1>0. AkTypeOK /\ HolderActs /\ LastIsLatest /\ SentApart /\ AkShareCallsApart
  BY DEF AkInv
<1>1. CASE UNCHANGED akVars
  BY <1>0, <1>1 DEF akVars, AkInv, AkTypeOK, HolderActs, LastIsLatest, SentApart, ApartFrom,
                    AkShareCallsApart, AkHolds
<1>2. ASSUME NEW c \in AkCallers, CallAkShare(c) PROVE AkInv'
  <2>1. AkTypeOK'
    BY <1>0, <1>2 DEF CallAkShare, AkTypeOK
  <2>2. \A d \in AkCallers : /\ akPc'[d] \in {"asleep", "calling", "checking"} => akPc'[d] = akPc[d]
                             /\ akTime'[d] = akTime[d]
    BY <1>0, <1>2 DEF CallAkShare, AkTypeOK
  <2>3. \A d \in AkCallers : AkHolds(d) => AkHolds(d)'
    BY <1>0, <1>2, JoiningKeepsHolder DEF CallAkShare
  <2>4. HolderActs'
    BY <1>0, <2>2, <2>3 DEF HolderActs
  <2>5. LastIsLatest'
    BY <1>0, <1>2, <2>2 DEF CallAkShare, LastIsLatest
  <2>6. SentApart' /\ AkShareCallsApart'
    BY <1>0, <1>2, <2>2 DEF CallAkShare, SentApart, ApartFrom, AkShareCallsApart
  <2> QED BY <2>1, <2>4, <2>5, <2>6 DEF AkInv
<1>3. ASSUME NEW c \in AkCallers, AkPauses(c) PROVE AkInv'
  <2>1. AkTypeOK'
    BY <1>0, <1>3 DEF AkPauses, AkTypeOK
  <2>2. /\ \A d \in AkCallers \ {c} : akPc'[d] = akPc[d] /\ akTime'[d] = akTime[d]
        /\ akPc'[c] = "asleep" /\ akTime'[c] = akLast + AkInterval
    BY <1>0, <1>3 DEF AkPauses, AkTypeOK
  <2>3. HolderActs'
    BY <1>0, <1>3, <2>2 DEF AkPauses, HolderActs, AkHolds
  <2>4. LastIsLatest'
    BY <1>0, <1>3, <2>2 DEF AkPauses, LastIsLatest
  <2>5. SentApart' /\ AkShareCallsApart'
    BY <1>0, <1>3, <2>2 DEF AkPauses, SentApart, ApartFrom, AkShareCallsApart
  <2> QED BY <2>1, <2>3, <2>4, <2>5 DEF AkInv
<1>4. ASSUME NEW c \in AkCallers, AkStarts(c) PROVE AkInv'
  <2>1. AkTypeOK'
    BY <1>0, <1>4 DEF AkStarts, AkTypeOK
  <2>2. /\ \A d \in AkCallers \ {c} : akPc'[d] = akPc[d] /\ akTime'[d] = akTime[d]
        /\ akPc'[c] = "calling" /\ akTime'[c] = akClock
    BY <1>0, <1>4 DEF AkStarts, AkTypeOK
  <2>3. AkHolds(c)
    BY <1>0, <1>4 DEF AkStarts, HolderActs
  <2>4. HolderActs'
    BY <1>0, <1>4, <2>2, <2>3 DEF AkStarts, HolderActs, AkHolds
  <2>5. LastIsLatest'
    BY <1>0, <1>4, <2>2 DEF AkStarts, LastIsLatest
  <2>6. akLast = 0 \/ akClock >= akLast + AkInterval
    BY <1>0, <1>4 DEF AkStarts, PauseNeeded, LastIsLatest, AkTypeOK
  <2>7. ApartFrom(akClock, TRUE)
    <3>1. SUFFICES ASSUME NEW i \in 1..Len(akCalls), akCalls[i].limited = TRUE
                   PROVE  /\ akClock >= akCalls[i].end
                          /\ akCalls[i].ok => akClock >= akCalls[i].end + AkInterval
      BY DEF ApartFrom
    <3>2. akCalls[i].end \in Nat /\ akLast \in Nat /\ akClock \in Nat /\ AkInterval \in Nat
      BY <1>0, CallsAreRecords, AkAssumption DEF AkCall, AkTypeOK
    <3>3. /\ akCalls[i].end <= akClock
          /\ akCalls[i].ok => 0 < akCalls[i].end /\ akCalls[i].end <= akLast
      BY <1>0, <3>1 DEF LastIsLatest
    <3> QED BY <2>6, <3>2, <3>3
  <2>8. SentApart' /\ AkShareCallsApart'
    BY <1>0, <1>4, <2>2, <2>7 DEF AkStarts, SentApart, ApartFrom, AkShareCallsApart
  <2> QED BY <2>1, <2>4, <2>5, <2>8 DEF AkInv
<1>5. ASSUME NEW c \in AkCallers, AkEnds(c) PROVE AkInv'
  <2> DEFINE n == Len(akCalls)
  <2>1. PICK ok \in BOOLEAN :
          akLast' = (IF ok THEN akClock ELSE akLast) /\ Ended(c, TRUE, ok)
    BY <1>5 DEF AkEnds
  <2>2. /\ n \in Nat /\ Len(akCalls') = n + 1
        /\ \A i \in 1..n : akCalls'[i] = akCalls[i]
        /\ akCalls'[n + 1] = [limited |-> TRUE, start |-> akTime[c], end |-> akClock, ok |-> ok]
        /\ akCalls' \in Seq(AkCall) /\ akTime' \in [AkCallers -> Nat]
    BY <1>0, <2>1, EndedIsLast
  <2>3. AkHolds(c) /\ LoopRuns
    BY <1>0, <1>5 DEF AkEnds, HolderActs
  <2>4. AkTypeOK'
    <3>1. akCalls' \in Seq([limited : BOOLEAN, start : Nat, end : Nat, ok : BOOLEAN])
      BY <2>2 DEF AkCall
    <3>2. akQueue' \in Seq(AkCallers)
      BY <1>0, <1>5, <2>3 DEF AkEnds, AkHolds, AkTypeOK
    <3> QED BY <1>0, <1>5, <2>1, <2>2, <3>1, <3>2 DEF AkEnds, AkTypeOK
  <2>5. \A d \in AkCallers : akPc'[d] \notin {"asleep", "calling", "checking"}
    BY <1>0, <1>5, <2>3 DEF AkEnds, HolderActs, AkHolds, AkTypeOK, LoopRuns
  <2>6. HolderActs' /\ SentApart'
    BY <2>5 DEF HolderActs, SentApart
  <2>7. LastIsLatest'
    <3>1. /\ akClock' = akClock /\ akClock \in Nat \ {0} /\ akLast \in Nat /\ akLast <= akClock
          /\ akLast' = IF ok THEN akClock ELSE akLast
      BY <1>0, <1>5, <2>1 DEF AkEnds, LastIsLatest, AkTypeOK
    <3>2. ASSUME NEW i \in 1..(n + 1)
          PROVE  /\ akCalls'[i].end <= akClock'
                 /\ akCalls'[i].limited /\ akCalls'[i].ok
                      => 0 < akCalls'[i].end /\ akCalls'[i].end <= akLast'
      <4>1. CASE i = n + 1
        BY <2>2, <3>1, <4>1
      <4>2. CASE i # n + 1
        <5>1. i \in 1..n /\ akCalls'[i] = akCalls[i] /\ akCalls[i].end \in Nat
          BY <1>0, <2>2, <4>2, CallsAreRecords DEF AkCall
        <5>2. /\ akCalls[i].end <= akClock
              /\ akCalls[i].limited /\ akCalls[i].ok
                   => 0 < akCalls[i].end /\ akCalls[i].end <= akLast
          BY <1>0, <5>1 DEF LastIsLatest
        <5> QED BY <3>1, <5>1, <5>2
      <4> QED BY <4>1, <4>2
    <3>3. akLast' <= akClock'
      BY <3>1
    <3>4. 1..Len(akCalls') = 1..(n + 1)
      BY <2>2
    <3>5. \A d \in AkCallers : akPc'[d] # "asleep"
      BY <2>5
    <3> HIDE DEF n
    <3> QED BY <3>2, <3>3, <3>4, <3>5 DEF LastIsLatest
  <2>8. ApartFrom(akTime[c], TRUE)
    BY <1>0, <1>5 DEF AkEnds, SentApart
  <2>9. AkShareCallsApart'
    BY <2>1, <2>8, EndedStaysApart
  <2> QED BY <2>4, <2>6, <2>7, <2>9 DEF AkInv
<1>6. ASSUME NEW c \in AkCallers, ChecksCalendar(c) PROVE AkInv'
  <2>1. AkTypeOK'
    BY <1>0, <1>6 DEF ChecksCalendar, AkTypeOK
  <2>2. /\ \A d \in AkCallers \ {c} : akPc'[d] = akPc[d] /\ akTime'[d] = akTime[d]
        /\ akPc'[c] = "checking" /\ akTime'[c] = akClock
    BY <1>0, <1>6 DEF ChecksCalendar, AkTypeOK
  <2>3. HolderActs'
    BY <1>0, <1>6, <2>2 DEF ChecksCalendar, HolderActs, AkHolds, LoopRuns
  <2>4. LastIsLatest'
    BY <1>0, <1>6, <2>2 DEF ChecksCalendar, LastIsLatest
  <2>5. ApartFrom(akClock, FALSE)
    BY <1>0, CallsAreRecords DEF LastIsLatest, ApartFrom, AkTypeOK, AkCall
  <2>6. SentApart' /\ AkShareCallsApart'
    BY <1>0, <1>6, <2>2, <2>5 DEF ChecksCalendar, SentApart, ApartFrom, AkShareCallsApart
  <2> QED BY <2>1, <2>3, <2>4, <2>6 DEF AkInv
<1>7. ASSUME NEW c \in AkCallers, CalendarAnswers(c) PROVE AkInv'
  <2> DEFINE n == Len(akCalls)
  <2>1. PICK ok \in BOOLEAN : Ended(c, FALSE, ok)
    BY <1>7 DEF CalendarAnswers
  <2>2. /\ n \in Nat /\ Len(akCalls') = n + 1
        /\ \A i \in 1..n : akCalls'[i] = akCalls[i]
        /\ akCalls'[n + 1] = [limited |-> FALSE, start |-> akTime[c], end |-> akClock, ok |-> ok]
        /\ akCalls' \in Seq(AkCall) /\ akTime' \in [AkCallers -> Nat]
    BY <1>0, <2>1, EndedIsLast
  <2>3. akQueue' = akQueue \/ akQueue' = Append(akQueue, c)
    BY <1>7 DEF CalendarAnswers
  <2>4. AkTypeOK'
    <3>1. akCalls' \in Seq([limited : BOOLEAN, start : Nat, end : Nat, ok : BOOLEAN])
      BY <2>2 DEF AkCall
    <3>2. akQueue' \in Seq(AkCallers)
      <4>1. akQueue \in Seq(AkCallers)
        BY <1>0 DEF AkTypeOK
      <4>2. Append(akQueue, c) \in Seq(AkCallers)
        BY <4>1
      <4> QED BY <2>3, <4>1, <4>2
    <3>3. /\ akPc' \in [AkCallers -> {"idle", "checking", "queued", "asleep", "calling"}]
          /\ akClock' = akClock /\ akLast' = akLast
      BY <1>0, <1>7 DEF CalendarAnswers, AkTypeOK
    <3> HIDE DEF n
    <3> QED BY <1>0, <2>2, <3>1, <3>2, <3>3 DEF AkTypeOK
  <2>5. /\ \A d \in AkCallers \ {c} : akPc'[d] = akPc[d] /\ akTime'[d] = akTime[d]
        /\ akPc'[c] \in {"idle", "queued"}
    BY <1>0, <1>7, <2>1 DEF CalendarAnswers, AkTypeOK, Ended
  <2>6. \A d \in AkCallers : akPc[d] = "checking" => d = c
    BY <1>0, <1>7 DEF CalendarAnswers, HolderActs
  <2>7. \A d \in AkCallers : AkHolds(d) => AkHolds(d)'
    BY <1>0, <2>3, JoiningKeepsHolder DEF AkHolds
  <2>8. HolderActs'
    BY <1>0, <2>5, <2>7 DEF HolderActs
  <2>9. LastIsLatest'
    <3>1. akClock' = akClock /\ akLast' = akLast /\ akClock \in Nat
      BY <1>0, <1>7 DEF CalendarAnswers, AkTypeOK
    <3>2. ASSUME NEW i \in 1..(n + 1)
          PROVE  /\ akCalls'[i].end <= akClock
                 /\ akCalls'[i].limited /\ akCalls'[i].ok
                      => 0 < akCalls'[i].end /\ akCalls'[i].end <= akLast
      <4>1. CASE i = n + 1
        BY <2>2, <3>1, <4>1
      <4>2. CASE i # n + 1
        <5>1. i \in 1..n /\ akCalls'[i] = akCalls[i]
          BY <2>2, <4>2
        <5> QED BY <1>0, <5>1 DEF LastIsLatest
      <4> QED BY <4>1, <4>2
    <3>3. 1..Len(akCalls') = 1..(n + 1)
      BY <2>2
    <3>4. \A d \in AkCallers : akPc'[d] = "asleep" => akTime'[d] = akLast' + AkInterval
      BY <1>0, <2>5, <3>1 DEF LastIsLatest
    <3>5. akLast' <= akClock'
      BY <1>0, <3>1 DEF LastIsLatest
    <3> HIDE DEF n
    <3> QED BY <3>1, <3>2, <3>3, <3>4, <3>5 DEF LastIsLatest
  <2>10. ApartFrom(akTime[c], FALSE)
    BY <1>0, <1>7 DEF CalendarAnswers, SentApart
  <2>11. AkShareCallsApart'
    BY <2>1, <2>10, EndedStaysApart
  <2>12. SentApart'
    <3>1. ASSUME NEW d \in AkCallers, akPc'[d] = "calling" PROVE ApartFrom(akTime[d], TRUE)'
      <4>1. akPc[d] = "calling" /\ akTime'[d] = akTime[d]
        BY <2>5, <3>1
      <4>2. ApartFrom(akTime[d], TRUE)
        BY <1>0, <4>1 DEF SentApart
      <4>3. ASSUME NEW i \in 1..(n + 1), akCalls'[i].limited = TRUE
            PROVE  /\ akTime[d] >= akCalls'[i].end
                   /\ akCalls'[i].ok => akTime[d] >= akCalls'[i].end + AkInterval
        <5>1. i # n + 1
          BY <2>2, <4>3
        <5>2. i \in 1..n /\ akCalls'[i] = akCalls[i]
          BY <2>2, <5>1
        <5> QED BY <4>2, <4>3, <5>2 DEF ApartFrom
      <4> QED BY <2>2, <4>1, <4>3 DEF ApartFrom
    <3>2. \A d \in AkCallers : akPc'[d] # "checking"
      BY <2>5, <2>6
    <3> QED BY <3>1, <3>2 DEF SentApart
  <2> QED BY <2>4, <2>8, <2>9, <2>11, <2>12 DEF AkInv
<1>8. CASE AkTicks
  <2>1. AkTypeOK'
    BY <1>0, <1>8 DEF AkTicks, AkTypeOK
  <2>2. HolderActs'
    BY <1>0, <1>8 DEF AkTicks, HolderActs, AkHolds
  <2>3. LastIsLatest'
    <3>1. \A i \in 1..Len(akCalls) : akCalls[i].end \in Nat
      BY <1>0, CallsAreRecords DEF AkCall
    <3> QED BY <1>0, <1>8, <3>1 DEF AkTicks, AkTypeOK, LastIsLatest
  <2>4. SentApart' /\ AkShareCallsApart'
    BY <1>0, <1>8 DEF AkTicks, SentApart, ApartFrom, AkShareCallsApart
  <2> QED BY <2>1, <2>2, <2>3, <2>4 DEF AkInv
<1> QED BY <1>1, <1>2, <1>3, <1>4, <1>5, <1>6, <1>7, <1>8 DEF AkNext

\* Whichever clients call AkShare, and whether their calls succeed or fail, no call
\* through the limiter starts before the one before it has ended, nor within the
\* interval after a successful one: the lock is held over the pause and the call,
\* and a failed call leaves the time of the last success in place.  The checks of
\* the calendar, which take no lock, come one at a time since they hold the event
\* loop, and touch nothing that the limiter goes by.
THEOREM AkShareCallsKeepApart == AkSpec => []AkShareCallsApart
<1>1. AkInv => AkShareCallsApart
  BY DEF AkInv
<1> QED BY <1>1, AkInvInit, AkInvStep, PTL DEF AkSpec

-----------------------------------------------------------------------------
(* The registry *)

ReqFields == {"pc", "op", "alias", "row", "patch", "found", "read", "active"}

\* Requests have their fields and name an alias when they work on the table.
RequestShape ==
  /\ DOMAIN configReq = ConfigClients
  /\ \A c \in ConfigClients :
       /\ DOMAIN configReq[c] = ReqFields
       /\ configReq[c].pc \in {"lookup", "write"} =>
            /\ configReq[c].alias \in Aliases
            /\ configReq[c].op \in {"create", "update", "delete"}

\* The table, and every state it had, is about known aliases.
TableShape ==
  /\ DOMAIN configs \subseteq Aliases
  /\ \A view \in views : DOMAIN view \subseteq Aliases
  /\ DOMAIN registry \subseteq Aliases

\* What a refresh has read was once the state of the active rows.
ReadIsAView ==
  /\ ActiveConfigs \in views
  /\ \A c \in ConfigClients : configReq[c].pc = "rebuild" => configReq[c].active \in views

RegistryInv == RequestShape /\ TableShape /\ ReadIsAView /\ RegistryIsASnapshot

LEMMA RegistryInvInit == LLMInit => RegistryInv
<1> SUFFICES ASSUME LLMInit PROVE RegistryInv
  OBVIOUS
<1>1. RequestShape /\ \A c \in ConfigClients : configReq[c].pc = "idle"
  BY DEF LLMInit, RequestShape, IdleConfigReq, ReqFields
<1>2. /\ DOMAIN configs \subseteq Aliases /\ views = {ActiveConfigs}
      /\ (loaded /\ registry = Registered(ActiveConfigs)) \/ (~loaded /\ registry = <<>>)
  BY DEF LLMInit
<1>3. DOMAIN ActiveConfigs \subseteq Aliases /\ DOMAIN Registered(ActiveConfigs) \subseteq Aliases
  BY <1>2 DEF ActiveConfigs, Registered, Restrict
<1>4. TableShape
  BY <1>2, <1>3 DEF TableShape
<1>5. ReadIsAView
  BY <1>1, <1>2 DEF ReadIsAView
<1>6. RegistryIsASnapshot
  BY <1>2 DEF RegistryIsASnapshot
<1> QED BY <1>1, <1>4, <1>5, <1>6 DEF RegistryInv

\* A step that leaves the table and the registry alone and starts no rebuild.
LEMMA TableUntouched ==
  ASSUME RegistryInv, UNCHANGED <<configTables, registry, loaded>>, RequestShape',
         \A c \in ConfigClients : configReq'[c].pc = "rebuild" =>
           configReq'[c].active \in views
  PROVE  RegistryInv'
BY DEF RegistryInv, configTables, TableShape, ReadIsAView, RegistryIsASnapshot, ActiveConfigs

LEMMA ArrivesKeeps ==
  ASSUME RegistryInv, NEW c \in ConfigClients, NEW req, ConfigArrives(c, req),
         DOMAIN req = ReqFields, req.pc \in {"lookup", "refresh"},
         req.pc = "lookup" => req.alias \in Aliases /\ req.op \in {"create", "update", "delete"}
  PROVE  RegistryInv'
<1>1. RequestShape'
  BY DEF ConfigArrives, RegistryInv, RequestShape
<1>2. \A d \in ConfigClients : configReq'[d].pc = "rebuild" => configReq'[d].active \in views
  BY DEF ConfigArrives, RegistryInv, RequestShape, ReadIsAView
<1> QED BY <1>1, <1>2, TableUntouched DEF ConfigArrives

LEMMA TableRequest ==
  ASSUME NEW c \in ConfigClients, NEW a \in Aliases,
         \/ \E row \in CreatedRows : CreateConfig(c, a, row)
         \/ \E patch \in Patches : UpdateConfig(c, a, patch)
         \/ DeleteConfig(c, a)
  PROVE  \E req : /\ ConfigArrives(c, req) /\ DOMAIN req = ReqFields
                  /\ req.pc = "lookup" /\ req.alias = a
                  /\ req.op \in {"create", "update", "delete"}
<1>1. ASSUME NEW row \in CreatedRows, CreateConfig(c, a, row)
      PROVE  \E req : /\ ConfigArrives(c, req) /\ DOMAIN req = ReqFields
                      /\ req.pc = "lookup" /\ req.alias = a /\ req.op = "create"
  <2> WITNESS [IdleConfigReq EXCEPT !.pc = "lookup", !.op = "create", !.alias = a, !.row = row]
  <2> QED BY <1>1 DEF CreateConfig, IdleConfigReq, ReqFields
<1>2. ASSUME NEW patch \in Patches, UpdateConfig(c, a, patch)
      PROVE  \E req : /\ ConfigArrives(c, req) /\ DOMAIN req = ReqFields
                      /\ req.pc = "lookup" /\ req.alias = a /\ req.op = "update"
  <2> WITNESS [IdleConfigReq EXCEPT !.pc = "lookup", !.op = "update", !.alias = a,
                                    !.patch = patch]
  <2> QED BY <1>2 DEF UpdateConfig, IdleConfigReq, ReqFields
<1>3. ASSUME DeleteConfig(c, a)
      PROVE  \E req : /\ ConfigArrives(c, req) /\ DOMAIN req = ReqFields
                      /\ req.pc = "lookup" /\ req.alias = a /\ req.op = "delete"
  <2> WITNESS [IdleConfigReq EXCEPT !.pc = "lookup", !.op = "delete", !.alias = a]
  <2> QED BY <1>3 DEF DeleteConfig, IdleConfigReq, ReqFields
<1> QED BY <1>1, <1>2, <1>3

LEMMA RegistryInvStep == RegistryInv /\ [LLMNext]_llmVars => RegistryInv'
<1> SUFFICES ASSUME RegistryInv, [LLMNext]_llmVars PROVE RegistryInv'
  OBVIOUS
<1>0. RequestShape /\ TableShape /\ ReadIsAView /\ RegistryIsASnapshot
  BY DEF RegistryInv
<1>1. ASSUME NEW c \in ConfigClients, NEW a \in Aliases,
             \/ \E row \in CreatedRows : CreateConfig(c, a, row)
             \/ \E patch \in Patches : UpdateConfig(c, a, patch)
             \/ DeleteConfig(c, a)
      PROVE  RegistryInv'
  <2>1. PICK req : /\ ConfigArrives(c, req) /\ DOMAIN req = ReqFields
                   /\ req.pc = "lookup" /\ req.alias = a
                   /\ req.op \in {"create", "update", "delete"}
    BY <1>1, TableRequest
  <2> QED BY <2>1, ArrivesKeeps
<1>2. ASSUME NEW c \in ConfigClients, RefreshRegistry(c) PROVE RegistryInv'
  <2>1. PICK req : ConfigArrives(c, req) /\ DOMAIN req = ReqFields /\ req.pc = "refresh"
    BY <1>2 DEF RefreshRegistry, IdleConfigReq, ReqFields
  <2> QED BY <2>1, ArrivesKeeps
<1>3. ASSUME NEW c \in ConfigClients, LookUp(c) PROVE RegistryInv'
  <2>1. /\ DOMAIN configReq' = ConfigClients
        /\ \A d \in ConfigClients : d # c => configReq'[d] = configReq[d]
        /\ DOMAIN configReq'[c] = ReqFields
        /\ configReq'[c].pc \in {"conflict", "not_found", "write"}
        /\ configReq'[c].alias = configReq[c].alias /\ configReq'[c].op = configReq[c].op
        /\ configReq[c].pc = "lookup"
    BY <1>0, <1>3 DEF LookUp, RequestShape, ReqFields
  <2>2. RequestShape'
    BY <1>0, <2>1 DEF RequestShape
  <2>3. \A d \in ConfigClients : configReq'[d].pc = "rebuild" => configReq'[d].active \in views
    BY <1>0, <2>1 DEF ReadIsAView
  <2> QED BY <1>3, <2>2, <2>3, TableUntouched DEF LookUp
<1>4. ASSUME NEW c \in ConfigClients, WriteConfig(c) PROVE RegistryInv'
  <2>1. /\ DOMAIN configReq' = ConfigClients
        /\ \A d \in ConfigClients : d # c => configReq'[d] = configReq[d]
        /\ DOMAIN configReq'[c] = ReqFields /\ configReq'[c].pc \in {"refresh", "error"}
        /\ configReq[c].alias \in Aliases /\ configReq[c].op \in {"create", "update", "delete"}
    BY <1>0, <1>4 DEF WriteConfig, RequestShape, ReqFields
  <2>2. RequestShape'
    BY <1>0, <2>1 DEF RequestShape
  <2>3. DOMAIN configs' \subseteq Aliases
    <3>1. configs' = WrittenRows(configReq[c])
      BY <1>4 DEF WriteConfig
    <3> QED BY <1>0, <2>1, <3>1 DEF WrittenRows, SavedConfig, DeletedByAlias, Restrict, TableShape
  <2>4. DOMAIN ActiveConfigs' \subseteq Aliases
    BY <2>3 DEF ActiveConfigs, Restrict
  <2>5. views' = views \cup {ActiveConfigs'} /\ UNCHANGED <<registry, loaded>>
    BY <1>4 DEF WriteConfig
  <2>6. TableShape'
    BY <1>0, <2>3, <2>4, <2>5 DEF TableShape
  <2>7. ReadIsAView'
    BY <1>0, <2>1, <2>5 DEF ReadIsAView
  <2>8. RegistryIsASnapshot'
    BY <1>0, <2>5 DEF RegistryIsASnapshot
  <2> QED BY <2>2, <2>6, <2>7, <2>8 DEF RegistryInv
<1>5. ASSUME NEW c \in ConfigClients, ConfigStatementFails(c) PROVE RegistryInv'
  <2>1. RequestShape'
    BY <1>0, <1>5 DEF ConfigStatementFails, RequestShape, ReqFields
  <2>2. \A d \in ConfigClients : configReq'[d].pc = "rebuild" => configReq'[d].active \in views
    BY <1>0, <1>5 DEF ConfigStatementFails, RequestShape, ReadIsAView, ReqFields
  <2> QED BY <1>5, <2>1, <2>2, TableUntouched DEF ConfigStatementFails
<1>6. ASSUME NEW c \in ConfigClients, ReadActive(c) PROVE RegistryInv'
  <2>1. /\ DOMAIN configReq' = ConfigClients
        /\ \A d \in ConfigClients : d # c => configReq'[d] = configReq[d]
        /\ DOMAIN configReq'[c] = ReqFields
        /\ configReq'[c].pc = "rebuild" /\ configReq'[c].active = ActiveConfigs
    BY <1>0, <1>6 DEF ReadActive, RequestShape, ReqFields
  <2>2. RequestShape'
    BY <1>0, <2>1 DEF RequestShape
  <2>3. \A d \in ConfigClients : configReq'[d].pc = "rebuild" => configReq'[d].active \in views
    BY <1>0, <2>1 DEF ReadIsAView
  <2> QED BY <1>6, <2>2, <2>3, TableUntouched DEF ReadActive
<1>7. ASSUME NEW c \in ConfigClients, Rebuild(c) PROVE RegistryInv'
  <2>1. /\ DOMAIN configReq' = ConfigClients
        /\ \A d \in ConfigClients : d # c => configReq'[d] = configReq[d]
        /\ DOMAIN configReq'[c] = ReqFields /\ configReq'[c].pc = "done"
    BY <1>0, <1>7 DEF Rebuild, RequestShape, ReqFields, IdleConfigReq
  <2>2. /\ UNCHANGED <<configs, views>>
        /\ configReq[c].active \in views /\ registry' = Registered(configReq[c].active)
    BY <1>0, <1>7 DEF Rebuild, Rebuilt, ReadIsAView, configTables
  <2>3. RequestShape'
    BY <1>0, <2>1 DEF RequestShape
  <2>4. DOMAIN registry' \subseteq Aliases
    BY <1>0, <2>2 DEF Registered, Restrict, TableShape
  <2>5. TableShape'
    BY <1>0, <2>2, <2>4 DEF TableShape
  <2>6. ReadIsAView'
    BY <1>0, <2>1, <2>2 DEF ReadIsAView, ActiveConfigs
  <2>7. RegistryIsASnapshot'
    BY <2>2 DEF RegistryIsASnapshot, Registered
  <2> QED BY <2>3, <2>5, <2>6, <2>7 DEF RegistryInv
<1>8. ASSUME NEW c \in ConfigClients, ReadActiveFails(c) PROVE RegistryInv'
  <2>1. RequestShape'
    BY <1>0, <1>8 DEF ReadActiveFails, RequestShape, ReqFields, IdleConfigReq
  <2>2. \A d \in ConfigClients : configReq'[d].pc = "rebuild" => configReq'[d].active \in views
    BY <1>0, <1>8 DEF ReadActiveFails, RequestShape, ReadIsAView, IdleConfigReq
  <2> QED BY <1>8, <2>1, <2>2, TableUntouched DEF ReadActiveFails, KeptOnFailure
<1>9. ASSUME UNCHANGED <<configTables, registry, loaded, configReq>> PROVE RegistryInv'
  <2>1. RequestShape'
    BY <1>0, <1>9 DEF RequestShape
  <2> QED BY <1>0, <1>9, <2>1, TableUntouched DEF ReadIsAView
<1>10. ASSUME NEW c \in ChatClients,
              \/ \E alias \in Aliases : Generate(c, alias, {})
              \/ \E tags \in SUBSET Tags : Generate(c, NoAlias, tags)
              \/ CandidateAnswers(c) \/ CandidateFails(c) \/ WriteCallLog(c)
       PROVE  RegistryInv'
  BY <1>9, <1>10 DEF Generate, CandidateAnswers, CandidateFails, WriteCallLog
<1>11. CASE UNCHANGED llmVars
  BY <1>9, <1>11 DEF llmVars
<1> QED BY <1>1, <1>2, <1>3, <1>4, <1>5, <1>6, <1>7, <1>8, <1>10, <1>11 DEF LLMNext

LEMMA RegistryInvariant == LLMSpec => []RegistryInv
BY RegistryInvInit, RegistryInvStep, PTL DEF LLMSpec

\* Once loaded, the registry holds the supported models of one state of the table,
\* however many requests, refreshes and failing queries overlap: it is rebuilt in
\* one step from one answer, and a refresh that fails leaves it alone.
THEOREM RegistryIsOneTable == LLMSpec => []RegistryIsASnapshot
<1>1. RegistryInv => RegistryIsASnapshot
  BY DEF RegistryInv
<1> QED BY <1>1, RegistryInvariant, PTL

-----------------------------------------------------------------------------
(* Calls *)

LEMMA Smallest == ASSUME NEW T \in SUBSET Nat, T # {} PROVE \E x \in T : \A y \in T : x <= y
<1>1. \E R : IsWellFoundedOn(R, Nat) /\ \A x, y \in Nat : y < x => <<y, x>> \in R
  <2> DEFINE R == OpToRel(<, Nat)
  <2>1. \A x, y \in Nat : y < x => <<y, x>> \in R
    BY DEF OpToRel
  <2>2. IsWellFoundedOn(R, Nat)
    BY NatLessThanWellFounded
  <2> HIDE DEF R
  <2> QED BY <2>1, <2>2
<1>2. PICK R : IsWellFoundedOn(R, Nat) /\ \A x, y \in Nat : y < x => <<y, x>> \in R
  BY <1>1
<1>3. PICK x \in T : \A y \in T : ~ (<<y, x>> \in R)
  BY <1>2, WFMin
<1>4. ASSUME NEW y \in T PROVE x <= y
  <2>1. x \in Nat /\ y \in Nat
    OBVIOUS
  <2>2. ~(y < x)
    BY <1>2, <1>3, <2>1
  <2> QED BY <2>1, <2>2
<1> QED BY <1>4

ChatFields == {"pc", "candidates", "turn", "rows", "tried", "missing", "logged"}

\* The candidates before position i were called, or were gone at their turn.
DoneBefore(call, i) == {call.candidates[j] : j \in 1..(i - 1)} = call.tried \cup call.missing

ChatHolds(call) ==
  /\ DOMAIN call = ChatFields
  /\ call.candidates \in Seq(Aliases) /\ Len(call.candidates) <= Cardinality(Aliases)
  /\ call.pc \in {"idle", "call", "ok", "failed"} /\ call.turn \in 1..(Len(call.candidates) + 1)
  /\ call.tried \cup call.missing \subseteq Aliases
  /\ call.pc = "call" => call.turn \in 1..Len(call.candidates) /\ DoneBefore(call, call.turn)
  /\ call.pc = "failed" => Range(call.candidates) = call.tried \cup call.missing

ChatInv == DOMAIN chat = ChatClients /\ \A c \in ChatClients : ChatHolds(chat[c])

LEMMA GoOnHolds ==
  ASSUME NEW call, DOMAIN call = ChatFields, call.candidates \in Seq(Aliases),
         Len(call.candidates) <= Cardinality(Aliases),
         NEW i \in 1..(Len(call.candidates) + 1), DoneBefore(call, i)
  PROVE  ChatHolds(GoOn(call, i))
<1> DEFINE s == call.candidates
           there == StillThere(s, i)
           next == IF there = {} THEN Len(s) + 1 ELSE CHOOSE j \in there : \A k \in there : j <= k
           passed == {s[j] : j \in i..(next - 1)}
           new == GoOn(call, i)
<1>1. Len(s) \in Nat /\ i \in Nat /\ DOMAIN s = 1..Len(s)
  OBVIOUS
<1>2. there \subseteq i..Len(s)
  BY DEF StillThere
<1>3. next \in i..(Len(s) + 1) /\ (there # {} => next \in 1..Len(s))
  <2>1. CASE there = {}
    BY <1>1, <2>1
  <2>2. CASE there # {}
    <3>1. \E j \in there : \A k \in there : j <= k
      BY <1>1, <1>2, <2>2, Smallest
    <3>2. next \in there
      BY <2>2, <3>1
    <3> HIDE DEF next, there
    <3> QED BY <1>1, <1>2, <3>2
  <2> QED BY <2>1, <2>2
<1>4. /\ DOMAIN new = ChatFields /\ new.candidates = s /\ new.turn = next
      /\ new.pc = (IF there = {} THEN "failed" ELSE "call")
      /\ new.tried = call.tried /\ new.missing = call.missing \cup passed
  BY DEF GoOn, ChatFields
<1> HIDE DEF there, next, new
<1>5. {s[j] : j \in 1..(next - 1)} = new.tried \cup new.missing
  <2>1. 1..(next - 1) = 1..(i - 1) \cup i..(next - 1)
    BY <1>1, <1>3
  <2>2. {s[j] : j \in 1..(next - 1)} = {s[j] : j \in 1..(i - 1)} \cup passed
    BY <2>1
  <2> QED BY <1>4, <2>2 DEF DoneBefore
<1>6. there = {} => next = Len(s) + 1
  BY DEF next
<1>7. there = {} => Range(s) = new.tried \cup new.missing
  <2> SUFFICES ASSUME there = {} PROVE Range(s) = {s[j] : j \in 1..(next - 1)}
    BY <1>5
  <2>1. next - 1 = Len(s)
    BY <1>1, <1>6
  <2> QED BY <1>1, <2>1 DEF Range
<1>8. new.tried \cup new.missing \subseteq Aliases
  BY <1>1, <1>3, <1>5
<1> QED BY <1>1, <1>3, <1>4, <1>5, <1>7, <1>8 DEF ChatHolds, DoneBefore, new

LEMMA ChatInvInit == LLMInit => ChatInv
<1>1. ChatHolds(IdleChat)
  BY LLMAssumption, FS_CardinalityType DEF ChatHolds, IdleChat, ChatFields
<1> QED BY <1>1 DEF LLMInit, ChatInv

LEMMA ChatInvStep == RegistryInv /\ ChatInv /\ [LLMNext]_llmVars => ChatInv'
<1> SUFFICES ASSUME RegistryInv, ChatInv, [LLMNext]_llmVars PROVE ChatInv'
  OBVIOUS
<1>1. ASSUME NEW c \in ChatClients, NEW call, ChatHolds(call),
             chat' = [chat EXCEPT ![c] = call]
      PROVE  ChatInv'
  BY <1>1 DEF ChatInv
<1>2. ASSUME NEW c \in ChatClients, NEW alias, NEW tags, Generate(c, alias, tags) PROVE ChatInv'
  <2> DEFINE M == Matching(alias, tags)
  <2>1. M \subseteq Aliases
    BY DEF Matching, RegistryInv, TableShape
  <2>2. /\ Cardinality(M) \in Nat /\ Cardinality(Aliases) \in Nat
        /\ Cardinality(M) <= Cardinality(Aliases)
    BY <2>1, LLMAssumption, FS_Subset, FS_CardinalityType
  <2>3. PICK s \in ByPriority(M) :
          chat' = [chat EXCEPT ![c] =
                     GoOn([IdleChat EXCEPT !.candidates = s,
                                           !.rows = Restrict(registry, Range(s))], 1)]
    BY <1>2 DEF Generate
  <2>4. s \in Seq(Aliases) /\ Len(s) <= Cardinality(Aliases)
    <3> HIDE DEF M
    <3>1. s \in [1..Cardinality(M) -> Aliases]
      BY <2>1, <2>3 DEF ByPriority
    <3> QED BY <2>2, <3>1
  <2> DEFINE call == [IdleChat EXCEPT !.candidates = s, !.rows = Restrict(registry, Range(s))]
  <2>5. /\ DOMAIN call = ChatFields /\ call.candidates = s
        /\ call.tried = {} /\ call.missing = {}
    BY DEF IdleChat, ChatFields
  <2>6. chat' = [chat EXCEPT ![c] = GoOn(call, 1)]
    BY <2>3
  <2> HIDE DEF call
  <2>7. DoneBefore(call, 1) /\ 1 \in 1..(Len(call.candidates) + 1)
    BY <2>4, <2>5 DEF DoneBefore
  <2>8. ChatHolds(GoOn(call, 1))
    BY <2>4, <2>5, <2>7, GoOnHolds
  <2> QED BY <1>1, <2>6, <2>8
<1>3. ASSUME NEW c \in ChatClients, CandidateAnswers(c) PROVE ChatInv'
  <2> DEFINE call == [chat[c] EXCEPT !.pc = "ok", !.tried = @ \cup {CurrentModel(c)}]
  <2>1. ChatHolds(call)
    BY <1>3 DEF ChatInv, ChatHolds, ChatFields, CandidateAnswers, CurrentModel
  <2>2. chat' = [chat EXCEPT ![c] = call]
    BY <1>3 DEF CandidateAnswers
  <2> QED BY <1>1, <2>1, <2>2
<1>4. ASSUME NEW c \in ChatClients, CandidateFails(c) PROVE ChatInv'
  <2> DEFINE old == chat[c]
             call == [chat[c] EXCEPT !.tried = @ \cup {CurrentModel(c)}]
  <2>1. ChatHolds(old) /\ old.pc = "call"
    BY <1>4 DEF CandidateFails, ChatInv
  <2>2. chat' = [chat EXCEPT ![c] = GoOn(call, old.turn + 1)]
    <3>1. chat' = [chat EXCEPT ![c] = FailOver(call, old.turn + 1)]
      BY <1>4 DEF CandidateFails
    <3>2. FailOver(call, old.turn + 1) = GoOn(call, old.turn + 1)
      BY DEF FailOver
    <3> HIDE DEF call, old
    <3> QED BY <3>1, <3>2
  <2>3. /\ DOMAIN call = ChatFields /\ call.candidates = old.candidates
        /\ Len(old.candidates) <= Cardinality(Aliases)
        /\ call.tried = old.tried \cup {old.candidates[old.turn]} /\ call.missing = old.missing
    BY <2>1 DEF ChatHolds, ChatFields, CurrentModel
  <2>4. /\ old.candidates \in Seq(Aliases) /\ old.turn \in 1..Len(old.candidates)
        /\ {old.candidates[j] : j \in 1..(old.turn - 1)} = old.tried \cup old.missing
    BY <2>1 DEF ChatHolds, DoneBefore
  <2> HIDE DEF call, old
  <2>5. /\ old.turn + 1 \in 1..(Len(old.candidates) + 1)
        /\ (old.turn + 1) - 1 = old.turn
        /\ 1..old.turn = 1..(old.turn - 1) \cup {old.turn}
    BY <2>4
  <2>6. DoneBefore(call, old.turn + 1)
    <3>1. {old.candidates[j] : j \in 1..old.turn} =
            {old.candidates[j] : j \in 1..(old.turn - 1)} \cup {old.candidates[old.turn]}
      BY <2>5
    <3> QED BY <2>3, <2>4, <2>5, <3>1 DEF DoneBefore
  <2>7. ChatHolds(GoOn(call, old.turn + 1))
    BY <2>3, <2>4, <2>5, <2>6, GoOnHolds
  <2> QED BY <1>1, <2>2, <2>7
<1>5. ASSUME NEW c \in ChatClients, WriteCallLog(c) PROVE ChatInv'
  <2> DEFINE call == [chat[c] EXCEPT !.logged = TRUE]
  <2>1. ChatHolds(call)
    BY DEF ChatInv, ChatHolds, ChatFields, DoneBefore
  <2>2. chat' = [chat EXCEPT ![c] = call]
    BY <1>5 DEF WriteCallLog
  <2> QED BY <1>1, <2>1, <2>2
<1>6. ASSUME UNCHANGED chat PROVE ChatInv'
  BY <1>6 DEF ChatInv
<1>7. ASSUME NEW c \in ConfigClients,
             \/ \E a \in Aliases : \/ \E row \in CreatedRows : CreateConfig(c, a, row)
                                   \/ \E patch \in Patches : UpdateConfig(c, a, patch)
                                   \/ DeleteConfig(c, a)
             \/ RefreshRegistry(c) \/ LookUp(c) \/ WriteConfig(c) \/ ConfigStatementFails(c)
             \/ ReadActive(c) \/ Rebuild(c) \/ ReadActiveFails(c)
      PROVE  ChatInv'
  BY <1>6, <1>7 DEF CreateConfig, UpdateConfig, DeleteConfig, RefreshRegistry, ConfigArrives,
       LookUp, WriteConfig, ConfigStatementFails, ReadActive, Rebuild, ReadActiveFails, chatVars
<1>8. CASE UNCHANGED llmVars
  BY <1>6, <1>8 DEF llmVars, chatVars
<1> QED BY <1>2, <1>3, <1>4, <1>5, <1>7, <1>8 DEF LLMNext

\* A call that fails has called every model that matched at its start, or found it
\* gone from the registry at its turn, whatever refreshes run between its awaits.
THEOREM NoModelIsPassedOver == LLMSpec => []FailsOnlyAfterAll
<1>1. ChatInv => FailsOnlyAfterAll
  BY DEF ChatInv, ChatHolds, FailsOnlyAfterAll
<1> QED BY <1>1, ChatInvInit, ChatInvStep, RegistryInvariant, PTL DEF LLMSpec

-----------------------------------------------------------------------------
(* Updates *)

\* A request that writes has found its row, or has found none and creates it.
WriterKnows ==
  \A c \in ConfigClients : configReq[c].pc = "write" =>
    configReq[c].found <=> configReq[c].op # "create"

UpdatesInv == RequestShape /\ WriterKnows /\ OnlyOverlapsLoseUpdates

\* A step that leaves the table alone and brings no request to its write.
LEMMA NothingWritten ==
  ASSUME UpdatesInv, RequestShape', UNCHANGED configTables,
         \A c \in ConfigClients :
           configReq'[c].pc = "write" => configReq'[c] = configReq[c]
  PROVE  UpdatesInv'
<1>1. WriterKnows'
  BY DEF UpdatesInv, WriterKnows
<1>2. OnlyOverlapsLoseUpdates'
  BY DEF UpdatesInv, OnlyOverlapsLoseUpdates, Some, configTables
<1> QED BY <1>1, <1>2 DEF UpdatesInv

LEMMA UpdatesInvInit == LLMInit => UpdatesInv
<1> SUFFICES ASSUME LLMInit PROVE UpdatesInv
  OBVIOUS
<1>1. RequestShape
  BY RegistryInvInit DEF RegistryInv
<1>2. WriterKnows
  BY DEF LLMInit, WriterKnows, IdleConfigReq
<1>3. OnlyOverlapsLoseUpdates
  BY DEF LLMInit, OnlyOverlapsLoseUpdates, Some
<1> QED BY <1>1, <1>2, <1>3 DEF UpdatesInv

\* The write of a request whose row did not change since it was read.
LEMMA WriteConfigKeeps ==
  ASSUME UpdatesInv, NEW c \in ConfigClients, WriteConfig(c)
  PROVE  OnlyOverlapsLoseUpdates'
<1> DEFINE req == configReq[c]
           a == req.alias
<1>1. /\ a \in Aliases /\ req.op \in {"create", "update", "delete"}
      /\ req.found <=> req.op # "create"
  BY DEF UpdatesInv, WriterKnows, RequestShape, WriteConfig
<1>2. /\ configs' = WrittenRows(req) /\ serial' = WrittenAlone(req)
      /\ raced' = IF ChangedSince(req) THEN raced \cup {a} ELSE raced
  BY DEF WriteConfig
<1> HIDE DEF req
<1>3. ASSUME NEW b \in Aliases \ raced', b # a
      PROVE  /\ Some(configs', b) <=> Some(serial', b)
             /\ Some(configs', b) => configs'[b] = serial'[b]
  <2>1. (Some(configs', b) <=> Some(configs, b)) /\ (Some(configs, b) => configs'[b] = configs[b])
    BY <1>1, <1>2, <1>3 DEF WrittenRows, SavedConfig, DeletedByAlias, Restrict, Some
  <2>2. (Some(serial', b) <=> Some(serial, b)) /\ (Some(serial, b) => serial'[b] = serial[b])
    BY <1>1, <1>2, <1>3 DEF WrittenAlone, Restrict, Some
  <2>3. b \in Aliases \ raced
    BY <1>2, <1>3
  <2> QED BY <2>1, <2>2, <2>3 DEF UpdatesInv, OnlyOverlapsLoseUpdates
<1>4. ASSUME a \notin raced'
      PROVE  /\ Some(configs', a) <=> Some(serial', a)
             /\ Some(configs', a) => configs'[a] = serial'[a]
  <2>1. a \notin raced /\ ~ChangedSince(req)
    BY <1>2, <1>4
  <2>2. /\ Some(configs, a) <=> Some(serial, a)
        /\ Some(configs, a) => configs[a] = serial[a]
    BY <1>1, <2>1 DEF UpdatesInv, OnlyOverlapsLoseUpdates
  <2>3. /\ Some(configs, a) <=> req.op # "create"
        /\ req.op # "create" => configs[a] = req.read
    BY <1>1, <2>1 DEF ChangedSince
  <2>4. CASE req.op = "create"
    BY <1>2, <2>2, <2>3, <2>4 DEF WrittenRows, WrittenAlone, SavedConfig, Some
  <2>5. CASE req.op = "update"
    <3>1. configs' = SavedConfig(configs, a, Patched(req.read, req.patch))
      BY <1>2, <2>5 DEF WrittenRows
    <3>2. serial' = [serial EXCEPT ![a] = [f \in DOMAIN @ |-> IF f \in DOMAIN req.patch
                                                              THEN req.patch[f] ELSE @[f]]]
      BY <1>2, <2>2, <2>3, <2>5 DEF WrittenAlone
    <3>3. a \in DOMAIN serial /\ serial[a] = req.read
      BY <2>2, <2>3, <2>5 DEF Some
    <3>4. Some(serial', a) /\ serial'[a] = Patched(req.read, req.patch)
      BY <3>2, <3>3 DEF Patched, Some
    <3>5. Some(configs', a) /\ configs'[a] = Patched(req.read, req.patch)
      BY <3>1 DEF SavedConfig, Some
    <3> QED BY <3>4, <3>5
  <2>6. CASE req.op = "delete"
    BY <1>2, <2>6 DEF WrittenRows, WrittenAlone, DeletedByAlias, Restrict, Some
  <2> QED BY <1>1, <2>4, <2>5, <2>6
<1> QED BY <1>3, <1>4 DEF OnlyOverlapsLoseUpdates, Some

LEMMA UpdatesInvStep == RequestShape' /\ UpdatesInv /\ [LLMNext]_llmVars => UpdatesInv'
<1> SUFFICES ASSUME RequestShape', UpdatesInv, [LLMNext]_llmVars PROVE UpdatesInv'
  OBVIOUS
<1>0. RequestShape /\ WriterKnows
  BY DEF UpdatesInv
<1>1. ASSUME NEW c \in ConfigClients, NEW a \in Aliases,
             \/ \E row \in CreatedRows : CreateConfig(c, a, row)
             \/ \E patch \in Patches : UpdateConfig(c, a, patch)
             \/ DeleteConfig(c, a)
      PROVE  UpdatesInv'
  <2>1. PICK req : ConfigArrives(c, req) /\ req.pc = "lookup"
    BY <1>1, TableRequest
  <2> QED BY <1>0, <2>1, NothingWritten DEF ConfigArrives, RequestShape
<1>2. ASSUME NEW c \in ConfigClients, RefreshRegistry(c) PROVE UpdatesInv'
  BY <1>0, <1>2, NothingWritten DEF RefreshRegistry, ConfigArrives, IdleConfigReq, RequestShape
<1>3. ASSUME NEW c \in ConfigClients, LookUp(c) PROVE UpdatesInv'
  <2>1. /\ \A d \in ConfigClients : d # c => configReq'[d] = configReq[d]
        /\ configReq'[c].pc = "write" =>
             (configReq'[c].found <=> configReq'[c].op # "create")
    BY <1>0, <1>3 DEF LookUp, RequestShape, ReqFields
  <2>2. WriterKnows'
    BY <1>0, <2>1 DEF WriterKnows
  <2>3. OnlyOverlapsLoseUpdates'
    BY <1>3 DEF LookUp, UpdatesInv, OnlyOverlapsLoseUpdates, Some, configTables
  <2> QED BY <2>2, <2>3 DEF UpdatesInv
<1>4. ASSUME NEW c \in ConfigClients, WriteConfig(c) PROVE UpdatesInv'
  <2>1. WriterKnows'
    BY <1>0, <1>4 DEF WriteConfig, WriterKnows, RequestShape, ReqFields
  <2> QED BY <1>4, <2>1, WriteConfigKeeps DEF UpdatesInv
<1>5. ASSUME NEW c \in ConfigClients,
             ConfigStatementFails(c) \/ ReadActive(c) \/ Rebuild(c) \/ ReadActiveFails(c)
      PROVE  UpdatesInv'
  <2>1. UNCHANGED configTables
    BY <1>5 DEF ConfigStatementFails, ReadActive, Rebuild, ReadActiveFails
  <2>2. \A d \in ConfigClients : d # c => configReq'[d] = configReq[d]
    BY <1>0, <1>5 DEF ConfigStatementFails, ReadActive, Rebuild, ReadActiveFails, RequestShape
  <2>3. configReq'[c].pc # "write"
    BY <1>0, <1>5 DEF ConfigStatementFails, ReadActive, Rebuild, ReadActiveFails, RequestShape,
         ReqFields, IdleConfigReq
  <2> QED BY <2>1, <2>2, <2>3, NothingWritten
<1>6. ASSUME NEW c \in ChatClients,
             \/ \E alias \in Aliases : Generate(c, alias, {})
             \/ \E tags \in SUBSET Tags : Generate(c, NoAlias, tags)
             \/ CandidateAnswers(c) \/ CandidateFails(c) \/ WriteCallLog(c)
      PROVE  UpdatesInv'
  <2>1. UNCHANGED <<configTables, configReq>>
    BY <1>6 DEF Generate, CandidateAnswers, CandidateFails, WriteCallLog
  <2> QED BY <2>1, NothingWritten
<1>7. CASE UNCHANGED llmVars
  <2>1. UNCHANGED <<configTables, configReq>>
    BY <1>7 DEF llmVars
  <2> QED BY <2>1, NothingWritten
<1> QED BY <1>1, <1>2, <1>3, <1>4, <1>5, <1>6, <1>7 DEF LLMNext

\* Only overlapping requests lose an update: a row differs from what one request
\* after the other would have made of it only if it changed between the lookup and
\* the write of a request, for the lookup decides what the write assumes.
THEOREM NoOtherUpdateIsLost == LLMSpec => []OnlyOverlapsLoseUpdates
<1>1. UpdatesInv => OnlyOverlapsLoseUpdates
  BY DEF UpdatesInv
<1>2. RegistryInv => RequestShape
  BY DEF RegistryInv
<1> QED BY <1>1, <1>2, UpdatesInvInit, UpdatesInvStep, RegistryInvariant, PTL DEF LLMSpec

-----------------------------------------------------------------------------
(* The types of the platform *)

RowsTyped(rows) == \A a \in DOMAIN rows : rows[a] \in LLMConfig

PatchTyped(patch) ==
  \A f \in DOMAIN patch : f \in DOMAIN ConfigColumn /\ patch[f] \in ConfigColumn[f]

ReqTyped(req) ==
  /\ req \in [pc : {"idle", "lookup", "write", "refresh", "rebuild", "done", "not_found",
                    "conflict", "error"},
              op : {"create", "update", "delete", "refresh"}, alias : Aliases \cup {NoAlias},
              row : LLMConfig, patch : {req.patch}, found : BOOLEAN, read : LLMConfig,
              active : {req.active}]
  /\ PatchTyped(req.patch) /\ RowsTyped(req.active)

ConfigTyped ==
  /\ RowsTyped(configs) /\ RowsTyped(registry)
  /\ repoOf \in ConfigClients \cup {NoAlias} /\ loaded \in BOOLEAN /\ raced \subseteq Aliases
  /\ \A c \in ConfigClients : ReqTyped(configReq[c])

LEMMA IdleReqTyped == ReqTyped(IdleConfigReq)
  <1>1. NoConfig \in LLMConfig
    BY DEF NoConfig, LLMConfig
  <1>2. DOMAIN <<>> = {}
    OBVIOUS
  <1>3. QED
    BY <1>1, <1>2 DEF ReqTyped, IdleConfigReq, PatchTyped, RowsTyped

LEMMA PatchedTyped ==
  ASSUME NEW row \in LLMConfig, NEW patch, PatchTyped(patch)
  PROVE  Patched(row, patch) \in LLMConfig
  <1>1. DOMAIN row = {"priority", "tags", "is_active", "provider_type"}
    BY DEF LLMConfig
  <1>2. QED
    BY <1>1 DEF Patched, PatchTyped, ConfigColumn, LLMConfig

LEMMA RestrictTyped ==
  ASSUME NEW rows, RowsTyped(rows), NEW S, S \subseteq DOMAIN rows
  PROVE  RowsTyped(Restrict(rows, S))
  BY DEF RowsTyped, Restrict

LEMMA RegisteredTyped ==
  ASSUME NEW rows, RowsTyped(rows)
  PROVE  RowsTyped(Registered(rows))
  BY RestrictTyped DEF Registered

\* One request moves; the table and the registry are typed again.
LEMMA OneReqMoves ==
  ASSUME RegistryInv, ConfigTyped, NEW c \in ConfigClients, NEW req, ReqTyped(req),
         configReq' = [configReq EXCEPT ![c] = req],
         RowsTyped(configs'), RowsTyped(registry'),
         repoOf' \in ConfigClients \cup {NoAlias}, loaded' \in BOOLEAN, raced' \subseteq Aliases
  PROVE  ConfigTyped'
  <1>1. /\ configReq'[c] = req
        /\ \A d \in ConfigClients : d # c => configReq'[d] = configReq[d]
    BY DEF RegistryInv, RequestShape
  <1>2. \A d \in ConfigClients : ReqTyped(configReq'[d])
    BY <1>1 DEF ConfigTyped
  <1>3. QED
    BY <1>2 DEF ConfigTyped, RowsTyped, ReqTyped, PatchTyped

LEMMA ArrivalTyped ==
  ASSUME RegistryInv, ConfigTyped, NEW c \in ConfigClients, NEW req, ReqTyped(req),
         ConfigArrives(c, req)
  PROVE  ConfigTyped'
  BY OneReqMoves DEF ConfigArrives, configTables, ConfigTyped

LEMMA TableRequestTyped ==
  ASSUME RegistryInv, ConfigTyped, NEW c \in ConfigClients, NEW a \in Aliases,
         \/ \E row \in CreatedRows : CreateConfig(c, a, row)
         \/ \E patch \in Patches : UpdateConfig(c, a, patch)
         \/ DeleteConfig(c, a)
  PROVE  ConfigTyped'
  <1>1. ReqTyped(IdleConfigReq)
    BY IdleReqTyped
  <1>2. ASSUME NEW row \in CreatedRows, CreateConfig(c, a, row) PROVE ConfigTyped'
    <2> DEFINE req == [IdleConfigReq EXCEPT !.pc = "lookup", !.op = "create",
                                            !.alias = a, !.row = row]
    <2>1. row \in LLMConfig
      BY LLMAssumption
    <2>2. ReqTyped(req)
      BY <1>1, <2>1 DEF ReqTyped, IdleConfigReq
    <2> HIDE DEF req
    <2>3. QED
      BY <1>2, <2>2, ArrivalTyped DEF CreateConfig, req
  <1>3. ASSUME NEW patch \in Patches, UpdateConfig(c, a, patch) PROVE ConfigTyped'
    <2> DEFINE req == [IdleConfigReq EXCEPT !.pc = "lookup", !.op = "update",
                                            !.alias = a, !.patch = patch]
    <2>1. PatchTyped(patch)
      BY LLMAssumption DEF PatchTyped
    <2>2. ReqTyped(req)
      BY <1>1, <2>1 DEF ReqTyped, IdleConfigReq
    <2> HIDE DEF req
    <2>3. QED
      BY <1>3, <2>2, ArrivalTyped DEF UpdateConfig, req
  <1>4. ASSUME DeleteConfig(c, a) PROVE ConfigTyped'
    <2> DEFINE req == [IdleConfigReq EXCEPT !.pc = "lookup", !.op = "delete", !.alias = a]
    <2>1. ReqTyped(req)
      BY <1>1 DEF ReqTyped, IdleConfigReq
    <2> HIDE DEF req
    <2>2. QED
      BY <1>4, <2>1, ArrivalTyped DEF DeleteConfig, req
  <1>5. QED
    BY <1>2, <1>3, <1>4

LEMMA WriteTyped ==
  ASSUME RegistryInv, ConfigTyped, NEW c \in ConfigClients, WriteConfig(c)
  PROVE  ConfigTyped'
  <1>0. PICK pc \in {"refresh", "error"} : configReq' = [configReq EXCEPT ![c].pc = pc]
    BY DEF WriteConfig
  <1> DEFINE req == configReq[c]
             next == [req EXCEPT !.pc = pc]
  <1>1. /\ ReqTyped(req) /\ req.alias \in Aliases /\ req.op \in {"create", "update", "delete"}
        /\ req.pc = "write"
    BY DEF WriteConfig, ConfigTyped, RegistryInv, RequestShape
  <1>2. configs' = WrittenRows(req)
    BY DEF WriteConfig
  <1>3. ReqTyped(next)
    BY <1>1 DEF ReqTyped
  <1>4. configReq' = [configReq EXCEPT ![c] = next]
    BY <1>0
  <1> HIDE DEF next, req
  <1>5. RowsTyped(configs')
    <2>1. CASE req.op = "create"
      BY <1>1, <1>2, <2>1 DEF WrittenRows, SavedConfig, RowsTyped, ConfigTyped, ReqTyped
    <2>2. CASE req.op = "update"
      <3>1. Patched(req.read, req.patch) \in LLMConfig
        BY <1>1, PatchedTyped DEF ReqTyped
      <3>2. configs' = SavedConfig(configs, req.alias, Patched(req.read, req.patch))
        BY <1>2, <2>2 DEF WrittenRows
      <3>3. QED
        BY <3>1, <3>2 DEF SavedConfig, RowsTyped, ConfigTyped
    <2>3. CASE req.op = "delete"
      BY <1>2, <2>3 DEF WrittenRows, DeletedByAlias, Restrict, RowsTyped, ConfigTyped
    <2>4. QED
      BY <1>1, <2>1, <2>2, <2>3
  <1>6. raced' \subseteq Aliases /\ UNCHANGED <<registry, loaded, repoOf>>
    BY <1>1 DEF WriteConfig, ConfigTyped, req
  <1>7. QED
    BY <1>3, <1>4, <1>5, <1>6, OneReqMoves DEF ConfigTyped

LEMMA OtherRequestsTyped ==
  ASSUME RegistryInv, ConfigTyped, NEW c \in ConfigClients,
         \/ RefreshRegistry(c) \/ LookUp(c) \/ ConfigStatementFails(c)
         \/ ReadActive(c) \/ Rebuild(c) \/ ReadActiveFails(c)
  PROVE  ConfigTyped'
  <1> DEFINE req == configReq[c]
  <1>1. ReqTyped(req) /\ RowsTyped(configs) /\ RowsTyped(registry)
    BY DEF ConfigTyped
  <1>2. RowsTyped(ActiveConfigs)
    BY <1>1, RestrictTyped DEF ActiveConfigs
  <1>3. CASE RefreshRegistry(c)
    <2> DEFINE refresh == [IdleConfigReq EXCEPT !.pc = "refresh"]
    <2>1. ReqTyped(refresh)
      BY IdleReqTyped DEF ReqTyped, IdleConfigReq
    <2> HIDE DEF refresh
    <2>2. QED
      BY <1>3, <2>1, ArrivalTyped DEF RefreshRegistry, refresh
  <1>4. CASE LookUp(c)
    <2> DEFINE found == Some(configs, req.alias)
               next == [req EXCEPT !.found = found,
                          !.read = IF found THEN configs[req.alias] ELSE NoConfig,
                          !.pc = IF req.op = "create" /\ found THEN "conflict"
                                 ELSE IF req.op # "create" /\ ~found THEN "not_found"
                                 ELSE "write"]
    <2>1. found \in BOOLEAN /\ (IF found THEN configs[req.alias] ELSE NoConfig) \in LLMConfig
      BY <1>1 DEF Some, RowsTyped, NoConfig, LLMConfig
    <2>2. configReq' = [configReq EXCEPT ![c] = next]
      BY <1>4 DEF LookUp
    <2> HIDE DEF found
    <2>3. ReqTyped(next)
      BY <1>1, <2>1 DEF ReqTyped
    <2> HIDE DEF next, req
    <2>4. UNCHANGED <<configs, registry, loaded, repoOf, raced>>
      BY <1>4 DEF LookUp, configTables
    <2>5. QED
      BY <1>1, <2>2, <2>3, <2>4, OneReqMoves DEF ConfigTyped
  <1>5. CASE ConfigStatementFails(c)
    <2> DEFINE next == [req EXCEPT !.pc = "error"]
    <2>1. ReqTyped(next)
      BY <1>1 DEF ReqTyped
    <2>2. configReq' = [configReq EXCEPT ![c] = next]
      BY <1>5 DEF ConfigStatementFails
    <2> HIDE DEF next, req
    <2>3. UNCHANGED <<configs, registry, loaded, repoOf, raced>>
      BY <1>5 DEF ConfigStatementFails, configTables
    <2>4. QED
      BY <1>1, <2>1, <2>2, <2>3, OneReqMoves DEF ConfigTyped
  <1>6. CASE ReadActive(c)
    <2> DEFINE next == [req EXCEPT !.pc = "rebuild", !.active = ActiveConfigs]
    <2>1. ReqTyped(next)
      BY <1>1, <1>2 DEF ReqTyped
    <2>2. configReq' = [configReq EXCEPT ![c] = next]
      BY <1>6 DEF ReadActive, ConfigTyped, ReqTyped
    <2> HIDE DEF next, req
    <2>3. UNCHANGED <<configs, registry, loaded, repoOf, raced>>
      BY <1>6 DEF ReadActive, configTables
    <2>4. QED
      BY <1>1, <2>1, <2>2, <2>3, OneReqMoves DEF ConfigTyped
  <1>7. CASE Rebuild(c) \/ ReadActiveFails(c)
    <2> DEFINE next == [IdleConfigReq EXCEPT !.pc = "done"]
    <2>1. ReqTyped(next)
      BY IdleReqTyped DEF ReqTyped, IdleConfigReq
    <2>2. configReq' = [configReq EXCEPT ![c] = next]
      BY <1>7 DEF Rebuild, ReadActiveFails
    <2>3. RowsTyped(registry') /\ loaded' \in BOOLEAN
      <3>1. RowsTyped(Registered(req.active))
        BY <1>1, RegisteredTyped DEF ReqTyped
      <3> HIDE DEF next
      <3>2. QED
        BY <1>1, <1>7, <3>1 DEF Rebuild, Rebuilt, ReadActiveFails, KeptOnFailure, ConfigTyped
    <2> HIDE DEF next, req
    <2>4. UNCHANGED <<configs, repoOf, raced>>
      BY <1>7 DEF Rebuild, ReadActiveFails, configTables
    <2>5. QED
      BY <1>1, <2>1, <2>2, <2>3, <2>4, OneReqMoves DEF ConfigTyped
  <1>8. QED
    BY <1>3, <1>4, <1>5, <1>6, <1>7

LEMMA ConfigTypedStep ==
  ASSUME RegistryInv, ConfigTyped, [LLMNext]_llmVars
  PROVE  ConfigTyped'
  <1>1. CASE UNCHANGED <<configTables, registry, loaded, repoOf, configReq>>
    BY <1>1 DEF configTables, ConfigTyped, RowsTyped, ReqTyped, PatchTyped
  <1>2. ASSUME NEW c \in ChatClients,
               \/ \E alias \in Aliases : Generate(c, alias, {})
               \/ \E tags \in SUBSET Tags : Generate(c, NoAlias, tags)
               \/ CandidateAnswers(c) \/ CandidateFails(c) \/ WriteCallLog(c)
        PROVE  ConfigTyped'
    BY <1>1, <1>2 DEF Generate, CandidateAnswers, CandidateFails, WriteCallLog
  <1>3. CASE UNCHANGED llmVars
    BY <1>1, <1>3 DEF llmVars
  <1>4. QED
    BY <1>2, <1>3, TableRequestTyped, WriteTyped, OtherRequestsTyped DEF LLMNext

LogsTyped ==
  /\ callLogs \in [ChatClients -> {"none", "success", "failed", "lost"}]
  /\ logSession \in {"fine", "unusable"}

LEMMA LogsTypedStep == ASSUME LogsTyped, [LLMNext]_llmVars PROVE LogsTyped'
  <1>1. ASSUME NEW c \in ChatClients,
               \/ \E alias \in Aliases : Generate(c, alias, {})
               \/ \E tags \in SUBSET Tags : Generate(c, NoAlias, tags)
               \/ CandidateAnswers(c) \/ CandidateFails(c) \/ WriteCallLog(c)
        PROVE  LogsTyped'
    BY <1>1 DEF Generate, CandidateAnswers, CandidateFails, WriteCallLog, LogsTyped
  <1>2. CASE UNCHANGED chatVars
    BY <1>2 DEF chatVars, LogsTyped
  <1>3. ASSUME NEW c \in ConfigClients,
               \/ \E a \in Aliases : \/ \E row \in CreatedRows : CreateConfig(c, a, row)
                                     \/ \E patch \in Patches : UpdateConfig(c, a, patch)
                                     \/ DeleteConfig(c, a)
               \/ RefreshRegistry(c) \/ LookUp(c) \/ WriteConfig(c) \/ ConfigStatementFails(c)
               \/ ReadActive(c) \/ Rebuild(c) \/ ReadActiveFails(c)
        PROVE  UNCHANGED chatVars
    BY <1>3 DEF CreateConfig, UpdateConfig, DeleteConfig, RefreshRegistry, ConfigArrives,
         LookUp, WriteConfig, ConfigStatementFails, ReadActive, Rebuild, ReadActiveFails, chatVars
  <1>4. CASE UNCHANGED llmVars
    BY <1>2, <1>4 DEF llmVars
  <1>5. QED
    BY <1>1, <1>2, <1>3, <1>4 DEF LLMNext

LEMMA TypedInit == LLMInit => ConfigTyped /\ LogsTyped
  <1> SUFFICES ASSUME LLMInit PROVE ConfigTyped /\ LogsTyped
    OBVIOUS
  <1>1. RowsTyped(configs)
    BY LLMAssumption DEF LLMInit, RowsTyped
  <1>2. RowsTyped(Registered(ActiveConfigs))
    <2>1. RowsTyped(ActiveConfigs)
      BY <1>1, RestrictTyped DEF ActiveConfigs
    <2>2. QED
      BY <2>1, RegisteredTyped
  <1>3. RowsTyped(registry) /\ loaded \in BOOLEAN
    <2>1. \/ loaded = TRUE /\ registry = Registered(ActiveConfigs)
          \/ loaded = FALSE /\ registry = <<>>
      BY DEF LLMInit
    <2>2. RowsTyped(<<>>)
      BY DEF RowsTyped
    <2>3. QED
      BY <1>2, <2>1, <2>2
  <1>4. QED
    BY <1>1, <1>3, IdleReqTyped DEF LLMInit, ConfigTyped, LogsTyped

\* Every row of the table, of the registry and of a request in progress stays a
\* configuration, and a call never has a turn after the one that follows its last
\* candidate, whatever is created, patched, deleted and refreshed meanwhile.
THEOREM PlatformTypes == LLMSpec => []LLMTypeOK
  <1>1. RegistryInv /\ ChatInv /\ ConfigTyped /\ LogsTyped => LLMTypeOK
    <2> SUFFICES ASSUME RegistryInv, ChatInv, ConfigTyped, LogsTyped PROVE LLMTypeOK
      OBVIOUS
    <2>1. /\ DOMAIN configs \subseteq Aliases /\ \A a \in DOMAIN configs : configs[a] \in LLMConfig
          /\ DOMAIN registry \subseteq Aliases
          /\ \A a \in DOMAIN registry : registry[a] \in LLMConfig
      BY DEF RegistryInv, TableShape, ConfigTyped, RowsTyped
    <2>2. ASSUME NEW c \in ConfigClients
          PROVE  /\ configReq[c].pc \in {"idle", "lookup", "write", "refresh", "rebuild",
                                          "done", "not_found", "conflict", "error"}
                 /\ configReq[c].op \in {"create", "update", "delete", "refresh"}
                 /\ configReq[c].alias \in Aliases \cup {NoAlias}
                 /\ configReq[c].found \in BOOLEAN
      BY DEF ConfigTyped, ReqTyped
    <2>3. ASSUME NEW c \in ChatClients
          PROVE  /\ chat[c].pc \in {"idle", "call", "ok", "failed"}
                 /\ Range(chat[c].candidates) \subseteq Aliases
                 /\ chat[c].turn \in 1..(Cardinality(Aliases) + 1)
                 /\ chat[c].tried \cup chat[c].missing \subseteq Aliases
      <3>1. ChatHolds(chat[c])
        BY DEF ChatInv
      <3>2. Range(chat[c].candidates) \subseteq Aliases
        BY <3>1 DEF ChatHolds, Range
      <3>3. Len(chat[c].candidates) \in Nat /\ Cardinality(Aliases) \in Nat
        BY <3>1, LLMAssumption, FS_CardinalityType DEF ChatHolds
      <3>4. QED
        BY <3>1, <3>2, <3>3 DEF ChatHolds
    <2>4. QED
      BY <2>1, <2>2, <2>3 DEF LLMTypeOK, ConfigTyped, LogsTyped
  <1>2. QED
    BY <1>1, TypedInit, ConfigTypedStep, LogsTypedStep, ChatInvInit, ChatInvStep,
       RegistryInvariant, PTL DEF LLMSpec

-----------------------------------------------------------------------------
(* The web search: an entry of the cache is never given a longer life than    *)
(* the freshness in its own key, and what Bocha has given for a dimension      *)
(* stays at hand until it is the result of the dimension.                     *)

EntryFits(key, entry) ==
  /\ entry.answer \in Nat /\ entry.expires \in Nat
  /\ entry.expires <= entry.answer + Ttl(key[2])

ExpertSteps == {"idle", "lookup", "bocha", "put", "log", "answered", "refused"}

Searching == {"lookup", "bocha", "put", "log"}

\* Between Bocha's answer and the result.
InHand(x) == x.pc \in {"put", "log"}

SearchHolds(x) ==
  /\ x \in [pc : ExpertSteps, dim : Nat, answer : Int,
            results : Seq([answer : Int, at : Int]), given : Seq(Int), session : {x.session}]
  /\ x.pc \in Searching => x.dim \in DOMAIN Dimensions
  /\ Len(x.given) = Len(x.results) + (IF InHand(x) THEN 1 ELSE 0)
  /\ \A i \in 1..Len(x.results) : x.given[i] # NoAnswer => x.results[i].answer = x.given[i]
  /\ InHand(x) /\ x.given[Len(x.given)] # NoAnswer => x.answer = x.given[Len(x.given)]
  /\ x.pc = "put" => x.answer \in Nat

ExpertsHold ==
  /\ expert \in [Experts -> {expert[e] : e \in Experts}]
  /\ \A e \in Experts : SearchHolds(expert[e])

CacheHolds ==
  /\ webCache \in [Keys -> {webCache[k] : k \in Keys}]
  /\ \A k \in Keys : EntryFits(k, webCache[k])

SearchInv == webTime \in Nat /\ dbOffset \in Nat /\ CacheHolds /\ ExpertsHold

LEMMA TtlType == \A freshness : Ttl(freshness) \in Nat
  BY DEF Ttl

\* One expert moves, and claims for itself what must hold.
LEMMA ExpertMoves ==
  ASSUME ExpertsHold, NEW e \in Experts, NEW x, SearchHolds(x), expert' = [expert EXCEPT ![e] = x]
  PROVE  ExpertsHold'
  <1>1. /\ expert'[e] = x /\ \A q \in Experts : q # e => expert'[q] = expert[q]
        /\ expert' \in [Experts -> {expert'[q] : q \in Experts}]
    BY DEF ExpertsHold
  <1>2. QED
    BY <1>1 DEF ExpertsHold

LEMMA StartHolds == SearchHolds([IdleExpert EXCEPT !.pc = "lookup"]) /\ SearchHolds(IdleExpert)
  <1> DEFINE none == <<>>
             Fresh(pc) == [pc : {pc}, dim : {1}, answer : {NoAnswer}, results : {none},
                           given : {none}, session : {"fine"}]
  <1>1. none \in Seq(Int) /\ none \in Seq([answer : Int, at : Int]) /\ Len(none) = 0
    OBVIOUS
  <1>2. [IdleExpert EXCEPT !.pc = "lookup"] \in Fresh("lookup") /\ IdleExpert \in Fresh("idle")
    BY DEF IdleExpert
  <1> HIDE DEF none
  <1>3. ASSUME NEW pc \in {"idle", "lookup"}, NEW x \in Fresh(pc) PROVE SearchHolds(x)
    <2>1. /\ x.pc = pc /\ x.results = none /\ x.given = none /\ x.answer = -1 /\ x.dim = 1
          /\ x.session = "fine" /\ pc \in ExpertSteps /\ ~InHand(x)
      BY <1>3 DEF NoAnswer, ExpertSteps, InHand
    <2>2. x \in [pc : ExpertSteps, dim : Nat, answer : Int,
                 results : Seq([answer : Int, at : Int]), given : Seq(Int), session : {x.session}]
      <3>1. -1 \in Int /\ 1 \in Nat
        OBVIOUS
      <3> HIDE DEF none
      <3>2. QED
        BY <1>1, <1>3, <2>1, <3>1 DEF NoAnswer
    <2>3. Len(x.results) = 0 /\ Len(x.given) = 0
      BY <1>1, <2>1
    <2>4. x.pc # "put" /\ x.dim \in DOMAIN Dimensions
      BY <1>3, <2>1, WebAssumption
    <2>5. QED
      BY <2>1, <2>2, <2>3, <2>4 DEF SearchHolds
  <1> HIDE DEF Fresh
  <1>4. QED
    BY <1>2, <1>3

\* A dimension has what Bocha gave, or that Bocha gave nothing.
LEMMA GivenHolds ==
  ASSUME NEW x, SearchHolds(x), x.pc \in {"lookup", "bocha"}, NEW y, NEW pc \in {"put", "log"}, NEW session,
         NEW answer \in Int, NEW given \in Int, given # NoAnswer => answer = given,
         pc = "put" => answer \in Nat,
         y \in [pc : {pc}, dim : {x.dim}, answer : {answer}, results : {x.results},
                given : {Append(x.given, given)}, session : {session}]
  PROVE  SearchHolds(y)
  <1>1. x.given \in Seq(Int) /\ Len(x.given) \in Nat /\ Len(x.given) = Len(x.results)
        /\ x.results \in Seq([answer : Int, at : Int]) /\ x.dim \in DOMAIN Dimensions /\ x.dim \in Nat
    BY DEF SearchHolds, InHand, Searching
  <1>2. /\ y.given \in Seq(Int) /\ Len(y.given) = Len(x.results) + 1
        /\ y.given[Len(y.given)] = given
        /\ \A i \in 1..Len(x.results) : y.given[i] = x.given[i]
    <2>1. y.given = Append(x.given, given)
      OBVIOUS
    <2>2. /\ Append(x.given, given) \in Seq(Int) /\ Len(Append(x.given, given)) = Len(x.given) + 1
          /\ Append(x.given, given)[Len(x.given) + 1] = given
          /\ \A i \in 1..Len(x.given) : Append(x.given, given)[i] = x.given[i]
      BY <1>1, AppendProperties
    <2>3. QED
      BY <1>1, <2>1, <2>2
  <1>3. /\ y.pc = pc /\ y.answer = answer /\ y.results = x.results /\ InHand(y)
        /\ y.dim = x.dim /\ y.session = session
    BY DEF InHand
  <1>4. y \in [pc : ExpertSteps, dim : Nat, answer : Int,
               results : Seq([answer : Int, at : Int]), given : Seq(Int), session : {y.session}]
    BY <1>1, <1>2, <1>3 DEF ExpertSteps
  <1>5. \A i \in 1..Len(y.results) : y.given[i] # NoAnswer => y.results[i].answer = y.given[i]
    BY <1>2, <1>3 DEF SearchHolds
  <1>6. QED
    <2>1. y.pc \in Searching => y.dim \in DOMAIN Dimensions
      BY <1>1, <1>3
    <2>2. Len(y.given) = Len(y.results) + (IF InHand(y) THEN 1 ELSE 0)
      BY <1>2, <1>3
    <2>3. y.given[Len(y.given)] # NoAnswer => y.answer = y.given[Len(y.given)]
      BY <1>2, <1>3
    <2>4. y.pc = "put" => y.answer \in Nat
      BY <1>3
    <2>5. QED
      BY <1>4, <1>5, <2>1, <2>2, <2>3, <2>4 DEF SearchHolds

\* The result of a dimension is what is in hand.
LEMMA WithResultHolds ==
  ASSUME NEW x, SearchHolds(x), x.pc = "log", webTime \in Nat, NEW session, NEW y,
         y = WithResult(x) \/ y = [WithResult(x) EXCEPT !.session = session]
  PROVE  SearchHolds(y)
  <1> DEFINE result == [answer |-> x.answer, at |-> webTime]
             results == Append(x.results, result)
             next == WithResult(x)
  <1>1. x.results \in Seq([answer : Int, at : Int]) /\ Len(x.results) \in Nat /\ x.given \in Seq(Int)
        /\ Len(x.given) = Len(x.results) + 1 /\ x.answer \in Int /\ x.dim \in Nat
        /\ (x.given[Len(x.given)] # NoAnswer => x.answer = x.given[Len(x.given)])
    BY DEF SearchHolds, InHand
  <1>2. result \in [answer : Int, at : Int] /\ result.answer = x.answer
    BY <1>1
  <1> HIDE DEF result
  <1>3. /\ results \in Seq([answer : Int, at : Int]) /\ Len(results) = Len(x.given)
        /\ results[Len(x.given)] = result
        /\ \A i \in 1..Len(x.results) : results[i] = x.results[i]
    <2>1. /\ results \in Seq([answer : Int, at : Int]) /\ Len(results) = Len(x.results) + 1
          /\ results[Len(x.results) + 1] = result
          /\ \A i \in 1..Len(x.results) : results[i] = x.results[i]
      BY <1>1, <1>2, AppendProperties
    <2>2. QED
      BY <1>1, <2>1
  <1>4. next \in [pc : {"lookup", "refused", "answered"}, dim : {x.dim + 1}, answer : {NoAnswer},
                  results : {results}, given : {x.given}, session : {x.session}]
    BY DEF SearchHolds, WithResult, result
  <1>10. next.pc = "lookup" => x.dim < Len(Dimensions)
    BY DEF SearchHolds, WithResult
  <1> HIDE DEF results, next
  <1>5. y \in [pc : {next.pc}, dim : {x.dim + 1}, answer : {NoAnswer},
               results : {results}, given : {x.given}, session : {x.session, session}]
    BY <1>4 DEF next
  <1>6. /\ y.pc \in {"lookup", "refused", "answered"} /\ ~InHand(y) /\ y.results = results
        /\ y.given = x.given /\ y.pc = next.pc /\ y.dim = x.dim + 1
    BY <1>4, <1>5 DEF InHand
  <1>7. y \in [pc : ExpertSteps, dim : Nat, answer : Int,
               results : Seq([answer : Int, at : Int]), given : Seq(Int), session : {y.session}]
    <2>1. y \in [pc : {y.pc}, dim : {y.dim}, answer : {y.answer}, results : {y.results},
                 given : {y.given}, session : {y.session}]
      BY <1>5
    <2>2. y.pc \in ExpertSteps /\ y.answer \in Int
      BY <1>5, <1>6 DEF ExpertSteps, NoAnswer
    <2>3. y.dim \in Nat /\ y.given \in Seq(Int)
      BY <1>1, <1>6
    <2>4. y.results \in Seq([answer : Int, at : Int])
      BY <1>3, <1>6
    <2>5. QED
      BY <2>1, <2>2, <2>3, <2>4
  <1>8. \A i \in 1..Len(y.results) : y.given[i] # NoAnswer => y.results[i].answer = y.given[i]
    <2>1. ASSUME NEW i \in 1..Len(x.results), x.given[i] # NoAnswer
          PROVE  results[i].answer = x.given[i]
      BY <1>3, <2>1 DEF SearchHolds
    <2>2. x.given[Len(x.given)] # NoAnswer => results[Len(x.given)].answer = x.given[Len(x.given)]
      BY <1>1, <1>2, <1>3
    <2>3. \A i \in 1..Len(x.given) : i \in 1..Len(x.results) \/ i = Len(x.given)
      BY <1>1
    <2>4. QED
      BY <1>3, <1>6, <2>1, <2>2, <2>3
  <1>9. y.pc \in Searching => y.dim \in DOMAIN Dimensions
    BY <1>1, <1>6, <1>10, WebAssumption DEF Searching
  <1>11. QED
    BY <1>1, <1>3, <1>6, <1>7, <1>8, <1>9 DEF SearchHolds, InHand

LEMMA SearchInvInit == WebInit => SearchInv
  <1> SUFFICES ASSUME WebInit PROVE SearchInv
    OBVIOUS
  <1>1. webTime \in Nat /\ dbOffset \in Nat
    BY WebAssumption DEF WebInit
  <1>2. CacheHolds
    <2>1. NoEntry.answer = 0 /\ NoEntry.expires = 0
      BY DEF NoEntry
    <2>2. \A k : EntryFits(k, NoEntry)
      BY <2>1, TtlType DEF EntryFits
    <2>3. QED
      BY <2>2 DEF CacheHolds, WebInit
  <1>3. ExpertsHold
    BY StartHolds DEF ExpertsHold, WebInit
  <1>4. QED
    BY <1>1, <1>2, <1>3 DEF SearchInv

-----------------------------------------------------------------------------
(* The steps. *)

LEMMA ExpertStepsKeep ==
  ASSUME SearchInv, NEW e \in Experts, NEW x, expert' = [expert EXCEPT ![e] = x], SearchHolds(x),
         UNCHANGED <<webTime, dbOffset, webCache>>
  PROVE  SearchInv'
  BY ExpertMoves DEF SearchInv, CacheHolds

LEMMA StartSearchKeeps ==
  ASSUME SearchInv, NEW e \in Experts, StartSearch(e)
  PROVE  SearchInv'
  <1> DEFINE x == [IdleExpert EXCEPT !.pc = "lookup"]
  <1>1. expert' = [expert EXCEPT ![e] = x] /\ UNCHANGED <<webTime, dbOffset, webCache>>
    BY DEF StartSearch
  <1>2. SearchHolds(x)
    BY StartHolds
  <1> HIDE DEF x
  <1>3. QED
    BY <1>1, <1>2, ExpertStepsKeep

\* What an action does to its expert x, where g is what Bocha gave, or nothing.
Gives(x, y, pc, answer, g) ==
  y \in [pc : {pc}, dim : {x.dim}, answer : {answer}, results : {x.results},
         given : {Append(x.given, g)}, session : {y.session}]

LEMMA EntryFound ==
  ASSUME SearchInv, NEW e \in Experts, expert[e].pc \in Searching
  PROVE  CacheKey(Dimension(e)) \in Keys /\ EntryFits(CacheKey(Dimension(e)), Entry(e))
  <1>1. expert[e].dim \in DOMAIN Dimensions
    BY DEF SearchInv, ExpertsHold, SearchHolds
  <1>2. CacheKey(Dimension(e)) \in Keys
    BY <1>1 DEF Keys, Dimension
  <1>3. QED
    BY <1>2 DEF SearchInv, CacheHolds, Entry

LEMMA LookUpCacheKeeps ==
  ASSUME SearchInv, NEW e \in Experts, LookUpCache(e)
  PROVE  SearchInv'
  <1> DEFINE x == expert[e]
             hit == Unexpired(Entry(e))
             y == [x EXCEPT !.pc = IF hit THEN "log" ELSE "bocha",
                            !.answer = IF hit THEN Entry(e).answer ELSE NoAnswer,
                            !.given = IF hit THEN Append(x.given, NoAnswer) ELSE x.given]
  <1>1. SearchHolds(x) /\ x.pc = "lookup"
    BY DEF SearchInv, ExpertsHold, LookUpCache
  <1>2. expert' = [expert EXCEPT ![e] = y] /\ UNCHANGED <<webTime, dbOffset, webCache>>
    BY DEF LookUpCache
  <1>3. Entry(e).answer \in Int /\ NoAnswer \in Int
    BY <1>1, EntryFound DEF EntryFits, NoAnswer, Searching
  <1>4. SearchHolds(y)
    <2>1. CASE hit
      <3>1. Gives(x, y, "log", Entry(e).answer, NoAnswer)
        BY <1>1, <2>1 DEF Gives, SearchHolds
      <3> HIDE DEF x, y
      <3>2. QED
        BY <1>1, <1>3, <3>1, GivenHolds DEF Gives
    <2>2. CASE ~hit
      <3>1. y \in [pc : {"bocha"}, dim : {x.dim}, answer : {NoAnswer}, results : {x.results},
                   given : {x.given}, session : {x.session}]
        BY <1>1, <2>2 DEF SearchHolds
      <3> HIDE DEF x, y
      <3>2. QED
        BY <1>1, <1>3, <3>1 DEF SearchHolds, InHand, Searching, ExpertSteps
    <2>3. QED
      BY <2>1, <2>2
  <1> HIDE DEF y
  <1>5. QED
    BY <1>2, <1>4, ExpertStepsKeep

\* The lookup, or Bocha, has failed.
LEMMA NothingGivenKeeps ==
  ASSUME SearchInv, NEW e \in Experts, LookUpFails(e) \/ BochaFails(e)
  PROVE  SearchInv'
  <1> DEFINE x == expert[e]
             y == [x EXCEPT !.pc = "log", !.answer = NoAnswer, !.given = Append(x.given, NoAnswer)]
             z == [y EXCEPT !.session = "unusable"]
  <1>1. SearchHolds(x) /\ x.pc \in {"lookup", "bocha"}
    BY DEF SearchInv, ExpertsHold, LookUpFails, BochaFails
  <1>2. expert' = [expert EXCEPT ![e] = y] \/ expert' = [expert EXCEPT ![e] = z]
    BY DEF LookUpFails, BochaFails
  <1>3. UNCHANGED <<webTime, dbOffset, webCache>>
    BY DEF LookUpFails, BochaFails
  <1>4. Gives(x, y, "log", NoAnswer, NoAnswer) /\ Gives(x, z, "log", NoAnswer, NoAnswer)
    BY <1>1 DEF Gives, SearchHolds
  <1> HIDE DEF x, y, z
  <1>5. NoAnswer \in Int
    BY DEF NoAnswer
  <1>6. SearchHolds(y) /\ SearchHolds(z)
    BY <1>1, <1>4, <1>5, GivenHolds DEF Gives
  <1>7. QED
    BY <1>2, <1>3, <1>6, ExpertStepsKeep

LEMMA BochaAnswersKeeps ==
  ASSUME SearchInv, NEW e \in Experts, BochaAnswers(e)
  PROVE  SearchInv'
  <1> DEFINE x == expert[e]
             y == [x EXCEPT !.pc = "put", !.answer = webTime, !.given = Append(x.given, webTime)]
  <1>1. SearchHolds(x) /\ x.pc = "bocha"
    BY DEF SearchInv, ExpertsHold, BochaAnswers
  <1>2. expert' = [expert EXCEPT ![e] = y] /\ UNCHANGED <<webTime, dbOffset, webCache>>
    BY DEF BochaAnswers
  <1>3. Gives(x, y, "put", webTime, webTime)
    BY <1>1 DEF Gives, SearchHolds
  <1> HIDE DEF x, y
  <1>4. webTime \in Nat
    BY DEF SearchInv
  <1>5. SearchHolds(y)
    BY <1>1, <1>3, <1>4, GivenHolds DEF Gives
  <1>6. QED
    BY <1>2, <1>5, ExpertStepsKeep

\* The answer is in hand still, whether it is cached or not.
LEMMA PutHolds ==
  ASSUME SearchInv, NEW e \in Experts, PutInCache(e) \/ PutFails(e)
  PROVE  ExpertsHold'
  <1> DEFINE x == expert[e]
             y == [x EXCEPT !.pc = "log"]
             z == [x EXCEPT !.pc = "log", !.session = "unusable", !.answer = x.answer]
  <1>1. SearchHolds(x) /\ x.pc = "put" /\ ExpertsHold
    BY DEF SearchInv, ExpertsHold, PutInCache, PutFails
  <1>2. expert' = [expert EXCEPT ![e] = y] \/ expert' = [expert EXCEPT ![e] = z]
    BY DEF PutInCache, PutFails, UnblockedAnswer
  <1>3. ASSUME NEW session,
               NEW w \in [pc : {"log"}, dim : {x.dim}, answer : {x.answer}, results : {x.results},
                          given : {x.given}, session : {session}]
        PROVE  SearchHolds(w)
    <2>1. /\ w.pc = "log" /\ w.dim = x.dim /\ w.answer = x.answer /\ w.results = x.results
          /\ w.given = x.given /\ w.session = session /\ InHand(w) /\ InHand(x)
      BY <1>1, <1>3 DEF InHand
    <2> HIDE DEF x
    <2>2. w \in [pc : ExpertSteps, dim : Nat, answer : Int,
                 results : Seq([answer : Int, at : Int]), given : Seq(Int), session : {w.session}]
      BY <1>1, <1>3, <2>1 DEF SearchHolds, ExpertSteps
    <2>3. QED
      BY <1>1, <2>1, <2>2 DEF SearchHolds, Searching
  <1>4. /\ y \in [pc : {"log"}, dim : {x.dim}, answer : {x.answer}, results : {x.results},
                  given : {x.given}, session : {x.session}]
        /\ z \in [pc : {"log"}, dim : {x.dim}, answer : {x.answer}, results : {x.results},
                  given : {x.given}, session : {"unusable"}]
    BY <1>1 DEF SearchHolds
  <1> HIDE DEF x, y, z
  <1>5. SearchHolds(y) /\ SearchHolds(z)
    BY <1>3, <1>4
  <1>6. QED
    BY <1>1, <1>2, <1>5, ExpertMoves

LEMMA PutKeeps ==
  ASSUME SearchInv, NEW e \in Experts, PutInCache(e) \/ PutFails(e)
  PROVE  SearchInv'
  <1> DEFINE key == CacheKey(Dimension(e))
             x == expert[e]
             entry == PutEntry(Entry(e), x.answer, x.answer, Dimension(e).freshness)
  <1>1. webTime' = webTime /\ dbOffset' = dbOffset
    BY DEF PutInCache, PutFails
  <1>2. CASE PutInCache(e)
    <2>1. x.pc = "put" /\ webCache' = [webCache EXCEPT ![key] = entry]
      BY <1>2 DEF PutInCache, Entry
    <2>2. x.answer \in Nat /\ key \in Keys
      BY <2>1, EntryFound DEF SearchInv, ExpertsHold, SearchHolds, Searching
    <2>3. key[2] = Dimension(e).freshness
      BY DEF CacheKey
    <2>4. /\ entry.answer = x.answer /\ entry.expires = x.answer + Ttl(key[2])
      BY <2>3 DEF PutEntry
    <2> HIDE DEF key, x, entry
    <2>5. EntryFits(key, entry)
      BY <2>2, <2>4, TtlType DEF EntryFits
    <2>6. CacheHolds'
      <3>1. /\ webCache'[key] = entry /\ \A k \in Keys : k # key => webCache'[k] = webCache[k]
            /\ webCache' \in [Keys -> {webCache'[k] : k \in Keys}]
        BY <2>1, <2>2 DEF SearchInv, CacheHolds
      <3>2. QED
        BY <2>5, <3>1 DEF SearchInv, CacheHolds
    <2>7. QED
      BY <1>1, <2>6, PutHolds DEF SearchInv
  <1>3. CASE PutFails(e)
    <2>1. CacheHolds'
      BY <1>3 DEF PutFails, SearchInv, CacheHolds
    <2>2. QED
      BY <1>1, <2>1, PutHolds DEF SearchInv
  <1>4. QED
    BY <1>2, <1>3

LEMMA WriteSearchLogKeeps ==
  ASSUME SearchInv, NEW e \in Experts, WriteSearchLog(e)
  PROVE  SearchInv'
  <1> DEFINE x == expert[e]
             y == WithResult(x)
             z == [WithResult(x) EXCEPT !.session = "unusable"]
  <1>1. SearchHolds(x) /\ x.pc = "log" /\ webTime \in Nat
    BY DEF SearchInv, ExpertsHold, WriteSearchLog
  <1>2. expert' = [expert EXCEPT ![e] = y] \/ expert' = [expert EXCEPT ![e] = z]
    BY DEF WriteSearchLog
  <1>3. UNCHANGED <<webTime, dbOffset, webCache>>
    BY DEF WriteSearchLog
  <1> HIDE DEF x
  <1>4. SearchHolds(y) /\ SearchHolds(z)
    BY <1>1, WithResultHolds
  <1> HIDE DEF y, z
  <1>5. QED
    BY <1>2, <1>3, <1>4, ExpertStepsKeep

LEMMA SearchInvNext == SearchInv /\ [WebNext]_webVars => SearchInv'
  <1> SUFFICES ASSUME SearchInv, [WebNext]_webVars PROVE SearchInv'
    OBVIOUS
  <1>1. CASE Passing
    <2>1. webTime' \in Nat /\ UNCHANGED <<dbOffset, webCache, expert>>
      BY <1>1 DEF Passing, SearchInv
    <2>2. QED
      BY <2>1 DEF SearchInv, CacheHolds, ExpertsHold
  <1>2. ASSUME NEW e \in Experts,
               \/ StartSearch(e) \/ LookUpCache(e) \/ LookUpFails(e)
               \/ BochaAnswers(e) \/ BochaFails(e) \/ PutInCache(e) \/ PutFails(e)
               \/ WriteSearchLog(e)
        PROVE  SearchInv'
    BY <1>2, StartSearchKeeps, LookUpCacheKeeps, NothingGivenKeeps, BochaAnswersKeeps, PutKeeps,
       WriteSearchLogKeeps
  <1>3. CASE UNCHANGED webVars
    BY <1>3 DEF webVars, SearchInv, CacheHolds, ExpertsHold
  <1>4. QED
    BY <1>1, <1>2, <1>3 DEF WebNext

LEMMA InvMeansFresh == SearchInv => ServedFresh
  <1> SUFFICES ASSUME SearchInv, NEW i \in DOMAIN Dimensions,
                      Unexpired(webCache[CacheKey(Dimensions[i])])
               PROVE  webTime - webCache[CacheKey(Dimensions[i])].answer
                        < Ttl(Dimensions[i].freshness)
    BY DEF ServedFresh
  <1> DEFINE key == CacheKey(Dimensions[i])
             entry == webCache[key]
  <1>1. key \in Keys /\ key[2] = Dimensions[i].freshness
    BY DEF Keys, CacheKey
  <1>2. EntryFits(key, entry)
    BY <1>1 DEF SearchInv, CacheHolds
  <1>3. entry.expires > webTime + dbOffset
    BY DEF Unexpired
  <1> HIDE DEF key, entry
  <1>4. webTime - entry.answer < Ttl(key[2])
    BY <1>2, <1>3, TtlType DEF EntryFits, SearchInv
  <1>5. QED
    BY <1>1, <1>4 DEF key, entry

LEMMA InvMeansAnswered == SearchInv => AskedIsAnswered
  <1> SUFFICES ASSUME SearchInv, NEW e \in Experts, NEW i \in DOMAIN expert[e].results,
                      expert[e].given[i] # NoAnswer
               PROVE  expert[e].results[i].answer = expert[e].given[i]
    BY DEF AskedIsAnswered
  <1>1. SearchHolds(expert[e])
    BY DEF SearchInv, ExpertsHold
  <1>2. i \in 1..Len(expert[e].results)
    BY <1>1, LenProperties DEF SearchHolds
  <1>3. QED
    BY <1>1, <1>2 DEF SearchHolds

\* A dimension for which Bocha answered has that answer although the cache and
\* the call log may fail; and what the cache serves is younger than the TTL of
\* the freshness that was asked for, by whatever experts it was written last.
THEOREM SearchKeepsItsPromises == WebSpec => []SearchAnswersHold
  <1>1. SearchInv => SearchAnswersHold
    BY InvMeansFresh, InvMeansAnswered DEF SearchAnswersHold
  <1>2. QED
    BY <1>1, SearchInvInit, SearchInvNext, PTL DEF WebSpec

-----------------------------------------------------------------------------
(* The types of the web search *)

Heard == {NoAnswer} \cup 0..MaxWebTime

ExpertTyped(x) ==
  /\ x.dim \in 1..(Len(Dimensions) + 1) /\ x.answer \in Heard
  /\ \A i \in 1..Len(x.results) : x.results[i] \in [answer : Heard, at : 0..MaxWebTime]
  /\ x.session \in {"fine", "unusable"}

WebTyped ==
  /\ webTime \in 0..MaxWebTime /\ dbOffset \in DbOffsets
  /\ \A k \in Keys : webCache[k] \in WebSearchCacheEntry
  /\ \A e \in Experts : ExpertTyped(expert[e])

LEMMA IdleExpertTyped ==
  ExpertTyped(IdleExpert) /\ ExpertTyped([IdleExpert EXCEPT !.pc = "lookup"])
  <1>1. /\ IdleExpert.dim = 1 /\ IdleExpert.answer = NoAnswer /\ IdleExpert.results = <<>>
        /\ IdleExpert.session = "fine"
        /\ [IdleExpert EXCEPT !.pc = "lookup"].dim = 1
        /\ [IdleExpert EXCEPT !.pc = "lookup"].answer = NoAnswer
        /\ [IdleExpert EXCEPT !.pc = "lookup"].results = <<>>
        /\ [IdleExpert EXCEPT !.pc = "lookup"].session = "fine"
    BY DEF IdleExpert
  <1>2. 1 \in 1..(Len(Dimensions) + 1) /\ Len(<<>>) = 0
    BY WebAssumption
  <1>3. QED
    BY <1>1, <1>2 DEF ExpertTyped, Heard

LEMMA TypedExpertMoves ==
  ASSUME SearchInv, WebTyped, NEW e \in Experts, NEW x, ExpertTyped(x),
         expert' = [expert EXCEPT ![e] = x], UNCHANGED <<webTime, dbOffset>>,
         \A k \in Keys : webCache'[k] \in WebSearchCacheEntry
  PROVE  WebTyped'
  <1>1. expert'[e] = x /\ \A q \in Experts : q # e => expert'[q] = expert[q]
    BY DEF SearchInv, ExpertsHold
  <1>2. QED
    BY <1>1 DEF WebTyped, ExpertTyped, Heard

\* An expert in the middle of a dimension whose results stay.
LEMMA TypedInBetween ==
  ASSUME SearchInv, WebTyped, NEW e \in Experts, NEW x,
         x.dim = expert[e].dim, x.results = expert[e].results, x.answer \in Heard,
         x.session \in {expert[e].session, "unusable"},
         expert' = [expert EXCEPT ![e] = x], UNCHANGED <<webTime, dbOffset, webCache>>
  PROVE  WebTyped'
  <1>1. ExpertTyped(x)
    BY DEF WebTyped, ExpertTyped
  <1>2. QED
    BY <1>1, TypedExpertMoves DEF WebTyped

LEMMA ResultTyped ==
  ASSUME SearchInv, WebTyped, NEW e \in Experts, WriteSearchLog(e)
  PROVE  WebTyped'
  <1> DEFINE x == expert[e]
             result == [answer |-> x.answer, at |-> webTime]
             results == Append(x.results, result)
             y == WithResult(x)
             z == [WithResult(x) EXCEPT !.session = "unusable"]
  <1>1. SearchHolds(x) /\ x.pc = "log" /\ ExpertTyped(x)
    BY DEF SearchInv, ExpertsHold, WriteSearchLog, WebTyped
  <1>2. x.dim \in 1..Len(Dimensions) /\ x.results \in Seq([answer : Int, at : Int])
    BY <1>1, WebAssumption DEF SearchHolds, Searching
  <1>3. result \in [answer : Heard, at : 0..MaxWebTime]
    BY <1>1 DEF WebTyped, ExpertTyped
  <1>4. result \in [answer : Int, at : Int]
    BY WebAssumption, <1>3 DEF Heard, NoAnswer
  <1>5. /\ y.dim = x.dim + 1 /\ y.answer = NoAnswer /\ y.results = results /\ y.session = x.session
        /\ z.dim = x.dim + 1 /\ z.answer = NoAnswer /\ z.results = results /\ z.session = "unusable"
    BY <1>1 DEF WithResult, SearchHolds
  <1> HIDE DEF result, x
  <1>6. \A i \in 1..Len(results) : results[i] \in [answer : Heard, at : 0..MaxWebTime]
    <2>1. /\ Len(results) = Len(x.results) + 1 /\ results[Len(x.results) + 1] = result
          /\ \A i \in 1..Len(x.results) : results[i] = x.results[i]
          /\ Len(x.results) \in Nat
      BY <1>2, <1>4, AppendProperties
    <2> HIDE DEF results
    <2>2. \A i \in 1..Len(x.results) : x.results[i] \in [answer : Heard, at : 0..MaxWebTime]
      BY <1>1 DEF ExpertTyped
    <2>3. QED
      BY <1>3, <2>1, <2>2
  <1> HIDE DEF results, y, z
  <1>7. ExpertTyped(y) /\ ExpertTyped(z)
    BY <1>1, <1>2, <1>5, <1>6, WebAssumption DEF ExpertTyped, Heard
  <1>8. expert' = [expert EXCEPT ![e] = y] \/ expert' = [expert EXCEPT ![e] = z]
    BY DEF WriteSearchLog, x, y, z
  <1>9. QED
    BY <1>7, <1>8, TypedExpertMoves DEF WriteSearchLog, WebTyped

LEMMA PutTyped ==
  ASSUME SearchInv, WebTyped, NEW e \in Experts, PutInCache(e)
  PROVE  WebTyped'
  <1> DEFINE x == expert[e]
             y == [x EXCEPT !.pc = "log"]
             key == CacheKey(Dimension(e))
             entry == PutEntry(Entry(e), x.answer, x.answer, Dimension(e).freshness)
  <1>1. SearchHolds(x) /\ x.pc = "put" /\ ExpertTyped(x)
    BY DEF SearchInv, ExpertsHold, PutInCache, WebTyped
  <1>2. x.answer \in 0..MaxWebTime
    BY <1>1 DEF SearchHolds, ExpertTyped, Heard, NoAnswer
  <1>3. entry \in WebSearchCacheEntry
    <2>1. x.answer + Ttl(Dimension(e).freshness) \in Nat
      BY <1>2, TtlType, WebAssumption
    <2>2. QED
      BY <1>2, <2>1 DEF PutEntry, WebSearchCacheEntry
  <1>4. webCache' = [webCache EXCEPT ![key] = entry] /\ UNCHANGED <<webTime, dbOffset>>
    BY DEF PutInCache, Entry
  <1>5. expert' = [expert EXCEPT ![e] = y]
    BY DEF PutInCache
  <1>6. y.dim = x.dim /\ y.results = x.results /\ y.answer = x.answer /\ y.session = x.session
    BY <1>1 DEF SearchHolds
  <1> HIDE DEF entry, key, y, x
  <1>7. \A k \in Keys : webCache'[k] \in WebSearchCacheEntry
    BY <1>3, <1>4 DEF SearchInv, CacheHolds, WebTyped
  <1>8. ExpertTyped(y)
    BY <1>1, <1>6 DEF ExpertTyped
  <1>9. QED
    BY <1>4, <1>5, <1>7, <1>8, TypedExpertMoves

LEMMA WebTypedStep == ASSUME SearchInv, WebTyped, [WebNext]_webVars PROVE WebTyped'
  <1>1. CASE Passing
    BY <1>1, WebAssumption DEF Passing, WebTyped
  <1>2. ASSUME NEW e \in Experts, StartSearch(e) PROVE WebTyped'
    BY <1>2, IdleExpertTyped, TypedExpertMoves DEF StartSearch, WebTyped
  <1>3. ASSUME NEW e \in Experts,
               \/ LookUpCache(e) \/ LookUpFails(e) \/ BochaAnswers(e) \/ BochaFails(e) \/ PutFails(e)
        PROVE  WebTyped'
    <2> DEFINE x == expert[e]
               Stays(y) == /\ expert' = [expert EXCEPT ![e] = y] /\ y.dim = x.dim
                           /\ y.results = x.results /\ y.answer \in Heard
                           /\ y.session \in {x.session, "unusable"}
    <2>1. SearchHolds(x) /\ ExpertTyped(x) /\ UNCHANGED <<webTime, dbOffset, webCache>>
      BY <1>3 DEF SearchInv, ExpertsHold, WebTyped, LookUpCache, LookUpFails, BochaAnswers,
           BochaFails, PutFails
    <2>2. NoAnswer \in Heard /\ webTime \in Heard /\ x.answer \in Heard
      BY <2>1 DEF Heard, WebTyped, ExpertTyped
    <2>3. CASE LookUpCache(e)
      <3> DEFINE hit == Unexpired(Entry(e))
                 y == [x EXCEPT !.pc = IF hit THEN "log" ELSE "bocha",
                                !.answer = IF hit THEN Entry(e).answer ELSE NoAnswer,
                                !.given = IF hit THEN Append(x.given, NoAnswer) ELSE x.given]
      <3>1. Entry(e) \in WebSearchCacheEntry
        BY <2>3, EntryFound DEF LookUpCache, Searching, WebTyped, Entry
      <3>2. Entry(e).answer \in Heard
        BY <3>1 DEF WebSearchCacheEntry, Heard
      <3>3. expert' = [expert EXCEPT ![e] = y]
        BY <2>3 DEF LookUpCache
      <3>4. y.dim = x.dim /\ y.results = x.results /\ y.answer \in Heard /\ y.session = x.session
        BY <2>1, <2>2, <3>2 DEF SearchHolds
      <3> HIDE DEF y, x, hit
      <3>5. Stays(y)
        BY <3>3, <3>4
      <3>6. QED
        BY <2>1, <3>5, TypedInBetween DEF x
    <2>4. CASE LookUpFails(e) \/ BochaFails(e)
      <3> DEFINE y == [x EXCEPT !.pc = "log", !.answer = NoAnswer, !.given = Append(x.given, NoAnswer)]
                 z == [y EXCEPT !.session = "unusable"]
      <3>1. expert' = [expert EXCEPT ![e] = y] \/ expert' = [expert EXCEPT ![e] = z]
        BY <2>4 DEF LookUpFails, BochaFails
      <3>2. /\ y.dim = x.dim /\ y.results = x.results /\ y.answer \in Heard /\ y.session = x.session
            /\ z.dim = x.dim /\ z.results = x.results /\ z.answer \in Heard /\ z.session = "unusable"
        BY <2>1, <2>2 DEF SearchHolds
      <3> HIDE DEF y, z, x
      <3>3. Stays(y) \/ Stays(z)
        BY <3>1, <3>2
      <3>4. QED
        BY <2>1, <3>3, TypedInBetween DEF x
    <2>5. CASE BochaAnswers(e) \/ PutFails(e)
      <3> DEFINE y == [x EXCEPT !.pc = "put", !.answer = webTime, !.given = Append(x.given, webTime)]
                 z == [x EXCEPT !.pc = "log", !.session = "unusable", !.answer = x.answer]
      <3>1. expert' = [expert EXCEPT ![e] = y] \/ expert' = [expert EXCEPT ![e] = z]
        BY <2>5 DEF BochaAnswers, PutFails, UnblockedAnswer
      <3>2. /\ y.dim = x.dim /\ y.results = x.results /\ y.answer \in Heard /\ y.session = x.session
            /\ z.dim = x.dim /\ z.results = x.results /\ z.answer \in Heard /\ z.session = "unusable"
        BY <2>1, <2>2 DEF SearchHolds
      <3> HIDE DEF y, z, x
      <3>3. Stays(y) \/ Stays(z)
        BY <3>1, <3>2
      <3>4. QED
        BY <2>1, <3>3, TypedInBetween DEF x
    <2>6. QED
      BY <1>3, <2>3, <2>4, <2>5
  <1>4. CASE UNCHANGED webVars
    BY <1>4 DEF webVars, WebTyped, ExpertTyped, Heard
  <1>5. QED
    BY <1>1, <1>2, <1>3, <1>4, PutTyped, ResultTyped DEF WebNext

LEMMA WebTypedInit == WebInit => WebTyped
  <1>1. NoEntry \in WebSearchCacheEntry
    BY WebAssumption DEF NoEntry, WebSearchCacheEntry
  <1>2. QED
    BY <1>1, IdleExpertTyped, WebAssumption DEF WebInit, WebTyped

\* An expert never looks past its dimensions by more than the one step that ends
\* the run, and it has as many results as answers to show for them, but for the
\* dimension whose answer waits for the cache or for the log.
THEOREM SearchTypes == WebSpec => []WebTypeOK
  <1>1. SearchInv /\ WebTyped => WebTypeOK
    <2> SUFFICES ASSUME SearchInv, WebTyped PROVE WebTypeOK
      OBVIOUS
    <2>1. webCache \in [Keys -> WebSearchCacheEntry]
      BY DEF SearchInv, CacheHolds, WebTyped
    <2>2. ASSUME NEW e \in Experts
          PROVE  /\ expert[e].pc \in {"idle", "lookup", "bocha", "put", "log", "answered", "refused"}
                 /\ expert[e].dim \in 1..(Len(Dimensions) + 1)
                 /\ expert[e].answer \in {NoAnswer} \cup 0..MaxWebTime
                 /\ \A i \in DOMAIN expert[e].results :
                      expert[e].results[i] \in [answer : {NoAnswer} \cup 0..MaxWebTime, at : 0..MaxWebTime]
                 /\ Len(expert[e].given) = Len(expert[e].results) \/ expert[e].pc \in {"put", "log"}
                 /\ expert[e].session \in {"fine", "unusable"}
      <3>1. SearchHolds(expert[e]) /\ ExpertTyped(expert[e])
        BY DEF SearchInv, ExpertsHold, WebTyped
      <3>2. DOMAIN expert[e].results = 1..Len(expert[e].results) /\ Len(expert[e].results) \in Nat
        BY <3>1, LenProperties DEF SearchHolds
      <3>3. \A i \in DOMAIN expert[e].results :
              expert[e].results[i] \in [answer : {NoAnswer} \cup 0..MaxWebTime, at : 0..MaxWebTime]
        BY <3>1, <3>2 DEF ExpertTyped, Heard
      <3>4. Len(expert[e].given) = Len(expert[e].results) \/ expert[e].pc \in {"put", "log"}
        <4>1. Len(expert[e].given)
                = Len(expert[e].results) + (IF InHand(expert[e]) THEN 1 ELSE 0)
          BY <3>1 DEF SearchHolds
        <4>2. CASE InHand(expert[e])
          BY <4>2 DEF InHand
        <4>3. CASE ~InHand(expert[e])
          BY <3>2, <4>1, <4>3
        <4>4. QED
          BY <4>2, <4>3
      <3>5. expert[e].pc \in ExpertSteps
        BY <3>1 DEF SearchHolds
      <3>6. QED
        BY <3>1, <3>3, <3>4, <3>5 DEF ExpertTyped, Heard, ExpertSteps
    <2>3. QED
      BY <2>1, <2>2 DEF WebTypeOK, WebTyped
  <1>2. QED
    BY <1>1, SearchInvInit, SearchInvNext, WebTypedInit, WebTypedStep, PTL DEF WebSpec
===============================================================================
