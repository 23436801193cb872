---------------------------- MODULE AkShareCalls ----------------------------
(***************************************************************************)
(* The calls of a process to AkShare.  All clients share one lock, held for *)
(* the whole call and the pause before it.  The check of the trading        *)
(* calendar goes by the lock: the client makes it itself, on the event loop, *)
(* which stands still until the answer is there.                            *)
(***************************************************************************)
EXTENDS Integers, Sequences

CONSTANTS
  AkCallers,     \* coroutines that call AkShare
  AkInterval,    \* request_interval
  MaxAkClock,    \* bound on the clock
  MaxAkCalls     \* bound on the calls

ASSUME AkAssumption == {AkInterval, MaxAkClock, MaxAkCalls} \subseteq Nat

VARIABLES
  akClock,   \* time.monotonic(), from 1 on
  akQueue,   \* the holder of _akshare_rate_lock and those waiting for it
  akPc,      \* where each caller is
  akTime,    \* when its sleep is over; when its call or its check was sent
  akLast,    \* _akshare_last_call, 0.0 at first
  akCalls    \* history: the calls and checks that have ended, and their success

akVars == <<akClock, akQueue, akPc, akTime, akLast, akCalls>>

AkTypeOK ==
  /\ akClock \in Nat \ {0}
  /\ akQueue \in Seq(AkCallers)
  /\ akPc \in [AkCallers -> {"idle", "checking", "queued", "asleep", "calling"}]
  /\ akTime \in [AkCallers -> Nat]
  /\ akLast \in Nat
  /\ akCalls \in Seq([limited : BOOLEAN, start : Nat, end : Nat, ok : BOOLEAN])

AkInit ==
  /\ akClock = 1
  /\ akQueue = <<>>
  /\ akPc = [c \in AkCallers |-> "idle"]
  /\ akTime = [c \in AkCallers |-> 0]
  /\ akLast = 0
  /\ akCalls = <<>>

\* No coroutine runs while another one waits for the calendar.
LoopRuns == \A c \in AkCallers : akPc[c] # "checking"

Ended(c, limited, ok) ==
  /\ akCalls' = Append(akCalls, [limited |-> limited, start |-> akTime[c], end |-> akClock, ok |-> ok])
  /\ akTime' = [akTime EXCEPT ![c] = 0]

CallAkShare(c) ==
  /\ LoopRuns /\ akPc[c] = "idle" /\ Len(akCalls) < MaxAkCalls
  /\ akPc' = [akPc EXCEPT ![c] = "queued"]
  /\ akQueue' = Append(akQueue, c)
  /\ UNCHANGED <<akClock, akTime, akLast, akCalls>>

\* fetch_dragon_tiger_detail asks whether the day is a trading day, without the
\* lock and in the coroutine itself.
ChecksCalendar(c) ==
  /\ LoopRuns /\ akPc[c] = "idle" /\ Len(akCalls) < MaxAkCalls
  /\ akPc' = [akPc EXCEPT ![c] = "checking"]
  /\ akTime' = [akTime EXCEPT ![c] = akClock]
  /\ UNCHANGED <<akClock, akQueue, akLast, akCalls>>

\* On another day it is done; on a trading day, or when the check raises, it goes
\* on to a call of the usual kind.
CalendarAnswers(c) ==
  /\ akPc[c] = "checking"
  /\ \/ /\ Ended(c, FALSE, TRUE)
        /\ akPc' = [akPc EXCEPT ![c] = "idle"]
        /\ UNCHANGED akQueue
     \/ /\ \E ok \in BOOLEAN : Ended(c, FALSE, ok)
        /\ akPc' = [akPc EXCEPT ![c] = "queued"]
        /\ akQueue' = Append(akQueue, c)
  /\ UNCHANGED <<akClock, akLast>>

AkHolds(c) == akQueue # <<>> /\ Head(akQueue) = c

\* Faulty: no call waits.
NoPause == FALSE

PauseNeeded == akClock - akLast < AkInterval /\ akLast > 0

AkPauses(c) ==
  /\ LoopRuns /\ akPc[c] = "queued" /\ AkHolds(c) /\ PauseNeeded
  /\ akPc' = [akPc EXCEPT ![c] = "asleep"]
  /\ akTime' = [akTime EXCEPT ![c] = akLast + AkInterval]
  /\ UNCHANGED <<akClock, akQueue, akLast, akCalls>>

AkStarts(c) ==
  /\ LoopRuns
  /\ \/ akPc[c] = "queued" /\ AkHolds(c) /\ ~PauseNeeded
     \/ akPc[c] = "asleep" /\ akClock >= akTime[c]
  /\ akPc' = [akPc EXCEPT ![c] = "calling"]
  /\ akTime' = [akTime EXCEPT ![c] = akClock]
  /\ UNCHANGED <<akClock, akQueue, akLast, akCalls>>

\* The coroutine has the answer of its thread, when the loop runs.  A failed call
\* leaves _akshare_last_call alone.
AkEnds(c) ==
  /\ LoopRuns /\ akPc[c] = "calling"
  /\ \E ok \in BOOLEAN :
       /\ akLast' = IF ok THEN akClock ELSE akLast
       /\ Ended(c, TRUE, ok)
  /\ akPc' = [akPc EXCEPT ![c] = "idle"]
  /\ akQueue' = Tail(akQueue)
  /\ UNCHANGED akClock

AkTicks ==
  /\ akClock < MaxAkClock
  /\ akClock' = akClock + 1
  /\ UNCHANGED <<akQueue, akPc, akTime, akLast, akCalls>>

AkNext ==
  \/ \E c \in AkCallers :
       \/ CallAkShare(c) \/ AkPauses(c) \/ AkStarts(c) \/ AkEnds(c)
       \/ ChecksCalendar(c) \/ CalendarAnswers(c)
  \/ AkTicks

AkSpec == AkInit /\ [][AkNext]_akVars

-----------------------------------------------------------------------------

\* Of the calls through the limiter none starts before the one before it has
\* ended, nor within AkInterval of a successful one; and no two checks of the
\* calendar overlap.  A check and a call may: two requests are as close as they
\* like only when one of them is a check.
AkShareCallsApart ==
  \A i, j \in 1..Len(akCalls) : i < j /\ akCalls[i].limited = akCalls[j].limited =>
    /\ akCalls[j].start >= akCalls[i].end
    /\ akCalls[i].limited /\ akCalls[i].ok => akCalls[j].start >= akCalls[i].end + AkInterval
=============================================================================
