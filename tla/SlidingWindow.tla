--------------------------- MODULE SlidingWindow ---------------------------
(***************************************************************************)
(* What the shared rate limiter promises the provider: calls are granted in *)
(* the order of time, and each at least Window after the one MaxCalls       *)
(* before it, so that no window of that length holds more than MaxCalls.    *)
(***************************************************************************)
EXTENDS Integers, Sequences

CONSTANTS MaxCalls, Window

VARIABLES
  clock,   \* time.monotonic()
  grants   \* the times of the granted calls, in order

windowVars == <<clock, grants>>

WindowInit == clock \in Nat /\ grants = <<>>

Pass == clock' \in {t \in Nat : t > clock} /\ UNCHANGED grants

Grant ==
  /\ Len(grants) >= MaxCalls => clock - grants[Len(grants) + 1 - MaxCalls] >= Window
  /\ grants' = Append(grants, clock)
  /\ UNCHANGED clock

WindowNext == Pass \/ Grant

WindowSpec == WindowInit /\ [][WindowNext]_windowVars

\* No MaxCalls + 1 calls within a window: each call comes at least Window after
\* the one MaxCalls before it, and calls are granted in the order of time.
NoBurst ==
  /\ \A i, j \in 1..Len(grants) : i <= j => grants[i] <= grants[j]
  /\ \A i \in 1..Len(grants) :
       i + MaxCalls <= Len(grants) => grants[i + MaxCalls] - grants[i] >= Window
=============================================================================
