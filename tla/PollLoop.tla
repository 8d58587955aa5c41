------------------------------ MODULE PollLoop ------------------------------
(***************************************************************************)
(* The two loops around poll_once: Receiver.run_forever, which sleeps in   *)
(* slices and backs off on a TransportError, and WebApp._poll_loop, which  *)
(* waits on an event and backs off on anything.  Time is in ticks.         *)
(***************************************************************************)
EXTENDS Integers

CONSTANTS
    Intervals,  \* poll intervals that may be configured
    Initial,    \* BACKOFF_INITIAL
    Longest,    \* BACKOFF_MAX, and the 300 of the web loop
    Second,     \* a slice of _sleep
    Delay       \* bound: ticks that may pass between two readings of the clock

ASSUME IntervalAssumption == Intervals \subseteq Nat \ {0}
ASSUME BackoffAssumption == Initial \in Nat \ {0} /\ Longest \in Nat /\ Initial <= Longest
ASSUME TickAssumption == Second \in Nat \ {0} /\ Delay \in Nat

VARIABLES
    loop,      \* "daemon" or "web"
    interval,  \* the configured interval
    at,        \* where the loop is
    backoff,
    left,      \* ticks to the deadline
    nap,       \* ticks to the end of the slice
    stopping,  \* a stop was requested
    (* history *)
    wait,      \* how long the current wait was meant to be
    failed,    \* the last poll failed
    overdue    \* ticks since the stop request

vars == <<loop, interval, at, backoff, left, nap, stopping, wait, failed, overdue>>
settings == <<loop, interval>>

Init ==
    /\ loop \in {"daemon", "web"} /\ interval \in Intervals
    /\ at = "top" /\ left = 0 /\ nap = 0
    /\ backoff = IF loop = "daemon" THEN Initial ELSE interval
    /\ stopping = FALSE /\ wait = 0 /\ failed = FALSE /\ overdue = 0

AtMost(a, b) == IF a <= b THEN a ELSE b
LongerOrAnew(b) == IF 2 * b > Longest THEN Initial ELSE 2 * b
Longer(b) == AtMost(2 * b, Longest)

Top ==
    /\ at = "top"
    /\ at' = IF stopping THEN "stopped" ELSE "poll"
    /\ UNCHANGED <<settings, backoff, left, nap, stopping, wait, failed, overdue>>

Waits(ticks, afterFailure) ==
    /\ at' = IF loop = "daemon" THEN "test" ELSE "wait"
    /\ left' = ticks /\ wait' = ticks /\ failed' = afterFailure
    /\ UNCHANGED <<settings, nap, stopping, overdue>>

Succeeds ==
    /\ at = "poll"
    /\ backoff' = IF loop = "daemon" THEN Initial ELSE interval
    /\ Waits(interval, FALSE)

(* The daemon sleeps first and doubles afterwards, the web loop doubles    *)
(* first.                                                                  *)
TransportFails ==
    /\ at = "poll"
    /\ backoff' = Longer(backoff)
    /\ Waits(IF loop = "daemon" THEN backoff ELSE Longer(backoff), TRUE)

(* Any other exception: nothing in run_forever catches it. *)
OtherwiseFails ==
    /\ at = "poll"
    /\ \/ /\ loop = "web"
          /\ backoff' = Longer(backoff) /\ Waits(Longer(backoff), TRUE)
       \/ /\ loop = "daemon" /\ at' = "dead"
          /\ UNCHANGED <<settings, backoff, left, nap, stopping, wait, failed, overdue>>

(* _sleep: the clock is read in the condition, and again for the slice.    *)
(* time.sleep raises on a negative length.                                 *)
Test ==
    /\ at = "test"
    /\ at' = IF stopping \/ left <= 0 THEN "top" ELSE "slice"
    /\ UNCHANGED <<settings, backoff, left, nap, stopping, wait, failed, overdue>>
SleepThrough(passed) ==
    /\ at = "slice"
    /\ left' = left - passed
    /\ IF left' < 0 THEN at' = "dead" /\ nap' = nap
       ELSE at' = "nap" /\ nap' = left'
    /\ overdue' = IF stopping THEN overdue + passed ELSE 0
    /\ UNCHANGED <<settings, backoff, stopping, wait, failed>>
Slice(passed) ==
    /\ at = "slice"
    /\ left' = left - passed
    /\ IF left' < 0 THEN at' = "dead" /\ nap' = nap
       ELSE at' = "nap" /\ nap' = AtMost(Second, left')
    /\ overdue' = IF stopping THEN overdue + passed ELSE 0
    /\ UNCHANGED <<settings, backoff, stopping, wait, failed>>
(* A signal does not cut a slice short; the event ends the wait at once. *)
Wake ==
    /\ \/ at = "nap" /\ nap = 0 /\ at' = "test"
       \/ at = "wait" /\ (left = 0 \/ stopping) /\ at' = "top"
    /\ UNCHANGED <<settings, backoff, left, nap, stopping, wait, failed, overdue>>

Tick ==
    /\ \/ at = "nap" /\ nap > 0 /\ nap' = nap - 1
       \/ at = "wait" /\ left > 0 /\ ~stopping /\ nap' = nap
    /\ left' = left - 1
    /\ overdue' = IF stopping THEN overdue + 1 ELSE 0
    /\ UNCHANGED <<settings, at, backoff, stopping, wait, failed>>

RequestStop ==
    /\ ~stopping /\ stopping' = TRUE
    /\ UNCHANGED <<settings, at, backoff, left, nap, wait, failed, overdue>>

Next ==
    \/ Top \/ Succeeds \/ TransportFails \/ OtherwiseFails
    \/ Test \/ (\E passed \in 0..Delay : Slice(passed)) \/ Wake \/ Tick \/ RequestStop

Spec == Init /\ [][Next]_vars

-----------------------------------------------------------------------------
(* A wait is over within a second of a stop request, but for the time that *)
(* passes between two statements, whatever its length ("Sleep in short     *)
(* slices so a signal is acted on promptly", receiver.py:254).             *)
StopIsPrompt == overdue <= Second + Delay

(* While polls keep failing the waits never become shorter, and no wait is *)
(* longer than the interval and the longest backoff.  The web loop is      *)
(* excused where its interval is over the 300 seconds to which it cuts the *)
(* backoff (server.py:103): there the first failure makes it come sooner.  *)
BackoffIsSane ==
    [][/\ wait' <= interval \/ wait' <= Longest
       /\ at = "poll" /\ at' # "dead" /\ failed /\ failed' => wait' >= wait
       /\ loop = "web" /\ at = "poll" /\ failed' /\ interval <= Longest => wait' >= interval]_vars
=============================================================================
