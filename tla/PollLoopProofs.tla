--------------------------- MODULE PollLoopProofs ---------------------------
(***************************************************************************)
(* Proofs about PollLoop for every interval, backoff, slice and delay.     *)
(*                                                                         *)
(* A stop is acted on promptly because no slice begins after it: where a   *)
(* slice may begin, or the event is waited on, no tick has passed since    *)
(* the request, and what is left of a slice is less than a second.         *)
(***************************************************************************)
EXTENDS PollLoop, TLAPS

TypeInv ==
    /\ loop \in {"daemon", "web"} /\ interval \in Intervals
    /\ at \in {"top", "poll", "test", "slice", "nap", "wait", "stopped", "dead"}
    /\ at \in {"test", "slice", "nap"} => loop = "daemon"
    /\ backoff \in Nat /\ left \in Int /\ nap \in Nat /\ wait \in Nat /\ overdue \in Nat
    /\ stopping \in BOOLEAN /\ failed \in BOOLEAN

PromptInv ==
    /\ ~stopping \/ at \in {"poll", "slice", "wait"} => overdue = 0
    /\ at = "nap" => overdue + nap <= Second + Delay
    /\ nap <= Second
    /\ overdue <= Second + Delay

(* The daemon waits for the backoff and then lengthens it; the web loop    *)
(* lengthens it and then waits for it.                                     *)
BackoffInv ==
    /\ wait <= interval \/ wait <= Longest
    /\ loop = "daemon" => Initial <= backoff /\ backoff <= Longest
    /\ loop = "daemon" /\ failed => wait <= backoff
    /\ loop = "web" => backoff = interval \/ backoff <= Longest
    /\ loop = "web" /\ failed => wait = backoff /\ backoff <= Longest
    /\ loop = "web" /\ interval <= Longest => interval <= backoff

IInv == TypeInv /\ PromptInv /\ BackoffInv

-----------------------------------------------------------------------------
(* The settings are numbers that can be compared.                          *)
LEMMA Settings ==
    /\ \A i \in Intervals : i \in Nat /\ i > 0
    /\ Initial \in Nat /\ Longest \in Nat /\ Initial <= Longest
    /\ Second \in Nat /\ Second > 0 /\ Delay \in Nat
  BY IntervalAssumption, BackoffAssumption, TickAssumption

(* Lengthening a backoff never shortens it, and stops at the longest. *)
LEMMA LongerBounds ==
    ASSUME NEW b \in Nat
    PROVE  /\ Longer(b) \in Nat /\ Longer(b) <= Longest
           /\ b <= Longest => b <= Longer(b)
  BY Settings DEF Longer, AtMost

(* The invariant holds at first,                                           *)
LEMMA Initially == Init => IInv
<1> SUFFICES ASSUME Init PROVE IInv
  OBVIOUS
<1>1. interval \in Nat /\ interval \in Intervals
  BY Settings DEF Init
<1>2. backoff \in Nat
  BY <1>1, Settings DEF Init
<1>3. TypeInv
  <2>1. stopping \in BOOLEAN /\ failed \in BOOLEAN
    BY DEF Init
  <2>2. left \in Int /\ nap \in Nat /\ wait \in Nat /\ overdue \in Nat /\ at = "top"
        /\ loop \in {"daemon", "web"}
    BY DEF Init
  <2> QED
    BY <1>1, <1>2, <2>1, <2>2 DEF TypeInv
<1>4. PromptInv
  BY Settings DEF Init, PromptInv
<1>5. ~failed
  BY DEF Init
<1>6. BackoffInv
  BY <1>1, <1>5, Settings DEF Init, BackoffInv
<1> QED
  BY <1>3, <1>4, <1>6 DEF IInv

(* The end of a poll. *)
LEMMA AfterPoll ==
    ASSUME IInv, Succeeds \/ TransportFails \/ OtherwiseFails
    PROVE  IInv'
<1> USE DEF IInv, TypeInv, PromptInv, BackoffInv, Waits, settings
<1>0. interval \in Nat /\ at = "poll" /\ overdue = 0
  BY Settings DEF Succeeds, TransportFails, OtherwiseFails
<1>1. CASE Succeeds
  <2>1. ~failed' /\ failed' \in BOOLEAN /\ UNCHANGED <<loop, interval, nap, stopping, overdue>>
    BY <1>1 DEF Succeeds
  <2>2. /\ backoff' = IF loop = "daemon" THEN Initial ELSE interval
        /\ wait' = interval /\ left' = interval
        /\ at' = IF loop = "daemon" THEN "test" ELSE "wait"
    BY <1>1 DEF Succeeds
  <2>3. TypeInv' /\ BackoffInv'
    BY <1>0, <2>1, <2>2, Settings
  <2>4. PromptInv'
    BY <1>0, <2>1, <2>2, Settings
  <2> QED
    BY <2>3, <2>4
<1>2. CASE TransportFails
  BY <1>0, <1>2, Settings, LongerBounds DEF TransportFails
<1>3. CASE OtherwiseFails
  <2>1. CASE loop = "web"
    BY <1>0, <1>3, <2>1, Settings, LongerBounds DEF OtherwiseFails
  <2>2. CASE loop = "daemon"
    BY <1>0, <1>3, <2>2, Settings DEF OtherwiseFails
  <2> QED
    BY <2>1, <2>2
<1> QED
  BY <1>1, <1>2, <1>3

(* A slice is begun before a stop only, and is at most a second. *)
LEMMA AfterSlice ==
    ASSUME IInv, NEW passed \in 0..Delay, Slice(passed)
    PROVE  IInv'
<1> USE DEF IInv, TypeInv
<1>1. overdue = 0 /\ overdue' \in Nat /\ overdue' <= Delay /\ (~stopping => overdue' = 0)
  BY Settings DEF Slice, PromptInv
<1>2. left' \in Int /\ (at' = "dead" \/ at' = "nap") /\ nap' \in Nat /\ nap' <= Second
  BY Settings DEF Slice, AtMost, PromptInv
<1>3. UNCHANGED <<settings, backoff, stopping, wait, failed>> /\ at = "slice"
  BY DEF Slice
<1>4. TypeInv' /\ BackoffInv'
  BY <1>1, <1>2, <1>3 DEF settings, BackoffInv
<1>5. PromptInv'
  <2>1. \A o, n \in Nat : o <= Delay /\ n <= Second =>
            o + n <= Second + Delay /\ o <= Second + Delay
    BY Settings
  <2>2. overdue' + nap' <= Second + Delay /\ overdue' <= Second + Delay
    BY <1>1, <1>2, <2>1, Settings DEF Slice
  <2>3. ~stopping' => overdue' = 0
    BY <1>1, <1>3
  <2> QED
    BY <1>2, <2>2, <2>3 DEF PromptInv
<1> QED
  BY <1>4, <1>5

(* and every step keeps it.                                                *)
LEMMA Step == IInv /\ [Next]_vars => IInv'
<1> SUFFICES ASSUME IInv, [Next]_vars PROVE IInv'
  OBVIOUS
<1> USE DEF IInv, TypeInv, PromptInv, BackoffInv, settings
<1>1. CASE UNCHANGED vars
  BY <1>1 DEF vars
<1>2. CASE Top \/ Test \/ Wake \/ RequestStop
  <2>1. CASE Top
    BY <2>1, Settings DEF Top
  <2>2. CASE Test
    BY <2>2, Settings DEF Test
  <2>3. CASE Wake
    BY <2>3, Settings DEF Wake
  <2>4. CASE RequestStop
    BY <2>4, Settings DEF RequestStop
  <2> QED
    BY <1>2, <2>1, <2>2, <2>3, <2>4
<1>3. CASE Succeeds \/ TransportFails \/ OtherwiseFails
  BY <1>3, AfterPoll
<1>4. CASE \E passed \in 0..Delay : Slice(passed)
  BY <1>4, AfterSlice
<1>5. CASE Tick
  BY <1>5, Settings DEF Tick
<1> QED
  BY <1>1, <1>2, <1>3, <1>4, <1>5 DEF Next

(* Whatever the interval and the backoff, a wait is over within a second   *)
(* of a stop request, but for the time between two statements (_sleep,     *)
(* and the event of the web loop).                                         *)
THEOREM StopAlwaysPrompt == Spec => []StopIsPrompt
<1>1. IInv => StopIsPrompt
  BY DEF IInv, PromptInv, StopIsPrompt
<1> QED
  BY <1>1, Initially, Step, PTL DEF Spec

(* Whatever the interval and the bounds of the backoff: while polls keep   *)
(* failing, no wait is shorter than the one before, and none is longer     *)
(* than both the interval and BACKOFF_MAX (run_forever and _poll_loop).    *)
THEOREM BackoffAlwaysSane == Spec => BackoffIsSane
<1> DEFINE Sane ==
        /\ wait' <= interval \/ wait' <= Longest
        /\ at = "poll" /\ at' # "dead" /\ failed /\ failed' => wait' >= wait
        /\ loop = "web" /\ at = "poll" /\ failed' /\ interval <= Longest => wait' >= interval
<1>1. IInv /\ [Next]_vars => [Sane]_vars
  <2> SUFFICES ASSUME IInv, Next PROVE Sane
    OBVIOUS
  <2> USE DEF IInv, TypeInv, BackoffInv, settings
  <2>1. CASE Succeeds
    BY <2>1, Settings DEF Succeeds, Waits
  <2>2. CASE TransportFails
    BY <2>2, Settings, LongerBounds DEF TransportFails, Waits
  <2>3. CASE OtherwiseFails
    BY <2>3, Settings, LongerBounds DEF OtherwiseFails, Waits
  <2>4. CASE Top \/ Test \/ Wake \/ RequestStop \/ Tick
    BY <2>4, Settings DEF Top, Test, Wake, RequestStop, Tick
  <2>5. CASE \E passed \in 0..Delay : Slice(passed)
    BY <2>5, Settings DEF Slice
  <2> QED
    BY <2>1, <2>2, <2>3, <2>4, <2>5 DEF Next
<1> QED
  BY <1>1, Initially, Step, PTL DEF Spec, BackoffIsSane
=============================================================================
