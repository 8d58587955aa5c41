----------------------------- MODULE ReplayGuard -----------------------------
(***************************************************************************)
(* Replay protection as one receiver process uses it: the guard's memory,  *)
(* the file replay.json behind it, the clock, and the five points of       *)
(* Receiver.process_body at which the process can be caught by a crash.    *)
(*                                                                         *)
(*   idle --Check--> opening --Record--> saving --Save--> delivering       *)
(*                                                                         *)
(* The clock is time.time(): it need not be monotonic, but it is never     *)
(* more than ClockBack behind its highest reading.                         *)
(***************************************************************************)
EXTENDS ReplayRules

CONSTANTS
    NoMessage,   \* no message is in hand
    ClockBack,   \* how far the system clock may be set back
    DiskFaults   \* whether replay.json may be damaged from outside

ASSUME NoMessageAssumption == NoMessage \notin Message
ASSUME ClockBackAssumption == ClockBack \in 0..MaxSkew
ASSUME DiskFaultsAssumption == DiskFaults \in BOOLEAN

VARIABLES
    now,         \* time.time()
    seen,        \* ReplayGuard._seen, lost when the process dies
    file,        \* replay.json, {} when there is none
    disk,        \* "intact" or "corrupt": whether the file parses
    pc,          \* where the process is, "down" when it is not running
    msg,         \* the message in hand
    (* History, not in the code.  A start from a corrupt file forgets it:  *)
    (* what happened before is then beyond the guard's knowledge.          *)
    high,        \* highest reading of the clock
    recorded,    \* every message record() was called with
    saved,       \* every message whose record reached the file
    delivered    \* every message that was written out

vars == <<now, seen, file, disk, pc, msg, high, recorded, saved, delivered>>

Init ==
    /\ now \in Times
    /\ high = now
    /\ seen = {} /\ file = {} /\ disk = "intact"
    /\ pc = "idle"
    /\ msg = NoMessage
    /\ recorded = {} /\ saved = {} /\ delivered = {}

-----------------------------------------------------------------------------
(* The clock advances, or is set back a little. *)
Tick ==
    /\ now' \in Times \ {now}
    /\ now' >= high - ClockBack
    /\ high' = IF now' > high THEN now' ELSE high
    /\ UNCHANGED <<seen, file, disk, pc, msg, recorded, saved, delivered>>

(* check_freshness and check_unseen pass; a message that fails either is   *)
(* rejected and changes nothing here.                                      *)
Check(m) ==
    /\ pc = "idle"
    /\ Fresh(m.ts, now)
    /\ Unseen(m.id, seen)
    /\ msg' = m
    /\ pc' = "opening"
    /\ UNCHANGED <<now, seen, file, disk, high, recorded, saved, delivered>>

(* The sender is not trusted, or open_envelope raises. *)
RefuseInHand ==
    /\ pc = "opening"
    /\ pc' = "idle"
    /\ UNCHANGED <<now, seen, file, disk, msg, high, recorded, saved, delivered>>
Refuse ==
    /\ pc = "opening"
    /\ pc' = "idle"
    /\ msg' = NoMessage
    /\ UNCHANGED <<now, seen, file, disk, high, recorded, saved, delivered>>

(* record(): the memory is updated and pruned ... *)
Record ==
    /\ pc = "opening"
    /\ seen' \in Prune(Remember(seen, msg), now)
    /\ recorded' = recorded \cup {msg}
    /\ pc' = "saving"
    /\ UNCHANGED <<now, file, disk, msg, high, saved, delivered>>

(* ... and then replaces the file atomically, *)
SaveNothing ==
    /\ pc = "saving"
    /\ saved' = saved \cup {msg}
    /\ pc' = "delivering"
    /\ UNCHANGED <<now, seen, file, disk, msg, high, recorded, delivered>>
Save ==
    /\ pc = "saving"
    /\ file' = seen
    /\ disk' = "intact"
    /\ saved' = saved \cup {msg}
    /\ pc' = "delivering"
    /\ UNCHANGED <<now, seen, msg, high, recorded, delivered>>

(* before deliver() writes the plaintext. *)
Deliver ==
    /\ pc = "delivering"
    /\ delivered' = delivered \cup {msg}
    /\ pc' = "idle"
    /\ msg' = NoMessage
    /\ UNCHANGED <<now, seen, file, disk, high, recorded, saved>>

(* Writing the file or the plaintext fails.  The exception leaves          *)
(* process_body; the web poller goes on, the command line daemon dies.     *)
WriteFails ==
    /\ pc \in {"saving", "delivering"}
    /\ pc' = "idle"
    /\ msg' = NoMessage
    /\ UNCHANGED <<now, seen, file, disk, high, recorded, saved, delivered>>

Crash ==
    /\ pc # "down"
    /\ pc' = "down"
    /\ seen' = {}
    /\ msg' = NoMessage
    /\ UNCHANGED <<now, file, disk, high, recorded, saved, delivered>>

Damage ==
    /\ DiskFaults
    /\ disk' = "corrupt"
    /\ UNCHANGED <<now, seen, file, pc, msg, high, recorded, saved, delivered>>

(* __init__ and _load: a corrupt file counts as an empty one. *)
Restart ==
    /\ pc = "down"
    /\ pc' = "idle"
    /\ \/ /\ disk = "intact"
          /\ seen' \in Prune(file, now)
          /\ UNCHANGED <<recorded, saved, delivered>>
       \/ /\ disk = "corrupt"
          /\ seen' = {}
          /\ recorded' = {} /\ saved' = {} /\ delivered' = {}
    /\ UNCHANGED <<now, file, disk, msg, high>>

Next ==
    \/ Tick
    \/ \E m \in Message : Check(m)
    \/ Refuse
    \/ Record
    \/ Save
    \/ Deliver
    \/ WriteFails
    \/ Crash
    \/ Damage
    \/ Restart

Spec == Init /\ [][Next]_vars

-----------------------------------------------------------------------------
(* More messages at least as recent as ts were recorded than the guard can *)
(* keep: the only way an acceptable message can be forgotten.              *)
Crowded(ts) == Cardinality({r \in recorded : r.ts >= ts}) > MaxTracked

(* Every variable has its type. *)
TypeOK ==
    /\ now \in Times
    /\ high \in Times
    /\ seen \in SUBSET Message
    /\ file \in SUBSET Message
    /\ disk \in {"intact", "corrupt"}
    /\ pc \in {"idle", "opening", "saving", "delivering", "down"}
    /\ msg \in IF pc \in {"idle", "down"} THEN {NoMessage} ELSE Message
    /\ recorded \in SUBSET Message
    /\ saved \in SUBSET Message
    /\ delivered \in SUBSET Message

(* A message is never about to be written out a second time (replay.py:9), *)
(* whatever the crashes, failed writes, restarts and clock steps in        *)
(* between, unless the cap has pushed it out of the record.                *)
AtMostOnce == pc = "delivering" /\ msg \in delivered => Crowded(msg.ts)

(* The record answers for a message: it holds the id with a timestamp that *)
(* keeps it there long enough, or the message has left the window for      *)
(* good, or the cap pushed it out.                                         *)
Answers(record, m) ==
    \/ \E r \in record : r.id = m.id /\ r.ts >= m.ts
    \/ m.ts < high - MaxAge - MaxSkew
    \/ Crowded(m.ts)

(* Recorded before delivery (receiver.py:133): what was written out, or is *)
(* about to be, is answered for by the file, so a crash at any point costs *)
(* at most the message in hand and never lets one in again.                *)
DurableBeforeDelivery ==
    /\ delivered \subseteq saved
    /\ pc = "delivering" => msg \in saved
    /\ disk = "intact" => \A m \in saved : Answers(file, m)

(* The record cannot grow without bound (replay.py:12): neither the memory *)
(* nor the file ever holds more than the cap.                              *)
BoundedRecord ==
    /\ Cardinality(seen) <= MaxTracked
    /\ Cardinality(file) <= MaxTracked

(* The docstring's claim without the cap (replay.py:9): nothing inside the *)
(* window is processed twice.                                              *)
NothingProcessedTwice == ~(pc = "delivering" /\ msg \in delivered)

(* What becomes of a message, and the abstract specification of it. *)
life == [m \in Message |->
    IF m \in delivered THEN "delivered"
    ELSE IF msg = m /\ pc \in {"saving", "delivering"} THEN "claimed"
    ELSE IF m \in saved THEN "lost"
    ELSE "new"]

Accept == INSTANCE Acceptance

(* Below the cap and with an undamaged file the guard implements it: no    *)
(* message leaves "delivered" or "lost" again (SECURITY.md:174).           *)
AcceptSpec == Accept!Spec
=============================================================================
