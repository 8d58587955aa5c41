----------------------------- MODULE ReplayRules -----------------------------
(***************************************************************************)
(* The arithmetic of replay.py, without its state: which timestamps are    *)
(* acceptable, and which entries a pruned record may consist of.           *)
(*                                                                         *)
(* A message is the pair of header fields the guard looks at, its id and   *)
(* its signed timestamp.  The dict ReplayGuard._seen maps ids to           *)
(* timestamps; it is represented by the set of its items, so a record is a *)
(* set of messages.                                                        *)
(***************************************************************************)
EXTENDS Integers, FiniteSets

CONSTANTS
    Message,     \* the messages there are
    Times,       \* readings of the clock
    MaxAge,      \* policy.max_message_age
    MaxSkew,     \* policy.max_clock_skew
    MaxTracked   \* MAX_TRACKED_IDS

ASSUME MessageAssumption ==
    IsFiniteSet(Message) /\ \A m \in Message : m.ts \in Nat
ASSUME TimesAssumption == Times \subseteq Nat
ASSUME WindowAssumption == MaxAge \in Nat /\ MaxSkew \in Nat
ASSUME MaxTrackedAssumption == MaxTracked \in Nat

(* check_freshness: not older than MaxAge, not further ahead than MaxSkew. *)
Fresh(ts, now) == now - ts <= MaxAge /\ ts - now <= MaxSkew

(* check_unseen *)
Unseen(id, record) == \A r \in record : r.id # id

(* An entry outlives the window by the skew allowance, so that a clock     *)
(* that is set back does not make a forgotten message acceptable again.    *)
LiveWithoutSkew(record, now) == {r \in record : r.ts >= now - MaxAge}
Live(record, now) == {r \in record : r.ts >= now - MaxAge - MaxSkew}

(* The newest MaxTracked entries.  Entries with equal timestamps are kept  *)
(* in dict order; the model leaves that choice open.                       *)
Newest(record) ==
    {kept \in SUBSET record :
        /\ Cardinality(kept) = MaxTracked
        /\ \A k \in kept, d \in record \ kept : k.ts >= d.ts}

Oldest(record) ==
    {kept \in SUBSET record :
        /\ Cardinality(kept) = MaxTracked
        /\ \A k \in kept, d \in record \ kept : k.ts <= d.ts}

(* _prune: the records that pruning `record` at `now` may leave.           *)
PruneToOldest(record, now) ==
    IF Cardinality(Live(record, now)) <= MaxTracked
    THEN {Live(record, now)}
    ELSE Oldest(Live(record, now))
Prune(record, now) ==
    IF Cardinality(Live(record, now)) <= MaxTracked
    THEN {Live(record, now)}
    ELSE Newest(Live(record, now))

(* _seen[id] = ts *)
Remember(record, m) == {r \in record : r.id # m.id} \cup {m}
==============================================================================
